--------------------------- MODULE VaultCommands ---------------------------
(***************************************************************************)
(* The commands about a mandated vault: wallet status, deposit and         *)
(* bootstrap-vault, and the funding orchestration that status, deposit and *)
(* a short buy run for a Predict Account with a vault behind it            *)
(* (lib/wallet_manager.py, lib/funding_service.py, lib/trade_service.py).  *)
(*                                                                         *)
(* A command starts a server of its own, finds the vault by a handful of   *)
(* calls, each of which may fail, reports, and ends the server in its own  *)
(* finally clause.  The chain and the server are external: a vault may get *)
(* deployed, by the command or by others, between any two calls; it never  *)
(* disappears.  The two commands that continue a session, which            *)
(* FundingOverlay models, are here for the server they start.              *)
(***************************************************************************)
EXTENDS WalletConfig, McpTools, Naturals, Sequences

CONSTANT ToolSets   \* the sets of tools a server may have

ASSUME ToolSetsAssumption == ToolSets \subseteq SUBSET AllTools

VARIABLES
  cmd,      \* the command: one of Commands, or none
  bridge,   \* closed, or what the server it runs was told of broadcasting
  tools,    \* the server's tools
  code,     \* vaults that are deployed
  before,   \* those that were when the command began
  found,    \* the MandatedVaultResolution
  agent,    \* calls of the orchestration made
  sent,     \* vaults the command's server has broadcast a creation of
  report    \* what the command has printed

vaultVars == <<cmd, bridge, tools, code, before, found, agent, sent, report>>

NoFound == [vault |-> NoVault, source |-> "none", deployed |-> FALSE,
            health |-> FALSE, create |-> NoVault, preview |-> FALSE]
Found == [vault : Vaults \cup {NoVault}, source : {"none", "explicit", "predicted"},
          deployed : BOOLEAN, health : BOOLEAN, create : Vaults \cup {NoVault},
          preview : BOOLEAN]

Continues == {"continue-funding", "continue-follow-up"}
Commands == {"status", "deposit", "preview", "execute", "buy"} \cup Continues
Switches == {"unset", "on", "off"}   \* ERC_MANDATED_ENABLE_BROADCAST

(* The calls of build_vault_to_predict_account_orchestration, in order. *)
AgentCalls ==
  << AgentTool.create_agent_account_context, AgentTool.create_agent_funding_policy,
     AgentTool.build_agent_fund_and_action_plan,
     AgentTool.create_agent_fund_and_action_session,
     SessionTool.next_agent_fund_and_action_session_step >>
SessionMade == agent >= 4

(* Between connect and finally the server runs. *)
TryPhases == {"resolve", "health", "rehealth", "prepare", "resolved", "agent",
              "bootstrap", "continue"}
VaultPhases == TryPhases \cup {"connect", "list", "finally"}

VaultTypeOK ==
  /\ cmd \in Commands \cup {"none"}
  /\ bridge \in Switches \cup {"closed"} /\ tools \in SUBSET AllTools
  /\ code \subseteq Vaults /\ before \subseteq code /\ sent \subseteq Vaults
  /\ found \in Found /\ report \in Found
  /\ agent \in 0..Len(AgentCalls)
  /\ found.source = "none" <=> found.vault = NoVault

VaultInit ==
  /\ cmd = "none" /\ bridge = "closed" /\ tools = {}
  /\ code = {} /\ before = {} /\ sent = {}
  /\ found = NoFound /\ agent = 0 /\ report = NoFound

-----------------------------------------------------------------------------
(* The guards at the head of get_status, get_deposit_details,              *)
(* bootstrap_vault and buy, and the SDK that all but those of a vault of   *)
(* its own make before they turn to the server.  Without a vault in play   *)
(* status and deposit just read balances.                                  *)
NeedsBridge(c) ==
  \/ c \in Continues
  \/ setup.mode = "mandated-vault" /\ c # "buy"
  \/ setup.overlay /\ c \in {"status", "deposit", "buy"}

MakesSdk(c) ==
  \/ c = "buy" /\ setup.mode # "mandated-vault"
  \/ c \in {"status", "deposit"} /\ setup.mode # "mandated-vault"

Refusal(c) ==
  CASE MakesSdk(c) -> SdkError
    [] c = "buy" /\ ~MakesSdk(c) -> "ConfigError"
    [] c \in {"preview", "execute"} /\ setup.mode # "mandated-vault" -> "ConfigError"
    [] OTHER -> "none"

Begin(c) ==
  /\ phase = "loaded" /\ NeedsBridge(c) /\ Refusal(c) = "none"
  /\ Go("connect")
  /\ cmd' = c
  /\ \E w \in SUBSET Vaults : code' = w /\ before' = w
  /\ UNCHANGED <<bridge, tools, found, agent, sent, report>>

(* Refused; or building the SDK, or a first read with it, fails; or there  *)
(* is no session to continue.                                              *)
BeginRefused ==
  /\ phase = "loaded"
  /\ \E c \in Commands :
       \/ Refusal(c) # "none" /\ Raise(Refusal(c), "close")
       \/ MakesSdk(c) /\ Refusal(c) = "none" /\ Raise("ChainError", "close")
       \/ c \in Continues /\ Raise("ConfigError", "close")
  /\ UNCHANGED vaultVars

BeginPlain ==
  /\ phase = "loaded" /\ SdkError = "none" /\ ~setup.overlay
  /\ Go("close")
  /\ UNCHANGED vaultVars

(* What the server is told of broadcasting: what the environment says, but *)
(* --confirm means yes unless that says no (_build_execute_bootstrap_      *)
(* config, _SubprocessMcpClient.start).                                    *)
SwitchForced(c) == IF c = "execute" THEN "on" ELSE setup.broadcast
Switch(c) ==
  IF c = "execute" /\ setup.broadcast = "unset" THEN "on" ELSE setup.broadcast

Connect ==
  /\ phase = "connect"
  /\ bridge' = Switch(cmd)
  /\ Go("list")
  /\ UNCHANGED <<cmd, tools, code, before, found, agent, sent, report>>

(* The client has ended its subprocess itself. *)
ConnectRaises ==
  /\ phase = "connect"
  /\ \E kind \in {"McpError", "OSError"} : Raise(kind, "close")
  /\ UNCHANGED vaultVars

(* The second half of connect: the tools are listed. *)
TryWith ==
  CASE cmd \in {"preview", "execute"} -> "bootstrap"
    [] cmd \in Continues -> "continue"
    [] cmd \notin Continues \cup {"preview", "execute"} -> "resolve"

ListTools ==
  /\ phase = "list"
  /\ \E t \in ToolSets : tools' = t
  /\ Go(TryWith)
  /\ UNCHANGED <<cmd, bridge, code, before, found, agent, sent, report>>

ListToolsRaises ==
  /\ phase = "list"
  /\ bridge' = "closed"
  /\ \E kind \in {"McpError", "ValueError", "OSError"} : Raise(kind, "close")
  /\ UNCHANGED <<cmd, tools, code, before, found, agent, sent, report>>

(* What is raised within the try leads to the finally clause. *)
Leave(kind) == Raise(kind, "finally")

(* The overlay's balances are read within the try, and in the end, for a   *)
(* status, the account's approvals.                                        *)
ChainRaises ==
  /\ setup.overlay
  /\ \/ phase = "resolve" /\ cmd # "buy"
     \/ phase = "agent" /\ agent = Len(AgentCalls) /\ cmd = "status"
  /\ Leave("ChainError")
  /\ UNCHANGED vaultVars

(* Someone else deploys. *)
Deployed ==
  /\ cmd # "none"
  /\ \E v \in Vaults : code' = code \cup {v}
  /\ UNCHANGED <<configVars, cmd, bridge, tools, before, found, agent, sent, report>>

-----------------------------------------------------------------------------
(* resolve_mandated_vault.                                                 *)

Finds(r, next) ==
  /\ found' = r
  /\ Go(next)
  /\ UNCHANGED <<cmd, bridge, tools, before, agent, report>>

(* vault_bootstrap, by the server: asked to execute, and not told not to   *)
(* broadcast, it creates a vault that is not there.  The creation is       *)
(* confirmed, or not yet, or never.                                        *)
Creates(mode) == mode = "execute" /\ bridge # "off" /\ Derived \notin code
Bootstraps(mode) ==
  IF Creates(mode) THEN sent' = {Derived} /\ code' \in {code, code \cup {Derived}}
  ELSE UNCHANGED <<sent, code>>

(* deposit alone asks for the creation of a vault that is not there. *)
WantsCreate == cmd = "deposit" /\ ~setup.overlay
Preparation == IF WantsCreate THEN Derived ELSE NoVault

ResolveExplicitAlways ==
  /\ phase = "resolve"
  /\ Finds([NoFound EXCEPT !.vault = setup.vault, !.source = "explicit"], "health")
  /\ UNCHANGED <<sent, code>>

ResolveExplicit ==
  /\ phase = "resolve" /\ setup.vault # NoVault
  /\ Finds([NoFound EXCEPT !.vault = setup.vault, !.source = "explicit"], "health")
  /\ UNCHANGED <<sent, code>>

Predicted == [NoFound EXCEPT !.vault = Derived, !.source = "predicted"]
PredictedLive(h) == [Predicted EXCEPT !.deployed = TRUE, !.health = h]
PredictedAbsent == [Predicted EXCEPT !.preview = TRUE, !.create = Preparation]

(* A server with vault_bootstrap is asked for its plan: it tells whether   *)
(* the vault is there, and perhaps its health.                             *)
AsksBootstrap == phase = "resolve" /\ setup.vault = NoVault /\ SupportsBootstrap(tools)

ResolveByPlan ==
  /\ AsksBootstrap
  /\ setup.derivation /\ setup.signer = "ready"
  /\ Bootstraps("plan")
  /\ \/ /\ Derived \in code
        /\ \E h \in BOOLEAN : Finds(PredictedLive(h), IF h THEN "resolved" ELSE "rehealth")
     \/ /\ Derived \notin code
        /\ Finds(PredictedAbsent, "resolved")

ResolveRaises ==
  /\ AsksBootstrap
  /\ \/ ~setup.derivation /\ Leave("ConfigError")
     \/ setup.derivation /\ setup.signer = "none" /\ Leave("AssertionError")
     \/ setup.derivation /\ setup.signer = "unreadable" /\ Leave("ValueError")
  /\ UNCHANGED vaultVars

ResolveByPrediction ==
  /\ phase = "resolve" /\ setup.vault = NoVault /\ ~SupportsBootstrap(tools)
  /\ IF setup.derivation
       THEN /\ Available(VaultTool.predict_vault_address, tools)
            /\ Finds(Predicted, "health") /\ UNCHANGED <<sent, code>>
       ELSE Leave("ConfigError") /\ UNCHANGED vaultVars

Healthy ==
  /\ phase \in {"health", "rehealth"} /\ Available(VaultTool.health_check, tools)
  /\ found.vault \in code
  /\ Finds([found EXCEPT !.deployed = TRUE, !.health = TRUE], "resolved")
  /\ UNCHANGED <<sent, code>>

(* _is_expected_undeployed_health_error looks for markers in the text of   *)
(* the error.  The server is trusted to use none of them of a vault that   *)
(* is there; of one that is not it may say anything.                       *)
Markers == {"VAULT_NOT_DEPLOYED", "VAULT_UNDEPLOYED", "VAULT_NOT_FOUND", "NO_CONTRACT_CODE",
            "NOT DEPLOYED", "RETURNED NO DATA", "ADDRESS IS NOT A CONTRACT"}
HealthTexts == {{m} : m \in Markers} \cup {{}}   \* the markers that a text has

IsExpectedUndeployedAlways(text) == TRUE
IsExpectedUndeployed(text) == text \cap Markers # {}

HealthErrors ==
  {text \in HealthTexts : text # {} => Available(VaultTool.health_check, tools) /\ found.vault \notin code}

Undeployed ==
  /\ phase = "health"
  /\ \E text \in HealthErrors :
       IF IsExpectedUndeployed(text)
         THEN /\ Finds(found, IF WantsCreate /\ setup.derivation THEN "prepare" ELSE "resolved")
              /\ UNCHANGED <<sent, code>>
         ELSE Leave("McpError") /\ UNCHANGED vaultVars

Prepare ==
  /\ phase = "prepare" /\ Available(VaultTool.prepare_create_vault, tools)
  /\ Finds([found EXCEPT !.create = Derived], "resolved")
  /\ UNCHANGED <<sent, code>>

-----------------------------------------------------------------------------
(* What status and deposit print; a preview hides the preparation. *)
Shown == IF found.preview THEN [found EXCEPT !.create = NoVault] ELSE found

Report ==
  /\ phase = "resolved" /\ ~setup.overlay
  /\ \/ ~RolesUnreadable /\ report' = Shown /\ Go("finally")
     \/ RolesUnreadable /\ report' = report /\ Leave("ValueError")
  /\ UNCHANGED <<cmd, bridge, tools, code, before, found, agent, sent>>

(* resolve_overlay_vault_runtime_metadata, the executor and the adapters   *)
(* root: reading the asset and the token's code asks the chain.            *)
MetadataUnguarded ==
  /\ phase = "resolved" /\ setup.overlay
  /\ found.deployed \/ setup.asset
  /\ Go("agent")
  /\ UNCHANGED vaultVars

Metadata ==
  /\ phase = "resolved" /\ setup.overlay
  /\ found.deployed
  /\ setup.authority \/ found.health
  /\ setup.executor # "unreadable"
  /\ Go("agent")
  /\ UNCHANGED vaultVars

MetadataRaises ==
  /\ phase = "resolved" /\ setup.overlay
  /\ \/ Leave("ConfigError")
     \/ found.deployed /\ ~setup.asset /\ Leave("ChainError")
     \/ found.deployed /\ setup.executor = "unreadable" /\ Leave("ValueError")
  /\ UNCHANGED vaultVars

AgentCall ==
  /\ phase = "agent" /\ agent < Len(AgentCalls)
  /\ Available(AgentCalls[agent + 1], tools)
  /\ agent' = agent + 1
  /\ UNCHANGED <<configVars, cmd, bridge, tools, code, before, found, sent, report>>

(* The orchestration is complete; status and deposit print it with the     *)
(* roles, a buy is refused with it once the server has been ended.         *)
Orchestrated ==
  /\ phase = "agent" /\ agent = Len(AgentCalls)
  /\ IF cmd # "buy" /\ RolesUnreadable
       THEN report' = report /\ Leave("ValueError")
       ELSE report' = found /\ Go("finally")
  /\ UNCHANGED <<cmd, bridge, tools, code, before, found, agent, sent>>

(* The calls of continue_funding or of continue_follow_up are made. *)
Continue ==
  /\ phase = "continue"
  /\ Go("finally")
  /\ UNCHANGED vaultVars

-----------------------------------------------------------------------------
(* bootstrap_vault.                                                        *)

Snapshot ==
  [Predicted EXCEPT !.source = IF setup.vault = NoVault THEN "predicted" ELSE "explicit",
                    !.deployed = Derived \in code]

BootstrapMode == IF cmd = "execute" THEN "execute" ELSE "plan"

BootstrapReady ==
  SupportsBootstrap(tools) /\ setup.authority /\ setup.signer = "ready"

(* The answer, a plan or what has been created, may be lost; a server that *)
(* may not broadcast has none for --confirm.                               *)
Bootstrap ==
  /\ phase = "bootstrap" /\ BootstrapReady
  /\ cmd = "execute" => Creates("execute") \/ Derived \in code
  /\ Bootstraps(BootstrapMode)
  /\ \/ report' = Snapshot /\ Go("finally")
     \/ report' = report /\ Leave("McpError")
  /\ UNCHANGED <<cmd, bridge, tools, before, found, agent>>

BootstrapAsserts ==
  /\ phase = "bootstrap" /\ SupportsBootstrap(tools)
  /\ ~(setup.authority /\ setup.signer = "ready")
  /\ Leave(IF setup.authority /\ setup.signer = "unreadable" THEN "ValueError" ELSE "AssertionError")
  /\ UNCHANGED vaultVars

-----------------------------------------------------------------------------
(* The call the command is making. *)
CurrentTool ==
  CASE phase = "resolve" /\ SupportsBootstrap(tools) -> VaultTool.vault_bootstrap
    [] phase = "resolve" -> VaultTool.predict_vault_address
    [] phase \in {"health", "rehealth"} -> VaultTool.health_check
    [] phase = "prepare" -> VaultTool.prepare_create_vault
    [] phase = "agent" -> AgentCalls[agent + 1]
    [] phase = "bootstrap" -> VaultTool.vault_bootstrap
    [] phase = "continue" -> SessionTool.apply_agent_fund_and_action_session_event

Calling ==
  \/ phase \in {"health", "rehealth", "prepare", "bootstrap", "continue"}
  \/ phase = "resolve" /\ setup.vault = NoVault
  \/ phase = "agent" /\ agent < Len(AgentCalls)

CallFailsForgotten == Calling /\ UNCHANGED <<configVars, vaultVars>>

CallFails ==
  /\ Calling
  /\ \E kind \in CallErrors(CurrentTool, tools) : Leave(kind)
  /\ UNCHANGED vaultVars

-----------------------------------------------------------------------------
(* The finally clause of each route.  The server is gone whatever close    *)
(* meets; an error of its stderr task comes out of it in place of the      *)
(* command's own.                                                          *)
Closes(next) ==
  /\ phase = "finally"
  /\ bridge' = "closed"
  /\ next \/ Raise("ValueError", "close")
  /\ UNCHANGED <<cmd, tools, code, before, found, agent, sent, report>>

(* One without a finally: only what returns is closed. *)
CloseOverlayStatusOnReturn ==
  /\ cmd = "status" /\ setup.overlay
  /\ \/ error = "none" /\ Closes(Go("close"))
     \/ error # "none" /\ phase = "finally" /\ Go("close") /\ UNCHANGED vaultVars

CloseMandatedStatus == cmd = "status" /\ ~setup.overlay /\ Closes(Go("close"))
CloseOverlayStatus == cmd = "status" /\ setup.overlay /\ Closes(Go("close"))
CloseMandatedDeposit == cmd = "deposit" /\ ~setup.overlay /\ Closes(Go("close"))
CloseOverlayDeposit == cmd = "deposit" /\ setup.overlay /\ Closes(Go("close"))
CloseBootstrap == cmd \in {"preview", "execute"} /\ Closes(Go("close"))
CloseContinueFunding == cmd = "continue-funding" /\ Closes(Go("close"))
CloseContinueFollowUp == cmd = "continue-follow-up" /\ Closes(Go("close"))

(* A buy goes on to refuse itself, with the orchestration as the reason. *)
CloseBuy ==
  /\ cmd = "buy"
  /\ Closes(IF error = "none" THEN Raise("ConfigError", "close") ELSE Go("close"))

(* The process ends. *)
VaultReset ==
  /\ cmd' = "none" /\ tools' = {}
  /\ code' = {} /\ before' = {} /\ sent' = {}
  /\ found' = NoFound /\ agent' = 0 /\ report' = NoFound
  /\ UNCHANGED bridge

VaultStep ==
  \/ \E c \in Commands : Begin(c)
  \/ BeginRefused \/ BeginPlain \/ Connect \/ ConnectRaises
  \/ ListTools \/ ListToolsRaises \/ ChainRaises
  \/ ResolveExplicit \/ ResolveByPlan \/ ResolveRaises \/ ResolveByPrediction
  \/ Healthy \/ Undeployed \/ Prepare \/ Report
  \/ Metadata \/ MetadataRaises \/ AgentCall \/ Orchestrated \/ Continue
  \/ Bootstrap \/ BootstrapAsserts \/ CallFails
  \/ CloseMandatedStatus \/ CloseOverlayStatus \/ CloseMandatedDeposit
  \/ CloseOverlayDeposit \/ CloseBootstrap \/ CloseBuy
  \/ CloseContinueFunding \/ CloseContinueFollowUp

-----------------------------------------------------------------------------
(* What a command prints of a vault is so: deployed means it was when      *)
(* printed, not deployed that it was not when the command began.           *)
VaultReportTrue ==
  report.vault # NoVault =>
    /\ report.deployed => report.vault \in code
    /\ ~report.deployed => report.vault \notin before

(* A vault's creation is broadcast only for bootstrap-vault --confirm, and *)
(* not when broadcasting has been switched off.  What the server does is   *)
(* decided by the mode of a call and by what it was told when it was       *)
(* started, steps earlier; all commands start servers, and status and      *)
(* deposit call the very tool that creates.                                *)
BroadcastOnRequest ==
  [][sent' \subseteq sent \/ (cmd = "execute" /\ setup.broadcast # "off")]_sent

(* No funding session is made for a vault that is not deployed. *)
SessionsForLiveVaults == SessionMade => found.vault \in code

(* A server runs from the start of the connection to the finally clause of *)
(* its route and no longer, whichever step in between raises and what: no  *)
(* command hands its result or its error on, and no process ends, with a   *)
(* server still running.                                                   *)
NothingLeftOpen == bridge # "closed" => phase \in TryPhases \cup {"list", "finally"}
=============================================================================
