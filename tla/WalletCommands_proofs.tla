------------------------ MODULE WalletCommands_proofs ------------------------
(***************************************************************************)
(* Proofs about WalletCommands: what every accepted environment gives a    *)
(* command, and what the commands about a vault report, broadcast and      *)
(* leave behind, from any environments and with any servers.               *)
(***************************************************************************)
EXTENDS WalletCommands, TLAPS

-----------------------------------------------------------------------------
(* Each part moves the command within its own phases.                      *)

LEMMA StartPhases ==
  ASSUME Start
  PROVE  phase = "idle" /\ phase' \in {"loaded", "idle"}
BY DEF Start, Load

LEMMA CloseResets ==
  ASSUME Close
  PROVE  /\ phase = "close" /\ phase' = "idle" /\ setup' = NoSetup
         /\ error' = error /\ VaultReset /\ FundsReset /\ BuyReset /\ ApprovalReset
BY DEF Close, HandleStatus, HandleDeposit, HandleBootstrap, HandleContinue, HandleBuy, HandleOthers,
       Ends

Closings ==
  \/ CloseMandatedStatus \/ CloseOverlayStatus \/ CloseMandatedDeposit \/ CloseOverlayDeposit
  \/ CloseBootstrap \/ CloseContinueFunding \/ CloseContinueFollowUp \/ CloseBuy

(* Every route ends its server in the same way, with an error or without.  *)
LEMMA ClosingsClose ==
  ASSUME Closings
  PROVE  /\ phase = "finally" /\ phase' = "close" /\ bridge' = "closed"
         /\ error' \in {error, "ValueError", "ConfigError"}
         /\ UNCHANGED <<setup, cmd, tools, code, before, found, agent, sent, report>>
BY DEF Closings, CloseMandatedStatus, CloseOverlayStatus, CloseMandatedDeposit,
       CloseOverlayDeposit, CloseBootstrap, CloseContinueFunding, CloseContinueFollowUp,
       CloseBuy, Closes, Go, Raise

LEMMA VaultPhasesOnly ==
  ASSUME VaultStep
  PROVE  /\ phase \in VaultPhases \cup {"loaded"}
         /\ phase' \in VaultPhases \cup {"close"}
         /\ phase' = "close" => phase \in {"loaded", "connect", "list", "finally"}
         /\ UNCHANGED setup
<1> USE DEF VaultPhases, TryPhases
<1>1. ASSUME NEW c \in Commands, Begin(c)
      PROVE  phase = "loaded" /\ phase' = "connect" /\ UNCHANGED setup
  BY <1>1 DEF Begin, Go
<1>2. CASE BeginRefused \/ BeginPlain
  BY <1>2 DEF BeginRefused, BeginPlain, Go, Raise
<1>3. CASE Connect \/ ConnectRaises \/ ListTools \/ ListToolsRaises
  BY <1>3 DEF Connect, ConnectRaises, ListTools, ListToolsRaises, TryWith, Go, Raise
<1>4. CASE ChainRaises \/ ResolveRaises \/ MetadataRaises \/ BootstrapAsserts
  BY <1>4 DEF ChainRaises, ResolveRaises, AsksBootstrap, MetadataRaises, BootstrapAsserts,
              Leave, Raise
<1>5. CASE ResolveExplicit
  BY <1>5 DEF ResolveExplicit, Finds, Go
<1>6. CASE ResolveByPlan
  BY <1>6 DEF ResolveByPlan, AsksBootstrap, Finds, Go
<1>7. CASE ResolveByPrediction
  BY <1>7 DEF ResolveByPrediction, Finds, Leave, Go, Raise
<1>8. CASE Healthy \/ Undeployed \/ Prepare
  BY <1>8 DEF Healthy, Undeployed, Prepare, Finds, Leave, Go, Raise
<1>9. CASE Report \/ Metadata
  BY <1>9 DEF Report, Metadata, Leave, Go, Raise
<1>10. CASE AgentCall \/ Orchestrated \/ Continue
  BY <1>10 DEF AgentCall, Orchestrated, Continue, configVars, Leave, Go, Raise
<1>11. CASE Bootstrap
  BY <1>11 DEF Bootstrap, Leave, Go, Raise
<1>12. CASE CallFails
  BY <1>12 DEF CallFails, Calling, Leave, Raise
<1>13. CASE Closings
  BY <1>13, ClosingsClose
<1> QED
  BY <1>1, <1>2, <1>3, <1>4, <1>5, <1>6, <1>7, <1>8, <1>9, <1>10, <1>11, <1>12, <1>13
     DEF VaultStep, Closings

FundsPhases == WithdrawPhases \cup RedeemPhases

LEMMA FundsPhasesOnly ==
  ASSUME FundsStep
  PROVE  /\ phase \in FundsPhases \cup {"loaded"}
         /\ phase' \in FundsPhases \cup {"close"}
         /\ UNCHANGED setup
<1> USE DEF FundsPhases, WithdrawPhases, RedeemPhases
<1>1. CASE WithdrawRefused \/ ReadRaises \/ RedeemRefused
  BY <1>1 DEF WithdrawRefused, ReadRaises, RedeemRefused, Raise
<1>2. CASE BeginWithdraw \/ ReadBnb \/ ReadUsdt
  BY <1>2 DEF BeginWithdraw, ReadBnb, ReadUsdt, Go
<1>3. CASE Decide
  BY <1>3 DEF Decide, Go, Raise
<1>4. CASE Transfer
  BY <1>4 DEF Transfer, Go, Raise
<1>5. CASE BeginRedeem \/ ReadShares \/ ReadMax
  BY <1>5 DEF BeginRedeem, ReadShares, ReadMax, Go
<1>6. CASE Simulate \/ Judge \/ JudgeRaises
  BY <1>6 DEF Simulate, Judge, JudgeRaises, Go, Raise
<1> QED BY <1>1, <1>2, <1>3, <1>4, <1>5, <1>6 DEF FundsStep

LEMMA BuyPhasesOnly ==
  ASSUME BuyStep
  PROVE  /\ phase \in BuyPhases \cup {"loaded"}
         /\ phase' \in BuyPhases \cup {"close"}
         /\ UNCHANGED setup
<1>1. CASE BuyMalformed \/ BeginBuy \/ Try
  BY <1>1 DEF BuyMalformed, BeginBuy, Try, BuyPhases, Go, Raise
<1>2. CASE Plan \/ Fund
  BY <1>2 DEF Plan, Fund, BuyPhases, Go
<1> QED BY <1>1, <1>2 DEF BuyStep

LEMMA ApprovalPhasesOnly ==
  ASSUME ApprovalStep
  PROVE  /\ phase \in ApprovalPhases \cup {"loaded"}
         /\ phase' \in ApprovalPhases \cup {"close"}
         /\ UNCHANGED setup
<1> USE DEF ApprovalPhases
<1>1. CASE BeginReading \/ ReadApproval \/ ReadingRaises \/ ReadingDone
  BY <1>1 DEF BeginReading, ReadApproval, ReadingRaises, ReadingDone, configVars, Go, Raise
<1>2. CASE ApproveRefused \/ BeginApprove \/ SetApprovals \/ SetApprovalsRaises
  BY <1>2 DEF ApproveRefused, BeginApprove, SetApprovals, SetApprovalsRaises, Go, Raise
<1> QED BY <1>1, <1>2 DEF ApprovalStep

LEMMA WorldPhases ==
  ASSUME World
  PROVE  UNCHANGED configVars
BY DEF World, Deployed, FundsMove, BalanceMoves, ApprovalMoves

-----------------------------------------------------------------------------
(* Configuration.                                                          *)

LEMMA EnvironmentFields ==
  ASSUME NEW e \in AllEnvironments
  PROVE  /\ e.mode \in {"none", "read-only", "eoa", "predict-account", "mandated-vault"}
         /\ e.eoa \in BOOLEAN /\ e.address \in BOOLEAN /\ e.privy \in BOOLEAN
         /\ e.vault \in Vaults \cup {NoVault}
         /\ e.core \subseteq Core /\ e.broadcast \in {"unset", "on", "off"}
BY DEF AllEnvironments

LEMMA KeysHaveText ==
  ASSUME NEW e, NEW given, NEW name
  PROVE  KeyText(e, given, name) \in Keys /\ (given => KeyText(e, given, name) # "none")
BY DEF KeyText, Keys

LEMMA SignersAreKeys ==
  ASSUME NEW e
  PROVE  /\ BootstrapSigner(e) \in Keys /\ Executor(e) \in Keys
         /\ AuthSigner(e) \in Keys /\ SdkKey(e) \in Keys
         /\ Authority(e) => BootstrapSigner(e) # "none"
<1>1. EoaKey(e) \in Keys /\ OwnKey(e) \in Keys
  BY KeysHaveText DEF EoaKey, OwnKey
<1>2. BootstrapKey(e) \in Keys /\ ExecutorKey(e) \in Keys
  BY <1>1 DEF BootstrapKey, ExecutorKey, Keys
<1>3. ASSUME NEW key \in Keys
      PROVE  AddressOf(e, key) \in Keys /\ (Authority(e) => AddressOf(e, key) # "none")
  BY <1>3 DEF AddressOf, Keys
<1>4. AuthSigner(e) \in Keys
  BY <1>1 DEF AuthSigner, Keys
<1>5. SdkKey(e) \in Keys
  BY <1>1, KeysHaveText DEF SdkKey, Keys
<1> QED BY <1>2, <1>3, <1>4, <1>5 DEF BootstrapSigner, Executor

(* The vault's derivation inputs come all together or not at all, so that  *)
(* an account's overlay without a vault address can derive one.            *)
LEMMA OverlayDerives ==
  ASSUME NEW e \in AllEnvironments, OverlayFits(e), HasMandatedInput(e), e.vault = NoVault
  PROVE  Asset(e) /\ Naming(e) /\ Authority(e)
BY DEF OverlayFits, Core, Asset, Naming, Authority

LEMMA VaultModeDerives ==
  ASSUME NEW e \in AllEnvironments, e.mode = "mandated-vault", ModeFits(e), e.vault = NoVault
  PROVE  Asset(e) /\ Naming(e) /\ Authority(e)
<1>1. e.eoa \/ e.core = Core
  BY DEF ModeFits
<1>2. Authority(e)
  BY <1>1 DEF Authority, Defaults, Core
<1> QED BY <1>2 DEF Asset, Naming, Defaults

(* A mode, chosen or fallen into, comes with what it trades with. *)
LEMMA TradersHaveKeys ==
  ASSUME NEW e \in AllEnvironments, ModeFits(e)
  PROVE  /\ Mode(e) = "predict-account" => Pair(e)
         /\ Mode(e) = "eoa" => e.eoa
<1>1. ASSUME Mode(e) = "predict-account" PROVE Pair(e)
  <2>1. CASE e.mode = "none"
    BY <1>1, <2>1 DEF Mode
  <2>2. CASE e.mode # "none"
    BY <1>1, <2>2 DEF Mode, ModeFits
  <2> QED BY <2>1, <2>2
<1>2. ASSUME Mode(e) = "eoa" PROVE e.eoa
  <2>1. CASE e.mode = "none"
    BY <1>2, <2>1 DEF Mode
  <2>2. CASE e.mode # "none"
    BY <1>2, <2>2 DEF Mode, ModeFits
  <2> QED BY <2>1, <2>2
<1> QED BY <1>1, <1>2

Serves(s) ==
  /\ s.overlay \/ s.mode = "mandated-vault" =>
       s.vault # NoVault \/ (s.derivation /\ s.signer # "none")
  /\ s.mode \in {"eoa", "predict-account"} => s.auth # "none" /\ s.sdk # "none"

LEMMA AcceptedSetupServes ==
  ASSUME NEW e \in AllEnvironments, Outcome(e) = "none"
  PROVE  SetupOf(e) \in Setups /\ Serves(SetupOf(e))
<1>1. ModeFits(e)
  BY DEF Outcome, Valid
<1>2. Mode(e) \in {"read-only", "eoa", "predict-account", "mandated-vault"}
  BY EnvironmentFields DEF Mode
<1>3. Mode(e) = "mandated-vault" => e.mode = "mandated-vault"
  BY DEF Mode
<1>4. Mode(e) = "predict-account" /\ HasMandatedInput(e) => OverlayFits(e)
  <2>1. SUFFICES ASSUME Mode(e) = "predict-account", HasMandatedInput(e) PROVE OverlayFits(e)
    OBVIOUS
  <2>2. e.mode # "none"
    BY <1>1, <2>1 DEF ModeFits
  <2>3. e.mode = "predict-account"
    BY <2>1, <2>2 DEF Mode
  <2> QED BY <1>1, <2>3 DEF ModeFits
<1>5. SetupOf(e) \in Setups
  <2>1. /\ (Mode(e) = "predict-account" /\ HasMandatedInput(e)) \in BOOLEAN
        /\ Asset(e) \in BOOLEAN /\ Authority(e) \in BOOLEAN
        /\ (Asset(e) /\ Naming(e) /\ Authority(e)) \in BOOLEAN
    BY EnvironmentFields DEF Asset, Authority
  <2> QED BY <1>2, <2>1, EnvironmentFields, SignersAreKeys DEF SetupOf, Setups
<1>6. /\ SetupOf(e).mode = Mode(e) /\ SetupOf(e).vault = e.vault
      /\ SetupOf(e).overlay <=> Mode(e) = "predict-account" /\ HasMandatedInput(e)
      /\ SetupOf(e).derivation <=> Asset(e) /\ Naming(e) /\ Authority(e)
      /\ SetupOf(e).signer = BootstrapSigner(e)
      /\ SetupOf(e).auth = AuthSigner(e) /\ SetupOf(e).sdk = SdkKey(e)
  BY DEF SetupOf
<1>7. SetupOf(e).overlay /\ e.vault = NoVault =>
        SetupOf(e).derivation /\ SetupOf(e).signer # "none"
  BY <1>4, <1>6, OverlayDerives, SignersAreKeys
<1>8. Mode(e) = "mandated-vault" /\ e.vault = NoVault =>
        SetupOf(e).derivation /\ SetupOf(e).signer # "none"
  BY <1>1, <1>3, <1>6, VaultModeDerives, SignersAreKeys
<1>9. Mode(e) = "predict-account" => SetupOf(e).auth # "none" /\ SetupOf(e).sdk # "none"
  BY <1>1, <1>6, TradersHaveKeys, KeysHaveText DEF AuthSigner, SdkKey, Pair
<1>10. Mode(e) = "eoa" => SetupOf(e).auth # "none" /\ SetupOf(e).sdk # "none"
  BY <1>1, <1>6, TradersHaveKeys, KeysHaveText DEF AuthSigner, SdkKey, EoaKey
<1> QED BY <1>5, <1>6, <1>7, <1>8, <1>9, <1>10 DEF Serves

ConfigInv == setup \in Setups /\ (phase = "loaded" => Serves(setup))

LEMMA NoSetupIsSetup == NoSetup \in Setups
BY DEF NoSetup, Setups, Keys, Vaults

LEMMA InitConfig == Init => ConfigInv
BY NoSetupIsSetup DEF Init, ConfigInv

LEMMA ConfigStep == ConfigInv /\ [Next]_vars => ConfigInv'
<1> SUFFICES ASSUME ConfigInv, [Next]_vars PROVE ConfigInv'
  OBVIOUS
<1>1. CASE Start
  <2>1. PICK e \in Environments :
          /\ error' = Outcome(e)
          /\ IF Outcome(e) = "none" THEN phase' = "loaded" /\ setup' = SetupOf(e)
                                     ELSE phase' = "idle" /\ setup' = NoSetup
    BY <1>1 DEF Start, Load
  <2>2. e \in AllEnvironments
    BY EnvironmentsAssumption
  <2>3. CASE Outcome(e) = "none"
    BY <2>1, <2>2, <2>3, AcceptedSetupServes DEF ConfigInv
  <2>4. CASE Outcome(e) # "none"
    BY <2>1, <2>4, NoSetupIsSetup DEF ConfigInv
  <2> QED BY <2>3, <2>4
<1>2. CASE VaultStep
  BY <1>2, VaultPhasesOnly DEF ConfigInv, VaultPhases, TryPhases
<1>3. CASE FundsStep
  BY <1>3, FundsPhasesOnly DEF ConfigInv, FundsPhases, WithdrawPhases, RedeemPhases
<1>4. CASE BuyStep
  BY <1>4, BuyPhasesOnly DEF ConfigInv, BuyPhases
<1>5. CASE ApprovalStep
  BY <1>5, ApprovalPhasesOnly DEF ConfigInv, ApprovalPhases
<1>6. CASE Close
  BY <1>6, CloseResets, NoSetupIsSetup DEF ConfigInv
<1>7. CASE World
  BY <1>7, WorldPhases DEF ConfigInv, configVars
<1>8. CASE UNCHANGED vars
  BY <1>8 DEF ConfigInv, vars, configVars
<1> QED BY <1>1, <1>2, <1>3, <1>4, <1>5, <1>6, <1>7, <1>8 DEF Next, Step

(* Every environment that from_env accepts gives a trading mode the        *)
(* identity and the key its SDK is built on, and a vault command a vault:  *)
(* configured, or derivable with an authority and a signer                 *)
(* (validate_configuration, against what _require_sdk, make_wallet_sdk and *)
(* resolve_mandated_vault then refuse or assert).                          *)
THEOREM EveryAcceptedServes == Spec => []AcceptedServes
<1>1. ConfigInv => AcceptedServes
  BY DEF ConfigInv, Serves, AcceptedServes, SdkError
<1> QED BY InitConfig, ConfigStep, <1>1, PTL DEF Spec

-----------------------------------------------------------------------------
(* Vaults.  What has been found out of the vault is so, or was when the    *)
(* command began, and calls of the orchestration are only made for a vault *)
(* that was found deployed.  A server runs within list, try and finally,   *)
(* and knows of broadcasting what the command started it with.             *)

FoundInv ==
  /\ found.deployed => found.vault \in code
  /\ phase \in {"rehealth", "agent"} => found.deployed
  /\ phase \in {"idle", "loaded"} => ~found.deployed
  /\ phase \in {"prepare", "resolved"} /\ ~found.deployed => found.vault \notin before

AgentInv == agent > 0 => phase \in {"agent", "finally", "close"} /\ found.deployed

ReportInv ==
  /\ report.vault # NoVault => phase \in {"finally", "close"}
  /\ VaultReportTrue

Running == TryPhases \cup {"list", "finally"}

BridgeInv == IF phase \in Running THEN bridge = Switch(cmd) ELSE bridge = "closed"

VaultInv == VaultTypeOK /\ FoundInv /\ AgentInv /\ ReportInv /\ BridgeInv

LEMMA AgentCallsLen == Len(AgentCalls) = 5
BY DEF AgentCalls

LEMMA NoFoundType ==
  /\ NoFound \in Found /\ NoFound.vault = NoVault /\ ~NoFound.deployed
  /\ NoFound.source = "none"
BY DEF NoFound, Found

LEMMA SwitchIsOne ==
  ASSUME setup \in Setups
  PROVE  Switch(cmd) \in Switches /\ (Switch(cmd) = "off" <=> setup.broadcast = "off")
BY DEF Switch, Setups, Switches

LEMMA SwitchStays ==
  ASSUME cmd' = cmd, setup' = setup
  PROVE  Switch(cmd)' = Switch(cmd)
BY DEF Switch

LEMMA InitVault == Init => VaultInv
<1> SUFFICES ASSUME Init PROVE VaultInv
  OBVIOUS
<1>1. VaultTypeOK
  BY AgentCallsLen, NoFoundType DEF Init, VaultInit, VaultTypeOK
<1>2. FoundInv /\ AgentInv /\ ReportInv /\ BridgeInv
  BY NoFoundType DEF Init, VaultInit, FoundInv, AgentInv, ReportInv, VaultReportTrue, BridgeInv,
                     Running, TryPhases
<1> QED BY <1>1, <1>2 DEF VaultInv

(* Where a server runs on, or none does before and after.  *)
LEMMA BridgeStays ==
  ASSUME VaultInv, UNCHANGED <<setup, cmd, bridge>>, phase \in Running <=> phase' \in Running
  PROVE  BridgeInv'
BY SwitchStays DEF VaultInv, BridgeInv, Running, TryPhases

(* A step that finds out something. *)
LEMMA FindsKeeps ==
  ASSUME VaultInv, phase \in {"resolve", "health", "rehealth", "prepare"}, setup' = setup,
         NEW r \in Found, NEW next \in {"health", "rehealth", "prepare", "resolved"},
         Finds(r, next), UNCHANGED <<sent, code>>,
         r.source = "none" <=> r.vault = NoVault,
         r.deployed => r.vault \in code,
         next = "rehealth" => r.deployed,
         next \in {"prepare", "resolved"} /\ ~r.deployed => r.vault \notin before
  PROVE  VaultInv'
<1>1. /\ found' = r /\ phase' = next
      /\ UNCHANGED <<cmd, bridge, tools, code, before, agent, sent, report>>
  BY DEF Finds, Go
<1>2. VaultTypeOK'
  BY <1>1 DEF VaultInv, VaultTypeOK
<1>3. FoundInv'
  BY <1>1 DEF FoundInv
<1>4. AgentInv'
  BY <1>1 DEF VaultInv, AgentInv, VaultTypeOK
<1>5. ReportInv'
  BY <1>1 DEF VaultInv, ReportInv, VaultReportTrue
<1>6. BridgeInv'
  BY <1>1, BridgeStays DEF Running, TryPhases
<1> QED BY <1>2, <1>3, <1>4, <1>5, <1>6 DEF VaultInv

(* A step that changes nothing but where the command is. *)
LEMMA PhaseKeeps ==
  ASSUME VaultInv, UNCHANGED <<setup, vaultVars>>,
         phase \in Running <=> phase' \in Running,
         \/ phase' = "close" /\ phase \in {"loaded", "connect"}
         \/ phase' = "finally"
         \/ phase' = "agent" /\ found.deployed /\ phase = "resolved"
  PROVE  VaultInv'
<1>1. VaultTypeOK'
  BY DEF VaultInv, VaultTypeOK, vaultVars
<1>2. FoundInv' /\ AgentInv' /\ ReportInv'
  BY DEF VaultInv, FoundInv, AgentInv, ReportInv, VaultReportTrue, vaultVars
<1>3. BridgeInv'
  BY BridgeStays DEF vaultVars
<1> QED BY <1>1, <1>2, <1>3 DEF VaultInv

(* A step that reports, or fails to. *)
LEMMA ReportKeeps ==
  ASSUME VaultInv, phase \in TryPhases, phase' = "finally", NEW r \in Found, report' = r,
         r.vault # NoVault =>
           /\ r.deployed => r.vault \in code'
           /\ ~r.deployed => r.vault \notin before,
         sent' \subseteq Vaults, code \subseteq code', code' \subseteq Vaults,
         UNCHANGED <<setup, cmd, bridge, tools, before, found, agent>>
  PROVE  VaultInv'
<1>1. VaultTypeOK'
  BY DEF VaultInv, VaultTypeOK
<1>2. FoundInv' /\ AgentInv'
  BY DEF VaultInv, FoundInv, AgentInv
<1>3. ReportInv'
  BY DEF ReportInv, VaultReportTrue
<1>4. BridgeInv'
  BY BridgeStays DEF Running
<1> QED BY <1>1, <1>2, <1>3, <1>4 DEF VaultInv

LEMMA BeginKeeps ==
  ASSUME VaultInv, NEW c \in Commands, Begin(c)
  PROVE  VaultInv'
<1>0. /\ phase = "loaded" /\ phase' = "connect" /\ cmd' = c
      /\ code' \subseteq Vaults /\ before' = code'
      /\ UNCHANGED <<bridge, tools, found, agent, sent, report>>
  BY DEF Begin, Go
<1>1. VaultTypeOK'
  BY <1>0 DEF VaultInv, VaultTypeOK
<1>2. FoundInv' /\ AgentInv' /\ ReportInv'
  BY <1>0 DEF VaultInv, FoundInv, AgentInv, ReportInv, VaultReportTrue
<1>3. BridgeInv'
  BY <1>0 DEF VaultInv, BridgeInv, Running, TryPhases
<1> QED BY <1>1, <1>2, <1>3 DEF VaultInv

LEMMA ConnectKeeps ==
  ASSUME VaultInv, setup \in Setups, Connect \/ ListTools \/ ListToolsRaises
  PROVE  VaultInv'
<1>0. /\ phase \in {"connect", "list"} /\ phase' \in {"list", "bootstrap", "resolve", "continue", "close"}
      /\ bridge' \in Switches \cup {"closed"} /\ tools' \in SUBSET AllTools
      /\ UNCHANGED <<cmd, setup, code, before, found, agent, sent, report>>
  <2>1. CASE Connect
    BY <2>1, SwitchIsOne DEF Connect, Go, VaultInv, VaultTypeOK
  <2>2. CASE ListTools
    BY <2>2, ToolSetsAssumption DEF ListTools, TryWith, Go, VaultInv, VaultTypeOK
  <2>3. CASE ListToolsRaises
    BY <2>3 DEF ListToolsRaises, Raise, VaultInv, VaultTypeOK
  <2> QED BY <2>1, <2>2, <2>3
<1>1. VaultTypeOK'
  BY <1>0 DEF VaultInv, VaultTypeOK
<1>2. FoundInv' /\ AgentInv' /\ ReportInv'
  BY <1>0 DEF VaultInv, FoundInv, AgentInv, ReportInv, VaultReportTrue
<1>3. BridgeInv'
  <2>1. CASE Connect
    BY <1>0, <2>1, SwitchStays DEF Connect, Go, BridgeInv, Running
  <2>2. CASE ListTools
    BY <1>0, <2>2, BridgeStays DEF ListTools, TryWith, Go, Running, TryPhases
  <2>3. CASE ListToolsRaises
    BY <2>3 DEF ListToolsRaises, Raise, BridgeInv, Running, TryPhases
  <2> QED BY <2>1, <2>2, <2>3
<1> QED BY <1>1, <1>2, <1>3 DEF VaultInv

LEMMA ClosingsKeep ==
  ASSUME VaultInv, Closings
  PROVE  VaultInv'
<1>0. /\ phase = "finally" /\ phase' = "close" /\ bridge' = "closed"
      /\ UNCHANGED <<setup, cmd, tools, code, before, found, agent, sent, report>>
  BY ClosingsClose
<1>1. VaultTypeOK'
  BY <1>0 DEF VaultInv, VaultTypeOK
<1>2. FoundInv' /\ AgentInv' /\ ReportInv'
  BY <1>0 DEF VaultInv, FoundInv, AgentInv, ReportInv, VaultReportTrue
<1>3. BridgeInv'
  BY <1>0 DEF BridgeInv, Running, TryPhases
<1> QED BY <1>1, <1>2, <1>3 DEF VaultInv

(* A step of the try that only raises. *)
LEMMA LeaveKeeps ==
  ASSUME VaultInv, phase \in TryPhases, phase' = "finally", UNCHANGED <<setup, vaultVars>>
  PROVE  VaultInv'
BY PhaseKeeps DEF Running

LEMMA ResolveKeeps ==
  ASSUME VaultInv, setup \in Setups,
         ResolveExplicit \/ ResolveByPlan \/ ResolveByPrediction, setup' = setup
  PROVE  VaultInv'
<1>0. /\ setup.vault \in Vaults \cup {NoVault} /\ Derived \in Vaults /\ Derived # NoVault
      /\ before \subseteq code
  BY EnvironmentsAssumption DEF Setups, Vaults, VaultInv, VaultTypeOK
<1>1. CASE ResolveExplicit
  <2> DEFINE r == [NoFound EXCEPT !.vault = setup.vault, !.source = "explicit"]
  <2>1. /\ r \in Found /\ r.vault # NoVault /\ r.source = "explicit" /\ ~r.deployed
    BY <1>0, <1>1 DEF ResolveExplicit, NoFound, Found
  <2>2. phase = "resolve" /\ Finds(r, "health") /\ UNCHANGED <<sent, code>>
    BY <1>1 DEF ResolveExplicit
  <2> HIDE DEF r
  <2> QED BY <2>1, <2>2, FindsKeeps
<1>2. /\ Predicted \in Found /\ Predicted.vault = Derived /\ Predicted.source = "predicted"
      /\ ~Predicted.deployed
  BY <1>0 DEF Predicted, NoFound, Found
<1>3. CASE ResolveByPlan
  <2>1. phase = "resolve" /\ UNCHANGED <<sent, code>>
    BY <1>3 DEF ResolveByPlan, AsksBootstrap, Bootstraps, Creates
  <2>2. ASSUME NEW h \in BOOLEAN, Derived \in code,
               Finds(PredictedLive(h), IF h THEN "resolved" ELSE "rehealth")
        PROVE  VaultInv'
    <3>1. /\ PredictedLive(h) \in Found /\ PredictedLive(h).vault = Derived
          /\ PredictedLive(h).source = "predicted" /\ PredictedLive(h).deployed
      BY <1>0, <2>2 DEF PredictedLive, Predicted, NoFound, Found
    <3>2. PICK next \in {"resolved", "rehealth"} : Finds(PredictedLive(h), next)
      BY <2>2
    <3> QED BY <1>0, <2>1, <2>2, <3>1, <3>2, FindsKeeps
  <2>3. ASSUME Derived \notin code, Finds(PredictedAbsent, "resolved")
        PROVE  VaultInv'
    <3>1. Preparation \in {NoVault, Derived}
      BY DEF Preparation
    <3>2. /\ PredictedAbsent \in Found /\ PredictedAbsent.vault = Derived
          /\ PredictedAbsent.source = "predicted" /\ ~PredictedAbsent.deployed
      BY <1>0, <3>1 DEF PredictedAbsent, Predicted, NoFound, Found
    <3> QED BY <1>0, <2>1, <2>3, <3>2, FindsKeeps
  <2> QED BY <1>3, <2>2, <2>3 DEF ResolveByPlan
<1>4. CASE ResolveByPrediction
  <2>1. CASE phase = "resolve" /\ Finds(Predicted, "health") /\ UNCHANGED <<sent, code>>
    BY <1>0, <1>2, <2>1, FindsKeeps
  <2>2. CASE phase = "resolve" /\ phase' = "finally" /\ UNCHANGED vaultVars
    BY <2>2, LeaveKeeps DEF TryPhases
  <2> QED BY <1>4, <2>1, <2>2 DEF ResolveByPrediction, Leave, Raise
<1> QED BY <1>1, <1>3, <1>4

LEMMA HealthKeeps ==
  ASSUME VaultInv, Healthy \/ Undeployed \/ Prepare, setup' = setup
  PROVE  VaultInv'
<1>0. /\ found \in Found /\ before \subseteq code /\ Derived \in Vaults
      /\ found.source = "none" <=> found.vault = NoVault
      /\ found.deployed => found.vault \in code
  BY DEF VaultInv, VaultTypeOK, FoundInv, Vaults
<1>1. CASE Healthy
  <2> DEFINE r == [found EXCEPT !.deployed = TRUE, !.health = TRUE]
  <2>1. /\ r \in Found /\ r.vault = found.vault /\ r.source = found.source /\ r.deployed
    BY <1>0 DEF Found
  <2>2. phase \in {"health", "rehealth"} /\ found.vault \in code /\ Finds(r, "resolved")
        /\ UNCHANGED <<sent, code>>
    BY <1>1 DEF Healthy
  <2> HIDE DEF r
  <2> QED BY <1>0, <2>1, <2>2, FindsKeeps
<1>2. CASE Undeployed
  <2>1. PICK text \in HealthErrors :
          IF IsExpectedUndeployed(text)
            THEN /\ Finds(found, IF WantsCreate /\ setup.derivation THEN "prepare" ELSE "resolved")
                 /\ UNCHANGED <<sent, code>>
            ELSE Leave("McpError") /\ UNCHANGED vaultVars
    BY <1>2 DEF Undeployed
  <2>2. phase = "health"
    BY <1>2 DEF Undeployed
  <2>3. CASE IsExpectedUndeployed(text)
    <3>1. found.vault \notin before
      BY <1>0, <2>3 DEF HealthErrors, IsExpectedUndeployed
    <3>2. PICK next \in {"prepare", "resolved"} : Finds(found, next) /\ UNCHANGED <<sent, code>>
      BY <2>1, <2>3
    <3> QED BY <1>0, <2>2, <3>1, <3>2, FindsKeeps
  <2>4. CASE ~IsExpectedUndeployed(text)
    BY <2>1, <2>2, <2>4, LeaveKeeps DEF Leave, Raise, TryPhases
  <2> QED BY <2>3, <2>4
<1>3. CASE Prepare
  <2> DEFINE r == [found EXCEPT !.create = Derived]
  <2>1. /\ r \in Found /\ r.vault = found.vault /\ r.source = found.source
        /\ r.deployed = found.deployed
    BY <1>0 DEF Found
  <2>2. phase = "prepare" /\ Finds(r, "resolved") /\ UNCHANGED <<sent, code>>
    BY <1>3 DEF Prepare
  <2>3. ~found.deployed => found.vault \notin before
    BY <2>2 DEF VaultInv, FoundInv
  <2> HIDE DEF r
  <2> QED BY <1>0, <2>1, <2>2, <2>3, FindsKeeps
<1> QED BY <1>1, <1>2, <1>3

LEMMA ReportsKeep ==
  ASSUME VaultInv, Report \/ Orchestrated \/ Bootstrap, setup' = setup
  PROVE  VaultInv'
<1>0. /\ found \in Found /\ before \subseteq code /\ code \subseteq Vaults /\ Derived \in Vaults
      /\ sent \subseteq Vaults
      /\ found.deployed => found.vault \in code
  BY DEF VaultInv, VaultTypeOK, FoundInv, Vaults
<1>1. ASSUME phase \in TryPhases
      PROVE  report \in Found /\ report.vault = NoVault
  BY <1>1 DEF VaultInv, VaultTypeOK, ReportInv, TryPhases
<1>2. CASE Report
  <2>1. /\ Shown \in Found /\ Shown.vault = found.vault /\ Shown.source = found.source
        /\ Shown.deployed = found.deployed
    BY <1>0 DEF Shown, Found
  <2>2. /\ phase = "resolved" /\ phase' = "finally" /\ report' \in {Shown, report}
        /\ UNCHANGED <<cmd, bridge, tools, code, before, found, agent, sent>>
    BY <1>2 DEF Report, Leave, Go, Raise
  <2>3. ~found.deployed => found.vault \notin before
    BY <2>2 DEF VaultInv, FoundInv
  <2>4. phase \in TryPhases
    BY <2>2 DEF TryPhases
  <2>5. CASE report' = Shown
    BY <1>0, <2>1, <2>2, <2>3, <2>4, <2>5, ReportKeeps
  <2>6. CASE report' = report
    BY <1>0, <1>1, <2>2, <2>4, <2>6, ReportKeeps
  <2> QED BY <2>2, <2>5, <2>6
<1>3. CASE Orchestrated
  <2>1. /\ phase = "agent" /\ phase' = "finally" /\ report' \in {found, report}
        /\ UNCHANGED <<cmd, bridge, tools, code, before, found, agent, sent>>
    BY <1>3 DEF Orchestrated, Leave, Go, Raise
  <2>2. found.deployed
    BY <2>1 DEF VaultInv, FoundInv
  <2>3. phase \in TryPhases
    BY <2>1 DEF TryPhases
  <2>4. CASE report' = found
    BY <1>0, <2>1, <2>2, <2>3, <2>4, ReportKeeps
  <2>5. CASE report' = report
    BY <1>0, <1>1, <2>1, <2>3, <2>5, ReportKeeps
  <2> QED BY <2>1, <2>4, <2>5
<1>4. /\ Snapshot \in Found /\ Snapshot.vault = Derived
      /\ Snapshot.deployed <=> Derived \in code
  <2>1. Predicted \in Found /\ Predicted.vault = Derived
    BY <1>0 DEF Predicted, NoFound, Found
  <2>2. /\ (IF setup.vault = NoVault THEN "predicted" ELSE "explicit") \in {"predicted", "explicit"}
        /\ (Derived \in code) \in BOOLEAN
    OBVIOUS
  <2> HIDE DEF Predicted
  <2>3. \A x \in {"predicted", "explicit"}, d \in BOOLEAN :
          LET n == [Predicted EXCEPT !.source = x, !.deployed = d]
          IN  n \in Found /\ n.vault = Derived /\ (n.deployed <=> d)
    BY <2>1 DEF Found
  <2> QED BY <2>2, <2>3, Zenon DEF Snapshot
<1>5. CASE Bootstrap
  <2>1. /\ phase = "bootstrap" /\ phase' = "finally" /\ report' \in {Snapshot, report}
        /\ sent' \in {sent, {Derived}} /\ code' \in {code, code \cup {Derived}}
        /\ UNCHANGED <<cmd, bridge, tools, before, found, agent>>
    BY <1>5 DEF Bootstrap, Bootstraps, Leave, Go, Raise
  <2>2. code \subseteq code' /\ code' \subseteq Vaults /\ sent' \subseteq Vaults
    BY <1>0, <2>1
  <2>3. phase \in TryPhases
    BY <2>1 DEF TryPhases
  <2>4. CASE report' = Snapshot
    BY <1>0, <1>4, <2>1, <2>2, <2>3, <2>4, ReportKeeps
  <2>5. CASE report' = report
    BY <1>0, <1>1, <2>1, <2>2, <2>3, <2>5, ReportKeeps
  <2> QED BY <2>1, <2>4, <2>5
<1> QED BY <1>2, <1>3, <1>5

LEMMA AgentKeeps ==
  ASSUME VaultInv, AgentCall
  PROVE  VaultInv'
<1>0. /\ phase = "agent" /\ phase' = phase /\ agent < Len(AgentCalls) /\ agent' = agent + 1
      /\ UNCHANGED <<setup, cmd, bridge, tools, code, before, found, sent, report>>
  BY DEF AgentCall, configVars
<1>1. VaultTypeOK'
  BY <1>0, AgentCallsLen DEF VaultInv, VaultTypeOK
<1>2. FoundInv' /\ AgentInv' /\ ReportInv'
  BY <1>0 DEF VaultInv, FoundInv, AgentInv, ReportInv, VaultReportTrue
<1>3. BridgeInv'
  BY <1>0, BridgeStays
<1> QED BY <1>1, <1>2, <1>3 DEF VaultInv

LEMMA VaultKeeps ==
  ASSUME VaultInv, setup \in Setups, VaultStep
  PROVE  VaultInv'
<1>0. setup' = setup
  BY VaultPhasesOnly
<1>1. CASE BeginRefused \/ BeginPlain \/ ConnectRaises
  <2>1. UNCHANGED vaultVars /\ phase \in {"loaded", "connect"} /\ phase' = "close"
    BY <1>1 DEF BeginRefused, BeginPlain, ConnectRaises, Go, Raise
  <2> QED BY <1>0, <2>1, PhaseKeeps DEF Running, TryPhases
<1>2. CASE ChainRaises \/ ResolveRaises \/ MetadataRaises \/ BootstrapAsserts \/ CallFails \/ Continue
  <2>1. UNCHANGED vaultVars /\ phase' = "finally" /\ phase \in TryPhases
    BY <1>2 DEF ChainRaises, ResolveRaises, AsksBootstrap, MetadataRaises, BootstrapAsserts,
                CallFails, Calling, Continue, Leave, Go, Raise, TryPhases
  <2> QED BY <1>0, <2>1, LeaveKeeps
<1>3. CASE Metadata
  BY <1>0, <1>3, PhaseKeeps DEF Metadata, Go, Running, TryPhases
<1>4. CASE Closings
  BY <1>4, ClosingsKeep
<1> QED
  BY <1>0, <1>1, <1>2, <1>3, <1>4, BeginKeeps, ConnectKeeps, ResolveKeeps, HealthKeeps,
     ReportsKeep, AgentKeeps
     DEF VaultStep, Closings

(* Steps of the other parts. *)
LEMMA OthersKeepVault ==
  ASSUME VaultInv, UNCHANGED vaultVars, phase \notin VaultPhases \cup {"close"},
         phase' \in {"idle", "loaded"} => phase \in {"idle", "loaded"},
         phase' \notin VaultPhases
  PROVE  VaultInv'
<1> USE DEF VaultPhases, TryPhases
<1>1. VaultTypeOK'
  BY DEF VaultInv, VaultTypeOK, vaultVars
<1>2. FoundInv'
  BY DEF VaultInv, FoundInv, vaultVars
<1>3. AgentInv'
  BY AgentCallsLen DEF VaultInv, AgentInv, VaultTypeOK, vaultVars
<1>4. ReportInv'
  BY DEF VaultInv, ReportInv, VaultReportTrue, vaultVars
<1>5. BridgeInv'
  BY DEF VaultInv, BridgeInv, Running, vaultVars
<1> QED BY <1>1, <1>2, <1>3, <1>4, <1>5 DEF VaultInv

LEMMA CloseKeepsVault ==
  ASSUME VaultInv, Close
  PROVE  VaultInv'
<1>1. /\ cmd' = "none" /\ tools' = {} /\ code' = {} /\ before' = {} /\ sent' = {}
      /\ found' = NoFound /\ agent' = 0 /\ report' = NoFound /\ bridge' = bridge
  BY CloseResets DEF VaultReset
<1>2. bridge = "closed"
  BY CloseResets DEF VaultInv, BridgeInv, Running, TryPhases
<1>3. VaultTypeOK'
  BY <1>1, <1>2, AgentCallsLen, NoFoundType DEF VaultTypeOK
<1>4. FoundInv' /\ AgentInv' /\ ReportInv' /\ BridgeInv'
  BY <1>1, <1>2, CloseResets, NoFoundType
     DEF FoundInv, AgentInv, ReportInv, VaultReportTrue, BridgeInv, Running, TryPhases
<1> QED BY <1>3, <1>4 DEF VaultInv

LEMMA StandingKeepsVault ==
  ASSUME VaultInv, UNCHANGED configVars,
         \/ UNCHANGED vaultVars
         \/ Deployed
  PROVE  VaultInv'
<1>0. /\ code \subseteq code' /\ code' \subseteq Vaults /\ phase' = phase /\ setup' = setup
      /\ UNCHANGED <<cmd, bridge, tools, before, found, agent, sent, report>>
  BY DEF Deployed, vaultVars, configVars, VaultInv, VaultTypeOK
<1>1. VaultTypeOK'
  BY <1>0 DEF VaultInv, VaultTypeOK
<1>2. FoundInv' /\ AgentInv' /\ ReportInv'
  BY <1>0 DEF VaultInv, FoundInv, AgentInv, ReportInv, VaultReportTrue
<1>3. BridgeInv'
  BY <1>0, BridgeStays
<1> QED BY <1>1, <1>2, <1>3 DEF VaultInv

LEMMA VaultInvStep == ConfigInv /\ VaultInv /\ [Next]_vars => VaultInv'
<1> SUFFICES ASSUME ConfigInv, VaultInv, [Next]_vars PROVE VaultInv'
  OBVIOUS
<1>1. CASE Start /\ UNCHANGED vaultVars
  BY <1>1, StartPhases, OthersKeepVault DEF VaultPhases, TryPhases
<1>2. CASE VaultStep
  BY <1>2, VaultKeeps DEF ConfigInv
<1>3. CASE FundsStep /\ UNCHANGED vaultVars
  BY <1>3, FundsPhasesOnly, OthersKeepVault
     DEF VaultPhases, TryPhases, FundsPhases, WithdrawPhases, RedeemPhases
<1>4. CASE BuyStep /\ UNCHANGED vaultVars
  BY <1>4, BuyPhasesOnly, OthersKeepVault DEF VaultPhases, TryPhases, BuyPhases
<1>5. CASE ApprovalStep /\ UNCHANGED vaultVars
  BY <1>5, ApprovalPhasesOnly, OthersKeepVault DEF VaultPhases, TryPhases, ApprovalPhases
<1>6. CASE Close
  BY <1>6, CloseKeepsVault
<1>7. CASE World
  <2>1. UNCHANGED configVars
    BY <1>7, WorldPhases
  <2> QED BY <1>7, <2>1, StandingKeepsVault DEF World
<1>8. CASE UNCHANGED vars
  BY <1>8, StandingKeepsVault DEF vars
<1> QED BY <1>1, <1>2, <1>3, <1>4, <1>5, <1>6, <1>7, <1>8 DEF Next, Step

(* What status, deposit and bootstrap-vault print of a vault is so,        *)
(* whatever gets deployed while they run (resolve_mandated_vault).         *)
THEOREM VaultReportsAreTrue == Spec => []VaultReportTrue
<1>1. VaultInv => VaultReportTrue
  BY DEF VaultInv, ReportInv
<1> QED BY InitConfig, ConfigStep, InitVault, VaultInvStep, <1>1, PTL DEF Spec

(* No funding session is created for a vault that is not deployed          *)
(* (resolve_overlay_vault_runtime_metadata).                               *)
THEOREM SessionsAreForLiveVaults == Spec => []SessionsForLiveVaults
<1>1. VaultInv => SessionsForLiveVaults
  BY AgentCallsLen DEF VaultInv, AgentInv, FoundInv, SessionsForLiveVaults, SessionMade, VaultTypeOK
<1> QED BY InitConfig, ConfigStep, InitVault, VaultInvStep, <1>1, PTL DEF Spec

(* A server is running only from the connection to the finally clause of   *)
(* its command's route (VaultMcpBridge.connect, the finally clauses).      *)
THEOREM BridgeIsClosed == Spec => []NothingLeftOpen
<1>1. VaultInv => NothingLeftOpen
  BY DEF VaultInv, BridgeInv, Running, NothingLeftOpen
<1> QED BY InitConfig, ConfigStep, InitVault, VaultInvStep, <1>1, PTL DEF Spec

-----------------------------------------------------------------------------
(* What the server is asked and what it was told in the beginning. *)
LEMMA OnlyBootstrapSends ==
  ASSUME VaultStep
  PROVE  sent' = sent \/ (Bootstrap /\ Creates(BootstrapMode))
<1>1. CASE \E c \in Commands : Begin(c)
  BY <1>1 DEF Begin
<1>2. CASE BeginRefused \/ BeginPlain \/ Connect \/ ConnectRaises \/ ListTools \/ ListToolsRaises
  BY <1>2 DEF BeginRefused, BeginPlain, Connect, ConnectRaises, ListTools, ListToolsRaises,
              vaultVars
<1>3. CASE ResolveByPlan
  BY <1>3 DEF ResolveByPlan, Bootstraps, Creates
<1>4. CASE ResolveExplicit \/ ResolveByPrediction \/ ResolveRaises \/ ChainRaises
  BY <1>4 DEF ResolveExplicit, ResolveByPrediction, ResolveRaises, ChainRaises, vaultVars
<1>5. CASE Healthy \/ Undeployed \/ Prepare
  BY <1>5 DEF Healthy, Undeployed, Prepare, vaultVars
<1>6. CASE Report \/ Metadata \/ MetadataRaises \/ AgentCall \/ Orchestrated \/ Continue
  BY <1>6 DEF Report, Metadata, MetadataRaises, AgentCall, Orchestrated, Continue, vaultVars
<1>7. CASE BootstrapAsserts \/ CallFails
  BY <1>7 DEF BootstrapAsserts, CallFails, vaultVars
<1>8. CASE Closings
  BY <1>8, ClosingsClose
<1>9. CASE Bootstrap
  BY <1>9 DEF Bootstrap, Bootstraps
<1> QED BY <1>1, <1>2, <1>3, <1>4, <1>5, <1>6, <1>7, <1>8, <1>9 DEF VaultStep, Closings

(* Only bootstrap-vault --confirm has a vault's creation broadcast, and    *)
(* only where broadcasting is not switched off: the mode of the call is    *)
(* the command's, and the server that gets it still has the switch it was  *)
(* started with (bootstrap_vault, _build_execute_bootstrap_config).        *)
THEOREM NoUnaskedBroadcast == Spec => BroadcastOnRequest
<1>1. ASSUME ConfigInv, VaultInv, VaultStep
      PROVE  sent' \subseteq sent \/ (cmd = "execute" /\ setup.broadcast # "off")
  <2>1. SUFFICES ASSUME Bootstrap, Creates(BootstrapMode)
                 PROVE  cmd = "execute" /\ setup.broadcast # "off"
    BY <1>1, OnlyBootstrapSends
  <2>2. cmd = "execute" /\ bridge # "off"
    BY <2>1 DEF Creates, BootstrapMode
  <2>3. bridge = Switch(cmd)
    BY <1>1, <2>1 DEF VaultInv, BridgeInv, Bootstrap, Running, TryPhases
  <2> QED BY <1>1, <2>2, <2>3, SwitchIsOne DEF ConfigInv
<1>2. ASSUME ConfigInv, VaultInv, [Next]_vars
      PROVE  [sent' \subseteq sent \/ (cmd = "execute" /\ setup.broadcast # "off")]_sent
  <2>1. CASE Close
    BY <2>1, CloseResets DEF VaultReset
  <2>2. CASE UNCHANGED vaultVars
    BY <2>2 DEF vaultVars
  <2>3. CASE World
    BY <2>3 DEF World, Deployed, vaultVars
  <2>4. CASE UNCHANGED vars
    BY <2>4 DEF vars, vaultVars
  <2> QED BY <1>1, <1>2, <2>1, <2>2, <2>3, <2>4 DEF Next, Step
<1>3. ConfigInv /\ VaultInv /\ [Next]_vars =>
        [sent' \subseteq sent \/ (cmd = "execute" /\ setup.broadcast # "off")]_sent
  BY <1>2
<1> QED BY InitConfig, ConfigStep, InitVault, VaultInvStep, <1>3, PTL DEF Spec, BroadcastOnRequest

-----------------------------------------------------------------------------
(* How commands end.  An error is raised by the step that ends a command's *)
(* work or its finally clause, and one of the bridge only in a command     *)
(* that a handler with a bridge runs.                                      *)

ErrorInv ==
  /\ phase \in Phases /\ error \in Errors
  /\ phase \notin {"idle", "finally", "close"} => error = "none"
  /\ phase = "close" /\ error = "McpError" => cmd \in Commands
  /\ phase \in VaultPhases <=> cmd \in Commands /\ phase # "close"
  /\ cmd \in Commands \cup {"none"}

AnswerInv ==
  /\ phase # "idle" => answer = "none"
  /\ answer \in {"none", "report", "error", "traceback"}
  /\ Answered

(* What a step of a command may do with its error. *)
Errs ==
  /\ error' = error \/ (error' \in Errors /\ phase' \in {"finally", "close"})
  /\ error' = "McpError" /\ error # "McpError" => phase \in VaultPhases
  /\ phase = "finally" => phase' = "close"

LEMMA RefusalsAreErrors ==
  ASSUME NEW c, Refusal(c) # "none"
  PROVE  Refusal(c) \in Errors \ {"McpError"}
BY DEF Refusal, SdkError, Errors

LEMMA VaultErrs ==
  ASSUME VaultStep
  PROVE  /\ Errs
         /\ \/ cmd' = cmd /\ (phase = "loaded" => phase' = "close")
            \/ phase = "loaded" /\ cmd' \in Commands /\ phase' \in VaultPhases
<1> USE DEF Errs, Errors, VaultPhases, TryPhases
<1>1. ASSUME NEW c \in Commands, Begin(c)
      PROVE  phase = "loaded" /\ cmd' = c /\ phase' = "connect" /\ error' = error
  BY <1>1 DEF Begin, Go
<1>2. CASE BeginRefused \/ BeginPlain
  <2>1. phase = "loaded" /\ phase' = "close" /\ cmd' = cmd
    BY <1>2 DEF BeginRefused, BeginPlain, Go, Raise, vaultVars
  <2>2. error' = error \/ error' \in Errors \ {"McpError"}
    BY <1>2, RefusalsAreErrors DEF BeginRefused, BeginPlain, Go, Raise
  <2> QED BY <2>1, <2>2
<1>3. CASE Connect \/ ConnectRaises \/ ListTools \/ ListToolsRaises
  BY <1>3 DEF Connect, ConnectRaises, ListTools, ListToolsRaises, TryWith, Go, Raise, vaultVars
<1>4. CASE ChainRaises \/ ResolveRaises \/ MetadataRaises \/ BootstrapAsserts
  BY <1>4 DEF ChainRaises, ResolveRaises, AsksBootstrap, MetadataRaises, BootstrapAsserts,
              Leave, Raise, vaultVars
<1>5. CASE ResolveExplicit \/ Healthy \/ Undeployed \/ Prepare
  BY <1>5 DEF ResolveExplicit, Healthy, Undeployed, Prepare, Finds, Leave, Go, Raise, vaultVars
<1>6. CASE ResolveByPlan
  BY <1>6 DEF ResolveByPlan, AsksBootstrap, Finds, Go
<1>7. CASE ResolveByPrediction
  BY <1>7 DEF ResolveByPrediction, Finds, Leave, Go, Raise, vaultVars
<1>8. CASE Report \/ Metadata \/ AgentCall \/ Orchestrated \/ Continue
  BY <1>8 DEF Report, Metadata, AgentCall, Orchestrated, Continue, configVars, Leave, Go, Raise,
              vaultVars
<1>9. CASE Bootstrap
  BY <1>9 DEF Bootstrap, Leave, Go, Raise
<1>10. CASE CallFails
  <2>1. PICK kind \in CallErrors(CurrentTool, tools) : Leave(kind)
    BY <1>10 DEF CallFails
  <2>2. kind \in {"McpError", "ValueError", "OSError"}
    BY <2>1 DEF CallErrors
  <2>3. cmd' = cmd /\ phase \in TryPhases
    BY <1>10 DEF CallFails, Calling, vaultVars
  <2> QED BY <2>1, <2>2, <2>3 DEF Leave, Raise
<1>11. CASE Closings
  <2>1. /\ phase = "finally" /\ phase' = "close" /\ cmd' = cmd
        /\ error' \in {error, "ValueError", "ConfigError"}
    BY <1>11, ClosingsClose
  <2> QED BY <2>1
<1> QED
  BY <1>1, <1>2, <1>3, <1>4, <1>5, <1>6, <1>7, <1>8, <1>9, <1>10, <1>11 DEF VaultStep, Closings

LEMMA OtherErrs ==
  ASSUME FundsStep \/ BuyStep \/ ApprovalStep
  PROVE  Errs
<1>0. phase # "finally"
  BY FundsPhasesOnly, BuyPhasesOnly, ApprovalPhasesOnly
     DEF FundsPhases, WithdrawPhases, RedeemPhases, BuyPhases, ApprovalPhases
<1> USE DEF Errs, Errors
<1>1. CASE WithdrawRefused \/ ReadRaises \/ RedeemRefused \/ JudgeRaises
  BY <1>0, <1>1 DEF WithdrawRefused, ReadRaises, RedeemRefused, JudgeRaises, SdkError, Raise
<1>2. CASE BeginWithdraw \/ ReadBnb \/ ReadUsdt \/ BeginRedeem \/ ReadShares \/ ReadMax \/ Judge
  BY <1>0, <1>2 DEF BeginWithdraw, ReadBnb, ReadUsdt, BeginRedeem, ReadShares, ReadMax, Judge, Go
<1>3. CASE Decide
  BY <1>0, <1>3 DEF Decide, Go, Raise
<1>4. CASE Transfer
  BY <1>0, <1>4 DEF Transfer, Go, Raise
<1>5. CASE Simulate
  BY <1>0, <1>5 DEF Simulate, Go, Raise
<1>6. CASE BuyStep
  BY <1>0, <1>6 DEF BuyStep, BuyMalformed, BeginBuy, Try, Plan, Fund, Go, Raise
<1>7. CASE BeginReading \/ ReadApproval \/ ReadingRaises \/ ReadingDone
  BY <1>0, <1>7 DEF BeginReading, ReadApproval, ReadingRaises, ReadingDone, configVars, Go, Raise
<1>8. CASE ApproveRefused \/ BeginApprove \/ SetApprovals \/ SetApprovalsRaises
  BY <1>0, <1>8 DEF ApproveRefused, BeginApprove, SetApprovals, SetApprovalsRaises, SdkError, Go,
                    Raise
<1> QED BY <1>1, <1>2, <1>3, <1>4, <1>5, <1>6, <1>7, <1>8 DEF FundsStep, ApprovalStep

(* The parts that have no bridge leave the command's kind alone. *)
LEMMA OtherSteps ==
  ASSUME (FundsStep \/ BuyStep \/ ApprovalStep) /\ UNCHANGED vaultVars
  PROVE  /\ phase \notin VaultPhases \cup {"idle", "close"}
         /\ phase' \in (Phases \ VaultPhases) \ {"idle"}
         /\ cmd' = cmd /\ "finally" \in VaultPhases
BY FundsPhasesOnly, BuyPhasesOnly, ApprovalPhasesOnly
   DEF Phases, VaultPhases, FundsPhases, WithdrawPhases, RedeemPhases, BuyPhases,
       TryPhases, ApprovalPhases, vaultVars

LEMMA InitErrors == Init => ErrorInv /\ AnswerInv
BY DEF Init, VaultInit, ErrorInv, AnswerInv, Answered, Phases, VaultPhases, TryPhases, Errors,
       Commands, Continues

LEMMA ErrorStep == ErrorInv /\ AnswerInv /\ [Next]_vars => ErrorInv' /\ AnswerInv'
<1> SUFFICES ASSUME ErrorInv, AnswerInv, [Next]_vars PROVE ErrorInv' /\ AnswerInv'
  OBVIOUS
<1>0. "none" \notin Commands
  BY DEF Commands, Continues
<1>1. CASE Start /\ UNCHANGED vaultVars
  <2>1. PICK e \in Environments :
          /\ error' = Outcome(e)
          /\ phase' = IF Outcome(e) = "none" THEN "loaded" ELSE "idle"
    BY <1>1 DEF Start, Load
  <2>2. error' \in {"none", "ValueError", "ConfigError"} /\ phase = "idle" /\ cmd' = cmd
    BY <1>1, <2>1, StartPhases DEF Outcome, vaultVars
  <2>3. answer' = IF error' = "none" THEN "none" ELSE Answer(error', {"ConfigError"})
    BY <1>1 DEF Start
  <2>4. ErrorInv'
    BY <1>0, <2>1, <2>2 DEF ErrorInv, Phases, VaultPhases, TryPhases, Errors
  <2>5. AnswerInv'
    BY <2>1, <2>2, <2>3 DEF AnswerInv, Answered, Answer
  <2> QED BY <2>4, <2>5
<1>2. CASE VaultStep /\ answer' = answer
  <2>1. phase \notin {"idle", "close"} /\ phase' \in VaultPhases \cup {"close"}
    BY <1>2, VaultPhasesOnly DEF VaultPhases, TryPhases
  <2>2. ErrorInv'
    BY <1>0, <1>2, <2>1, VaultErrs, VaultPhasesOnly DEF ErrorInv, Errs, Phases, VaultPhases, TryPhases
  <2>3. AnswerInv'
    BY <1>2, <2>1 DEF AnswerInv, Answered, VaultPhases, TryPhases
  <2> QED BY <2>2, <2>3
<1>3. CASE (FundsStep \/ BuyStep \/ ApprovalStep) /\ UNCHANGED <<vaultVars, answer>>
  <2>1. /\ phase \notin VaultPhases \cup {"idle", "close"}
        /\ phase' \in (Phases \ VaultPhases) \ {"idle"}
        /\ cmd' = cmd /\ Errs /\ "finally" \in VaultPhases
    BY <1>3, OtherSteps, OtherErrs
  <2>2. ErrorInv'
    BY <2>1 DEF ErrorInv, Errs
  <2>3. AnswerInv'
    BY <1>3, <2>1 DEF AnswerInv, Answered
  <2> QED BY <2>2, <2>3
<1>4. CASE Close
  <2>1. /\ phase = "close" /\ phase' = "idle" /\ cmd' = "none" /\ error' = error
    BY <1>4, CloseResets
       DEF Close, HandleStatus, HandleDeposit, HandleBootstrap, HandleContinue, HandleBuy,
           HandleOthers, Ends, VaultReset
  <2>2. \/ answer' = Answer(error, {"ConfigError", "McpError"})
        \/ answer' = Answer(error, {"ConfigError"}) /\ cmd = "none"
    BY <1>4 DEF Close, HandleStatus, HandleDeposit, HandleBootstrap, HandleContinue, HandleBuy,
                HandleOthers, Ends
  <2>3. ErrorInv'
    BY <1>0, <2>1 DEF ErrorInv, Phases, VaultPhases, TryPhases
  <2>4. AnswerInv'
    BY <1>0, <2>1, <2>2 DEF ErrorInv, AnswerInv, Answered, Answer
  <2> QED BY <2>3, <2>4
<1>5. CASE World
  <2>1. UNCHANGED <<phase, error, cmd, answer>>
    BY <1>5 DEF World, Deployed, FundsMove, BalanceMoves, ApprovalMoves, configVars, vaultVars
  <2> QED BY <2>1 DEF ErrorInv, AnswerInv, Answered
<1>6. CASE UNCHANGED vars
  BY <1>6 DEF ErrorInv, AnswerInv, Answered, vars, configVars, vaultVars
<1> QED BY <1>1, <1>2, <1>3, <1>4, <1>5, <1>6 DEF Next, Step

(* No error of the program's own making ends a command with a traceback:   *)
(* an error of the bridge only reaches handlers that answer it             *)
(* (scripts/wallet.py, scripts/trade.py).                                  *)
THEOREM OwnErrorsAreAnswered == Spec => []Answered
<1>1. AnswerInv => Answered
  BY DEF AnswerInv
<1> QED BY InitErrors, ErrorStep, <1>1, PTL DEF Spec
=============================================================================
