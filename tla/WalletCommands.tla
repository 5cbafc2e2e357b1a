--------------------------- MODULE WalletCommands ---------------------------
(***************************************************************************)
(* One wallet command after another, as scripts/wallet.py runs them: the   *)
(* configuration is loaded, the command does its work, and the process     *)
(* ends with an exit code or a traceback.  The parts share the process     *)
(* and its configuration; every part is at rest while another one's        *)
(* command runs.  Between commands the world may change at will.           *)
(***************************************************************************)
EXTENDS VaultCommands, FundsOut, BuyFunding, Approvals

VARIABLE answer   \* how the last command's handler ended: report, error, traceback

vars == <<configVars, vaultVars, fundsVars, buyVars, approvalVars, answer>>

Phases == {"idle", "loaded", "close"} \cup VaultPhases
          \cup WithdrawPhases \cup RedeemPhases \cup BuyPhases \cup ApprovalPhases

TypeOK ==
  /\ phase \in Phases /\ setup \in Setups /\ error \in Errors
  /\ VaultTypeOK /\ FundsTypeOK /\ BuyTypeOK /\ ApprovalTypeOK
  /\ answer \in {"none", "report", "error", "traceback"}

Init ==
  /\ phase = "idle" /\ setup = NoSetup /\ error = "none"
  /\ VaultInit /\ FundsInit /\ BuyInit /\ ApprovalInit
  /\ answer = "none"

-----------------------------------------------------------------------------
(* A handler reports, or answers the errors it expects and exits with 1;   *)
(* any other error leaves the process with a traceback.                    *)
Answer(kind, expected) ==
  IF kind = "none" THEN "report" ELSE IF kind \in expected THEN "error" ELSE "traceback"

Ends(expected) ==
  /\ phase = "close"
  /\ answer' = Answer(error, expected)
  /\ phase' = "idle" /\ setup' = NoSetup /\ UNCHANGED error
  /\ VaultReset /\ FundsReset /\ BuyReset /\ ApprovalReset

HandleStatus == cmd = "status" /\ Ends({"ConfigError", "McpError"})
HandleDeposit == cmd = "deposit" /\ Ends({"ConfigError", "McpError"})
HandleBootstrapPlain == cmd \in {"preview", "execute"} /\ Ends({"ConfigError"})
HandleBootstrap == cmd \in {"preview", "execute"} /\ Ends({"ConfigError", "McpError"})
HandleContinue == cmd \in Continues /\ Ends({"ConfigError", "McpError"})
HandleBuy == cmd = "buy" /\ Ends({"ConfigError", "McpError"})

(* approve, withdraw and redeem-vault have no bridge, nor has a command    *)
(* that is refused or has no vault to do with.                             *)
HandleOthers == cmd = "none" /\ Ends({"ConfigError"})

Close == HandleStatus \/ HandleDeposit \/ HandleBootstrap \/ HandleContinue \/ HandleBuy \/ HandleOthers

(* from_env is called within the handler. *)
Start ==
  /\ Load
  /\ answer' = IF error' = "none" THEN "none" ELSE Answer(error', {"ConfigError"})

Step ==
  \/ Start /\ UNCHANGED <<vaultVars, fundsVars, buyVars, approvalVars>>
  \/ VaultStep /\ UNCHANGED <<fundsVars, buyVars, approvalVars, answer>>
  \/ FundsStep /\ UNCHANGED <<vaultVars, buyVars, approvalVars, answer>>
  \/ BuyStep /\ UNCHANGED <<vaultVars, fundsVars, approvalVars, answer>>
  \/ ApprovalStep /\ UNCHANGED <<vaultVars, fundsVars, buyVars, answer>>
  \/ Close

World ==
  \/ Deployed /\ UNCHANGED <<fundsVars, buyVars, approvalVars, answer>>
  \/ FundsMove /\ UNCHANGED <<vaultVars, buyVars, approvalVars, answer>>
  \/ BalanceMoves /\ UNCHANGED <<vaultVars, fundsVars, approvalVars, answer>>
  \/ ApprovalMoves /\ UNCHANGED <<vaultVars, fundsVars, buyVars, answer>>

Next == Step \/ World
Spec == Init /\ [][Next]_vars
FairSpec == Spec /\ WF_vars(phase # "idle" /\ Step)

-----------------------------------------------------------------------------
(* Whichever step of whichever part raised it, and whichever handler it    *)
(* reaches: an error of the program's own making is answered, and never    *)
(* ends a command with a traceback.                                        *)
Answered == answer = "traceback" => error \notin {"ConfigError", "McpError"}

(* Every command comes to its end, and the process with it. *)
CommandsEnd == (phase # "idle") ~> (phase = "idle")
=============================================================================
