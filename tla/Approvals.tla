------------------------------ MODULE Approvals ------------------------------
(***************************************************************************)
(* The exchange's approvals: wallet approve, which asks for them in two    *)
(* groups, and wallet status without a vault, which reads ten of them one  *)
(* after another and says which groups are ready (lib/wallet_manager.py).  *)
(*                                                                         *)
(* The vendor's SDK, which is external, sends the transactions of a group: *)
(* some may succeed and others not, and the call may raise in between.     *)
(* Others may grant or revoke an approval while a command runs.            *)
(***************************************************************************)
EXTENDS WalletConfig, Naturals, Sequences

Groups == {"standard", "yield"}
Contracts == {"exchange", "exchangeAllowance", "negRisk", "negRiskAllowance", "adapter"}
Approval(g, c) == [group |-> g, contract |-> c]
Of(g) == {Approval(g, c) : c \in Contracts}
AllApprovals == Of("standard") \cup Of("yield")

CONSTANT ApprovalSets   \* approvals that may be in place together

ASSUME ApprovalAssumption == ApprovalSets \subseteq SUBSET AllApprovals

VARIABLES
  granted,    \* approvals in place on the chain
  snapshot,   \* those the ApprovalSnapshot says are there
  read,       \* how many it has asked for
  done,       \* groups set_approvals has answered for, and which successfully
  changed     \* what others have done since the command began

approvalVars == <<granted, snapshot, read, done, changed>>

NothingDone == [asked |-> {}, good |-> {}]
ApprovalPhases == {"reading", "approving"}

ApprovalTypeOK ==
  /\ granted \subseteq AllApprovals /\ snapshot \subseteq AllApprovals
  /\ read \in 0..10
  /\ done \in [asked : SUBSET Groups, good : SUBSET Groups]
  /\ changed \in {"nothing", "granted", "revoked"}

ApprovalInit ==
  /\ granted = {} /\ snapshot = {} /\ read = 0
  /\ done = NothingDone /\ changed = "nothing"
ApprovalReset ==
  /\ granted' = {} /\ snapshot' = {} /\ read' = 0
  /\ done' = NothingDone /\ changed' = "nothing"

-----------------------------------------------------------------------------
(* get_approval_snapshot: the fields in the order they are filled. *)
Slots ==
  << Approval("standard", "exchange"), Approval("standard", "exchangeAllowance"),
     Approval("standard", "negRisk"), Approval("standard", "negRiskAllowance"),
     Approval("standard", "adapter"),
     Approval("yield", "exchange"), Approval("yield", "exchangeAllowance"),
     Approval("yield", "negRisk"), Approval("yield", "negRiskAllowance"),
     Approval("yield", "adapter") >>

(* The contract a field's read asks, picked by its two flags. *)
AskedOneGroup(slot) == Approval("standard", slot.contract)
Asked(slot) == Approval(slot.group, slot.contract)

BeginReading ==
  /\ phase = "loaded" /\ SdkError = "none" /\ ~setup.overlay
  /\ granted' \in ApprovalSets
  /\ Go("reading")
  /\ UNCHANGED <<snapshot, read, done, changed>>

ReadApproval ==
  /\ phase = "reading" /\ read < Len(Slots)
  /\ read' = read + 1
  /\ snapshot' = snapshot \cup (IF Asked(Slots[read + 1]) \in granted THEN {Slots[read + 1]} ELSE {})
  /\ UNCHANGED <<configVars, granted, done, changed>>

ReadingRaises ==
  /\ phase = "reading" /\ read < Len(Slots)
  /\ \E kind \in {"ConfigError", "ChainError"} : Raise(kind, "close")
  /\ UNCHANGED approvalVars

(* standard_ready, yield_ready *)
Ready(g) == Of(g) \subseteq snapshot

ReadingDone ==
  /\ phase = "reading" /\ read = Len(Slots)
  /\ Go("close")
  /\ UNCHANGED approvalVars

-----------------------------------------------------------------------------
(* approve: the standard group, then the other, whatever became of the     *)
(* first.                                                                  *)
ApproveRefused ==
  /\ phase = "loaded"
  /\ \/ setup.mode = "mandated-vault" /\ Raise("ConfigError", "close")
     \/ setup.mode # "mandated-vault" /\ SdkError # "none" /\ Raise(SdkError, "close")
  /\ UNCHANGED approvalVars

BeginApprove ==
  /\ phase = "loaded" /\ setup.mode # "mandated-vault" /\ SdkError = "none"
  /\ granted' \in ApprovalSets
  /\ Go("approving")
  /\ UNCHANGED <<snapshot, read, done, changed>>

NextGroup == IF "standard" \in done.asked THEN "yield" ELSE "standard"

SetApprovals ==
  /\ phase = "approving"
  /\ \/ /\ granted' = granted \cup Of(NextGroup)
        /\ done' = [asked |-> done.asked \cup {NextGroup}, good |-> done.good \cup {NextGroup}]
     \/ /\ \E some \in ApprovalSets : granted' = granted \cup (some \cap Of(NextGroup))
        /\ done' = [done EXCEPT !.asked = @ \cup {NextGroup}]
  /\ Go(IF NextGroup = "yield" THEN "close" ELSE "approving")
  /\ UNCHANGED <<snapshot, read, changed>>

SetApprovalsRaises ==
  /\ phase = "approving"
  /\ \E some \in ApprovalSets : granted' = granted \cup (some \cap Of(NextGroup))
  /\ Raise("ChainError", "close")
  /\ UNCHANGED <<snapshot, read, done, changed>>

(* Others grant or revoke, once while a command runs. *)
ApprovalMoves ==
  /\ phase \in ApprovalPhases /\ changed = "nothing"
  /\ \/ /\ changed' = "granted"
        /\ \E a \in AllApprovals \ granted : granted' = granted \cup {a}
     \/ /\ changed' = "revoked"
        /\ \E a \in granted : granted' = granted \ {a}
  /\ UNCHANGED <<configVars, snapshot, read, done>>

ApprovalStep ==
  \/ BeginReading \/ ReadApproval \/ ReadingRaises \/ ReadingDone
  \/ ApproveRefused \/ BeginApprove \/ SetApprovals \/ SetApprovalsRaises

-----------------------------------------------------------------------------
(* Although the ten reads of a status are not one: a group it calls ready  *)
(* is, unless somebody has revoked an approval meanwhile, and one it does  *)
(* not call ready was not, unless somebody has granted one.  After an      *)
(* approve that reports success for both groups nothing is missing.        *)
ReadyIsSo ==
  /\ read = Len(Slots) /\ changed # "revoked" =>
       \A g \in Groups : Ready(g) => Of(g) \subseteq granted
  /\ read = Len(Slots) /\ changed = "nothing" =>
       \A g \in Groups : Of(g) \subseteq granted => Ready(g)
  /\ done.good = Groups /\ changed # "revoked" => AllApprovals \subseteq granted
=============================================================================
