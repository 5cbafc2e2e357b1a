--------------------------- MODULE FundingOverlay ---------------------------
(***************************************************************************)
(* The predict-account + vault overlay: the life of the fund-and-action    *)
(* sessions in fund_and_action_sessions.json.                              *)
(*                                                                         *)
(* A buy that finds too little USDT has the MandatedVault MCP server       *)
(* create a session and stores it (TradeService).  The operator makes the  *)
(* transfer and runs `wallet continue-funding`, then carries out the       *)
(* follow-up and runs `wallet continue-follow-up` (FundingService).  Both  *)
(* pick the session themselves: the one of the account that is open and    *)
(* was updated last.  Each command is a process: it loads a record, lets   *)
(* the MCP server transform it, re-reads the file and writes it back, and  *)
(* other processes may run, and it may die, between any two of these.      *)
(*                                                                         *)
(* The MCP server keeps no session: it is handed one and returns the next. *)
(* Its transitions are modelled from the client's types and use (external).*)
(* One file write is atomic here; JsonRowStore models what that takes.     *)
(***************************************************************************)
EXTENDS RowList

CONSTANTS
  Procs,        \* processes, each running one command at a time
  Sessions,     \* session ids the MCP server hands out (bounds the buys)
  Accounts,     \* values of PREDICT_ACCOUNT_ADDRESS in use
  Trades,       \* (market, outcome) pairs, as position ids
  Transfers,    \* transaction hashes given to continue-funding
  Results,      \* values of continue-follow-up --status in use
  MaxClock,     \* bounds the seconds that pass
  NoAccount,    \* a configuration without PREDICT_ACCOUNT_ADDRESS
  NoTransfer, NoCard, NoRow

Statuses == {"pendingFunding", "pendingFollowUp", "succeeded", "failed", "skipped"}

ASSUME OverlayAssumption ==
  /\ Results \subseteq {"succeeded", "failed", "skipped"}
  /\ MaxClock \in Nat
  /\ NoTransfer \notin Transfers
  /\ NoAccount \notin Accounts
  /\ NoCard \notin [account : Accounts, trade : Trades, status : Statuses,
                    transfer : Transfers \cup {NoTransfer}]

VARIABLES
  file,    \* the rows of fund_and_action_sessions.json, in order
  clock,   \* wall clock in seconds, the resolution of every timestamp
  issued,  \* session ids the MCP server has handed out
  pc,      \* per process: next step of its command
  account, \* per process: the account its configuration names
  rec,     \* per process: the FundAndActionSessionRecord in its memory
  rows     \* per process: the list its upsert is about to write

vars == <<file, clock, issued, pc, account, rec, rows>>

Tasks == {"submitFunding", "submitFollowUp", "completed"}
Row == [id : Sessions, account : Accounts, trade : Trades, status : Statuses,
        task : Tasks, transfer : Transfers \cup {NoTransfer}, updated : Nat]
Steps == {"idle", "confirmFunding", "recordFollowUp", "load", "store"}

TypeOK ==
  /\ file \in Seq(Row)
  /\ clock \in Nat
  /\ issued \in SUBSET Sessions
  /\ pc \in [Procs -> Steps]
  /\ account \in [Procs -> Accounts \cup {NoAccount}]
  /\ rec \in [Procs -> Row \cup {NoRow}]
  /\ rows \in [Procs -> Seq(Row)]

Init ==
  /\ file = <<>>
  /\ clock = 0
  /\ issued = {}
  /\ pc = [p \in Procs |-> "idle"]
  /\ account = [p \in Procs |-> NoAccount]
  /\ rec = [p \in Procs |-> NoRow]
  /\ rows = [p \in Procs |-> <<>>]

-----------------------------------------------------------------------------
(* The MCP server's sessions (external).                                   *)

(* agent_fund_and_action_session_next_step: the two polling tasks of the   *)
(* server are accepted wherever the two submitting ones are.               *)
TaskFor(status) ==
  CASE status = "pendingFunding" -> "submitFunding"
    [] status = "pendingFollowUp" -> "submitFollowUp"
    [] OTHER -> "completed"

(* build_vault_to_predict_account_orchestration has the server build a plan*)
(* and create a session, stamped with the current second.  The plan tops   *)
(* the account up to 5 USDT, whatever the buy needs; the server skips the  *)
(* funding step of a plan without a shortfall.                             *)
StartStatuses == {"pendingFunding", "pendingFollowUp"}

-----------------------------------------------------------------------------
(* SessionStorage.get_active_session; upsert is RowList's Put.             *)

TerminalMissingFailed == {"succeeded", "cancelled"}
TerminalStatuses == {"succeeded", "failed", "cancelled"}

(* Positions of the rows get_active_session keeps: without a configured    *)
(* account it filters by status alone.                                     *)
OpenRowsUnfiltered(table, a) ==
  {i \in DOMAIN table : table[i].status \notin TerminalStatuses}
OpenRows(table, a) ==
  {i \in DOMAIN table : /\ table[i].status \notin TerminalStatuses
                        /\ a \in {NoAccount, table[i].account}}

(* The last one after a stable sort by updated_at.                         *)
IsActiveFirst(table, a, i) ==
  /\ i \in OpenRows(table, a)
  /\ \A j \in OpenRows(table, a) :
       \/ table[j].updated < table[i].updated
       \/ table[j].updated = table[i].updated /\ j >= i
IsActive(table, a, i) ==
  /\ i \in OpenRows(table, a)
  /\ \A j \in OpenRows(table, a) :
       \/ table[j].updated < table[i].updated
       \/ table[j].updated = table[i].updated /\ j <= i

-----------------------------------------------------------------------------
Goto(p, step) == pc' = [pc EXCEPT ![p] = step]
Remember(p, r) == rec' = [rec EXCEPT ![p] = r]

Configured(p, a) == account' = [account EXCEPT ![p] = a]

(* _persist_overlay_session wraps the server's session with the identity   *)
(* of the trade it is for.                                                 *)
NewSession(s, a, t, status) ==
  [id |-> s, account |-> a, trade |-> t, status |-> status,
   task |-> TaskFor(status), transfer |-> NoTransfer, updated |-> clock]

(* trade buy, short of USDT: a session is created and stored, and the      *)
(* order is not placed.                                                    *)
BuyShort(p, a) ==
  /\ pc[p] = "idle"
  /\ a \in Accounts
  /\ \E s \in Sessions \ issued, t \in Trades, status \in StartStatuses :
       /\ issued' = issued \cup {s}
       /\ Remember(p, NewSession(s, a, t, status))
  /\ Configured(p, a)
  /\ Goto(p, "load")
  /\ UNCHANGED <<file, clock, rows>>

(* wallet continue-funding, up to the MCP calls: the active session of the *)
(* configured account must be waiting for its funding.                     *)
ContinueFundingUnchecked(p, a) ==
  /\ pc[p] = "idle"
  /\ \E i \in DOMAIN file : IsActive(file, a, i) /\ Remember(p, file[i])
  /\ Configured(p, a)
  /\ Goto(p, "confirmFunding")
  /\ UNCHANGED <<file, clock, issued, rows>>
ContinueFunding(p, a) ==
  /\ pc[p] = "idle"
  /\ \E i \in DOMAIN file :
       /\ IsActive(file, a, i)
       /\ file[i].task = "submitFunding"
       /\ Remember(p, file[i])
  /\ Configured(p, a)
  /\ Goto(p, "confirmFunding")
  /\ UNCHANGED <<file, clock, issued, rows>>

(* The fundingConfirmed event is applied to the record in memory, and the  *)
(* server is asked for the next step.                                      *)
ConfirmFundingKeepsStep(p) ==
  /\ pc[p] = "confirmFunding"
  /\ \E x \in Transfers :
       Remember(p, [rec[p] EXCEPT !.status = "pendingFollowUp", !.transfer = x,
                                  !.updated = clock])
  /\ Goto(p, "load")
  /\ UNCHANGED <<file, clock, issued, account, rows>>
ConfirmFundingStepStatus(p) ==
  /\ pc[p] = "confirmFunding"
  /\ \E x \in Transfers :
       Remember(p, [rec[p] EXCEPT !.status = "confirmed", !.transfer = x,
                                  !.task = TaskFor("pendingFollowUp"),
                                  !.updated = clock])
  /\ Goto(p, "load")
  /\ UNCHANGED <<file, clock, issued, account, rows>>
ConfirmFunding(p) ==
  /\ pc[p] = "confirmFunding"
  /\ \E x \in Transfers :
       Remember(p, [rec[p] EXCEPT !.status = "pendingFollowUp", !.transfer = x,
                                  !.task = TaskFor("pendingFollowUp"),
                                  !.updated = clock])
  /\ Goto(p, "load")
  /\ UNCHANGED <<file, clock, issued, account, rows>>

(* wallet continue-follow-up, up to the MCP calls.                         *)
ContinueFollowUp(p, a) ==
  /\ pc[p] = "idle"
  /\ \E i \in DOMAIN file :
       /\ IsActive(file, a, i)
       /\ file[i].task = "submitFollowUp"
       /\ Remember(p, file[i])
  /\ Configured(p, a)
  /\ Goto(p, "recordFollowUp")
  /\ UNCHANGED <<file, clock, issued, rows>>

(* The followUpResultReceived event is applied; the next step becomes the  *)
(* literal {"task": {"kind": "completed"}}.                                *)
RecordFollowUp(p) ==
  /\ pc[p] = "recordFollowUp"
  /\ \E r \in Results :
       Remember(p, [rec[p] EXCEPT !.status = r, !.task = "completed", !.updated = clock])
  /\ Goto(p, "load")
  /\ UNCHANGED <<file, clock, issued, account, rows>>

(* SessionStorage.upsert, first half: the file is read again.              *)
UpsertRead(p) ==
  /\ pc[p] = "load"
  /\ rows' = [rows EXCEPT ![p] = Put(file, rec[p])]
  /\ Goto(p, "store")
  /\ UNCHANGED <<file, clock, issued, account, rec>>

(* SessionStorage.upsert, second half; the command prints and ends.        *)
UpsertWrite(p) ==
  /\ pc[p] = "store"
  /\ file' = rows[p]
  /\ rows' = [rows EXCEPT ![p] = <<>>]
  /\ Remember(p, NoRow)
  /\ Goto(p, "idle")
  /\ Configured(p, NoAccount)
  /\ UNCHANGED <<clock, issued>>

(* An MCP call raises, or the process dies: what was in memory is gone.    *)
Stop(p) ==
  /\ pc[p] # "idle"
  /\ rows' = [rows EXCEPT ![p] = <<>>]
  /\ Remember(p, NoRow)
  /\ Goto(p, "idle")
  /\ Configured(p, NoAccount)
  /\ UNCHANGED <<file, clock, issued>>

Tick ==
  /\ clock < MaxClock
  /\ clock' = clock + 1
  /\ UNCHANGED <<file, issued, pc, account, rec, rows>>

Start(p, a) == BuyShort(p, a) \/ ContinueFunding(p, a) \/ ContinueFollowUp(p, a)
Advance(p) == ConfirmFunding(p) \/ RecordFollowUp(p) \/ UpsertRead(p) \/ UpsertWrite(p)

Next ==
  \/ \E p \in Procs, a \in Accounts \cup {NoAccount} : Start(p, a)
  \/ \E p \in Procs : Advance(p) \/ Stop(p)
  \/ Tick

Spec == Init /\ [][Next]_vars

(* An operator who runs the continuation commands of every account again   *)
(* and again, on a machine where a step that is reached again and again is *)
(* not interrupted every time.                                             *)
PersistentOperator ==
  /\ \A p \in Procs, a \in Accounts :
       SF_vars(ContinueFunding(p, a)) /\ SF_vars(ContinueFollowUp(p, a))
  /\ \A p \in Procs :
       /\ SF_vars(ConfirmFunding(p)) /\ SF_vars(RecordFollowUp(p))
       /\ SF_vars(UpsertRead(p)) /\ SF_vars(UpsertWrite(p))
FairSpec == Spec /\ PersistentOperator

-----------------------------------------------------------------------------
(* Properties that hold however many commands run at the same time.        *)

(* upsert keeps one row per session id, even when the list it writes back  *)
(* was read before another command's write.                                *)
OneRowPerSession == UniqueIds(file)

(* A stored next step is the one the stored session calls for: no command  *)
(* leaves a session that is past its funding asking for its funding again. *)
StepFitsStatus ==
  \A i \in DOMAIN file : file[i].task = TaskFor(file[i].status)

(* A session stays that of its account and trade, whichever list with an   *)
(* older copy of it is written back, and whatever account the command that *)
(* moves it is configured for.                                             *)
SessionKeepsItsTrade ==
  [][\A i \in DOMAIN file, j \in DOMAIN file' : file'[j].id = file[i].id =>
       file'[j].account = file[i].account /\ file'[j].trade = file[i].trade]_vars

-----------------------------------------------------------------------------
(* Properties of commands that run one at a time, each possibly cut short. *)

RowOf(table, s) == CHOOSE i \in DOMAIN table : table[i].id = s
Card(r) == [account |-> r.account, trade |-> r.trade, status |-> r.status,
            transfer |-> r.transfer]
CardOf(table, s) ==
  IF \E i \in DOMAIN table : table[i].id = s THEN Card(table[RowOf(table, s)]) ELSE NoCard

(* The file is the board of SessionBoard: a command moves one card one     *)
(* column forward or does nothing, whenever it dies.                       *)
Board == INSTANCE SessionBoard WITH board <- [s \in Sessions |-> CardOf(file, s)]
IsBoard == Board!BoardSpec

(* The session a command has just worked on is the one the next command of *)
(* the account picks up, until it is closed: the transaction an operator   *)
(* makes for a refused buy is confirmed for the session of that buy, also  *)
(* when everything happens within one second.                              *)
FocusFollowsCommand ==
  [][\A p \in Procs :
       pc[p] = "store" /\ rec[p].status \notin TerminalStatuses /\ UpsertWrite(p)
       => \E i \in DOMAIN file' :
            IsActive(file', rec[p].account, i) /\ file'[i] = rec[p]]_vars

(* A command configured for one account leaves the sessions of the others  *)
(* as they were.                                                           *)
AccountsApart ==
  [][\A p \in Procs : UpsertWrite(p) /\ account[p] \in Accounts =>
       \A i \in DOMAIN file :
         file[i].account # account[p] => i \in DOMAIN file' /\ file'[i] = file[i]]_vars

(* A session whose follow-up has ended no longer stands in the way of the  *)
(* other sessions of its account.                                          *)
ActiveIsUnfinished ==
  \A a \in Accounts : \A i \in DOMAIN file :
    IsActive(file, a, i) => file[i].task # "completed"

(* Every stored session is closed in the end: closing the latest uncovers  *)
(* the ones before it.                                                     *)
SessionsDrain ==
  \A s \in Sessions :
    (\E i \in DOMAIN file : file[i].id = s)
    ~> (\E i \in DOMAIN file : file[i].id = s /\ file[i].status \in TerminalStatuses)

(* A transfer that continue-funding has recorded stays recorded.           *)
TransferStaysRecorded ==
  [][\A s \in Sessions :
       LET before == CardOf(file, s)  after == CardOf(file', s)
       IN before # NoCard /\ before.transfer # NoTransfer =>
            after # NoCard /\ after.transfer = before.transfer]_file
=============================================================================
