----------------------- MODULE FundingOverlay_proofs -----------------------
(***************************************************************************)
(* Theorems about the overlay sessions, for any numbers of processes,      *)
(* sessions, accounts, trades and transfers, and any bound on the clock.   *)
(***************************************************************************)
EXTENDS FundingOverlay, RowList_proofs

(* What a journal of sessions must look like.                              *)
StepsFit(table) ==
  \A i \in DOMAIN table : table[i].task = TaskFor(table[i].status)
WellFormed(table) == table \in Seq(Row) /\ UniqueIds(table) /\ StepsFit(table)

(* A record on its way into the file, and the list it will be part of.     *)
MemoryFits ==
  \A p \in Procs :
    /\ pc[p] # "idle" => rec[p] \in Row
    /\ pc[p] \in {"load", "store"} => rec[p].task = TaskFor(rec[p].status)
    /\ pc[p] = "store" => WellFormed(rows[p])

OverlayInv == TypeOK /\ WellFormed(file) /\ MemoryFits

-----------------------------------------------------------------------------
(* upsert keeps a journal well formed, whatever list it starts from.       *)
LEMMA PutWellFormed ==
  ASSUME NEW table, WellFormed(table), NEW r \in Row, r.task = TaskFor(r.status)
  PROVE  WellFormed(Put(table, r))
<1>1. table \in Seq(Row) /\ UniqueIds(table) /\ StepsFit(table)
  BY DEF WellFormed
<1>2. /\ Put(table, r) \in Seq(Row)
      /\ UniqueIds(Put(table, r))
      /\ \A i \in DOMAIN Put(table, r) :
           \/ Put(table, r)[i] = r
           \/ i \in DOMAIN table /\ Put(table, r)[i] = table[i]
  BY <1>1, PutKeepsTable
<1>3. StepsFit(Put(table, r))
  BY <1>1, <1>2 DEF StepsFit
<1> QED BY <1>2, <1>3 DEF WellFormed

LEMMA TaskForType == \A status : TaskFor(status) \in Tasks
BY DEF TaskFor, Tasks

-----------------------------------------------------------------------------
LEMMA InitInv == Init => OverlayInv
BY DEF Init, OverlayInv, TypeOK, WellFormed, UniqueIds, StepsFit, MemoryFits, Steps

LEMMA InvStep ==
  ASSUME OverlayInv, [Next]_vars
  PROVE  OverlayInv'
<1> USE DEF OverlayInv, Goto, Remember, Configured
<1>1. ASSUME NEW p \in Procs, NEW a \in Accounts \cup {NoAccount}, BuyShort(p, a)
      PROVE  OverlayInv'
  <2>1. PICK s \in Sessions \ issued, t \in Trades, status \in StartStatuses :
          /\ issued' = issued \cup {s}
          /\ rec' = [rec EXCEPT ![p] = NewSession(s, a, t, status)]
    BY <1>1 DEF BuyShort
  <2>2. rec'[p] \in Row /\ rec'[p].task = TaskFor(rec'[p].status)
    BY <1>1, <2>1, TaskForType DEF BuyShort, NewSession, Row, StartStatuses, Statuses, TypeOK
  <2>3. TypeOK'
    BY <1>1, <2>1, <2>2 DEF BuyShort, TypeOK, Steps
  <2>4. MemoryFits'
    BY <1>1, <2>1, <2>2 DEF BuyShort, MemoryFits, TypeOK
  <2> QED BY <1>1, <2>3, <2>4 DEF BuyShort
<1>2. ASSUME NEW p \in Procs, NEW a \in Accounts \cup {NoAccount},
             ContinueFunding(p, a) \/ ContinueFollowUp(p, a)
      PROVE  OverlayInv'
  <2>1. PICK i \in DOMAIN file : rec' = [rec EXCEPT ![p] = file[i]]
    BY <1>2 DEF ContinueFunding, ContinueFollowUp
  <2>2. file[i] \in Row
    BY DEF TypeOK
  <2>3. pc'[p] \in {"confirmFunding", "recordFollowUp"}
    BY <1>2 DEF ContinueFunding, ContinueFollowUp, TypeOK
  <2>4. TypeOK'
    <3>1. /\ pc' \in [Procs -> Steps] /\ account' \in [Procs -> Accounts \cup {NoAccount}]
          /\ UNCHANGED <<file, clock, issued, rows>>
      BY <1>2 DEF ContinueFunding, ContinueFollowUp, TypeOK, Steps
    <3>2. rec' \in [Procs -> Row \cup {NoRow}]
      BY <2>1, <2>2 DEF TypeOK
    <3> QED BY <3>1, <3>2 DEF TypeOK
  <2>5. MemoryFits'
    BY <1>2, <2>1, <2>2, <2>3 DEF ContinueFunding, ContinueFollowUp, MemoryFits, TypeOK
  <2> QED BY <1>2, <2>4, <2>5 DEF ContinueFunding, ContinueFollowUp
<1>3. ASSUME NEW p \in Procs, ConfirmFunding(p) PROVE OverlayInv'
  <2>1. PICK x \in Transfers :
          rec' = [rec EXCEPT ![p] =
            [rec[p] EXCEPT !.status = "pendingFollowUp", !.transfer = x,
                           !.task = TaskFor("pendingFollowUp"), !.updated = clock]]
    BY <1>3 DEF ConfirmFunding
  <2>2. rec'[p] \in Row /\ rec'[p].task = TaskFor(rec'[p].status)
    <3>1. rec[p] \in Row /\ clock \in Nat
      BY <1>3 DEF ConfirmFunding, MemoryFits, TypeOK
    <3>2. rec'[p] = [rec[p] EXCEPT !.status = "pendingFollowUp", !.transfer = x,
                                   !.task = TaskFor("pendingFollowUp"), !.updated = clock]
      BY <2>1 DEF TypeOK
    <3>3. rec'[p] \in Row
      <4>1. TaskFor("pendingFollowUp") \in Tasks
        BY TaskForType
      <4> QED BY ONLY <3>1, <3>2, <4>1 DEF Row, Statuses
    <3>4. rec'[p].status = "pendingFollowUp" /\ rec'[p].task = TaskFor("pendingFollowUp")
      BY <3>1, <3>2 DEF Row
    <3> QED BY <3>3, <3>4
  <2>3. TypeOK'
    BY <1>3, <2>1, <2>2 DEF ConfirmFunding, TypeOK, Steps
  <2>4. MemoryFits'
    BY <1>3, <2>1, <2>2 DEF ConfirmFunding, MemoryFits, TypeOK
  <2> QED BY <1>3, <2>3, <2>4 DEF ConfirmFunding
<1>4. ASSUME NEW p \in Procs, RecordFollowUp(p) PROVE OverlayInv'
  <2>1. PICK r \in Results :
          rec' = [rec EXCEPT ![p] =
            [rec[p] EXCEPT !.status = r, !.task = "completed", !.updated = clock]]
    BY <1>4 DEF RecordFollowUp
  <2>2. r \in Statuses /\ TaskFor(r) = "completed"
    BY OverlayAssumption DEF Statuses, TaskFor
  <2>3. rec'[p] \in Row /\ rec'[p].task = TaskFor(rec'[p].status)
    <3>1. rec[p] \in Row /\ clock \in Nat
      BY <1>4 DEF RecordFollowUp, MemoryFits, TypeOK
    <3>2. rec'[p] = [rec[p] EXCEPT !.status = r, !.task = "completed", !.updated = clock]
      BY <2>1 DEF TypeOK
    <3>3. rec'[p] \in Row
      BY <2>2, <3>1, <3>2 DEF Row, Tasks
    <3>4. rec'[p].status = r /\ rec'[p].task = "completed"
      BY <3>1, <3>2 DEF Row
    <3> QED BY <2>2, <3>3, <3>4
  <2>4. TypeOK'
    BY <1>4, <2>1, <2>3 DEF RecordFollowUp, TypeOK, Steps
  <2>5. MemoryFits'
    BY <1>4, <2>1, <2>3 DEF RecordFollowUp, MemoryFits, TypeOK
  <2> QED BY <1>4, <2>4, <2>5 DEF RecordFollowUp
<1>5. ASSUME NEW p \in Procs, UpsertRead(p) PROVE OverlayInv'
  <2>1. WellFormed(Put(file, rec[p]))
    BY <1>5, PutWellFormed DEF UpsertRead, MemoryFits
  <2>2. TypeOK'
    BY <1>5, <2>1 DEF UpsertRead, TypeOK, Steps, WellFormed
  <2>3. MemoryFits'
    BY <1>5, <2>1 DEF UpsertRead, MemoryFits, TypeOK
  <2> QED BY <1>5, <2>2, <2>3 DEF UpsertRead
<1>6. ASSUME NEW p \in Procs, UpsertWrite(p) PROVE OverlayInv'
  <2>1. WellFormed(rows[p])
    BY <1>6 DEF UpsertWrite, MemoryFits
  <2>2. TypeOK'
    BY <1>6, <2>1 DEF UpsertWrite, TypeOK, Steps, WellFormed
  <2>3. MemoryFits'
    BY <1>6 DEF UpsertWrite, MemoryFits, TypeOK
  <2> QED BY <1>6, <2>1, <2>2, <2>3 DEF UpsertWrite
<1>7. ASSUME NEW p \in Procs, Stop(p) PROVE OverlayInv'
  <2>1. TypeOK'
    BY <1>7 DEF Stop, TypeOK, Steps
  <2>2. MemoryFits'
    BY <1>7 DEF Stop, MemoryFits, TypeOK
  <2> QED BY <1>7, <2>1, <2>2 DEF Stop
<1>8. CASE Tick
  BY <1>8 DEF Tick, TypeOK, MemoryFits
<1>9. CASE UNCHANGED vars
  BY <1>9 DEF vars, TypeOK, MemoryFits
<1> QED
  BY <1>1, <1>2, <1>3, <1>4, <1>5, <1>6, <1>7, <1>8, <1>9 DEF Next, Start, Advance

(* Type correctness of the overlay sessions.                               *)
THEOREM TypeCorrect == Spec => []TypeOK
<1>1. OverlayInv /\ [Next]_vars => OverlayInv'
  BY InvStep
<1>2. OverlayInv => TypeOK
  BY DEF OverlayInv
<1> QED BY InitInv, <1>1, <1>2, PTL DEF Spec

(* However many commands run at once and wherever they die, the journal    *)
(* holds one row per session, each with the next step its status calls for.*)
THEOREM JournalWellFormed == Spec => [](OneRowPerSession /\ StepFitsStatus)
<1>1. OverlayInv /\ [Next]_vars => OverlayInv'
  BY InvStep
<1>2. OverlayInv => OneRowPerSession /\ StepFitsStatus
  BY DEF OverlayInv, WellFormed, UniqueIds, StepsFit, OneRowPerSession, StepFitsStatus
<1> QED BY InitInv, <1>1, <1>2, PTL DEF Spec

(* However many commands run at once and wherever they die, each session   *)
(* has one row in the journal.                                             *)
THEOREM OneRowEach == Spec => []OneRowPerSession
BY JournalWellFormed, PTL
-----------------------------------------------------------------------------
(* A session has copies in the file, in the memory of commands and in the  *)
(* lists they are about to write, some of them old: they differ in what    *)
(* the commands change, and agree on whom and what the session is for.     *)
Copies ==
  {r \in Row : \/ \E i \in DOMAIN file : r = file[i]
               \/ \E p \in Procs : pc[p] # "idle" /\ r = rec[p]
               \/ \E p \in Procs : \E i \in DOMAIN rows[p] : r = rows[p][i]}
SameTrade(r, q) == r.id = q.id /\ r.account = q.account /\ r.trade = q.trade
CopiesAgree ==
  /\ \A r \in Copies : r.id \in issued
  /\ \A r, q \in Copies : r.id = q.id => SameTrade(r, q)

CopiesInv == OverlayInv /\ CopiesAgree

(* A step derives each copy from an earlier one, and only a buy makes a    *)
(* copy of its own, of a session that had none.                            *)
Derived == \A r \in Copies' : \E q \in Copies : SameTrade(r, q)
OneAdded ==
  \E s \in Sessions \ issued, new \in Row :
    /\ issued' = issued \cup {s} /\ new.id = s
    /\ \A r \in Copies' : r = new \/ r \in Copies

LEMMA CopiesOfStep ==
  ASSUME OverlayInv, [Next]_vars
  PROVE  OneAdded \/ (Derived /\ issued' = issued)
<1> USE DEF Goto, Remember, Configured
<1>t. TypeOK /\ MemoryFits /\ TypeOK'
  BY InvStep DEF OverlayInv
<1>1. ASSUME NEW p \in Procs, NEW a \in Accounts \cup {NoAccount}, BuyShort(p, a)
      PROVE  OneAdded
  <2>1. PICK s \in Sessions \ issued, t \in Trades, status \in StartStatuses :
          /\ issued' = issued \cup {s}
          /\ rec' = [rec EXCEPT ![p] = NewSession(s, a, t, status)]
    BY <1>1 DEF BuyShort
  <2>2. rec'[p] \in Row /\ rec'[p].id = s
    BY <1>1, <1>t, <2>1, TaskForType DEF BuyShort, NewSession, Row, StartStatuses, Statuses, TypeOK
  <2>3. \A r \in Copies' : r = rec'[p] \/ r \in Copies
    BY <1>1, <1>t, <2>1 DEF BuyShort, Copies, TypeOK
  <2> QED BY <2>1, <2>2, <2>3 DEF OneAdded
<1>2. ASSUME NEW p \in Procs, NEW a \in Accounts \cup {NoAccount},
             ContinueFunding(p, a) \/ ContinueFollowUp(p, a)
      PROVE  Derived /\ issued' = issued
  <2>1. PICK i \in DOMAIN file : rec' = [rec EXCEPT ![p] = file[i]]
    BY <1>2 DEF ContinueFunding, ContinueFollowUp
  <2>2. Copies' \subseteq Copies
    BY <1>2, <1>t, <2>1 DEF ContinueFunding, ContinueFollowUp, Copies, TypeOK
  <2> QED BY <1>2, <2>2 DEF Derived, SameTrade, ContinueFunding, ContinueFollowUp
<1>3. ASSUME NEW p \in Procs, ConfirmFunding(p) \/ RecordFollowUp(p)
      PROVE  Derived /\ issued' = issued
  <2>1. rec[p] \in Row /\ rec[p] \in Copies
    BY <1>3, <1>t DEF ConfirmFunding, RecordFollowUp, MemoryFits, Copies
  <2>2. SameTrade(rec'[p], rec[p])
    <3>1. CASE ConfirmFunding(p)
      BY <3>1, <1>t, <2>1 DEF ConfirmFunding, SameTrade, Row, TypeOK
    <3>2. CASE RecordFollowUp(p)
      BY <3>2, <1>t, <2>1 DEF RecordFollowUp, SameTrade, Row, TypeOK
    <3> QED BY <1>3, <3>1, <3>2
  <2>3. \A r \in Copies' : r = rec'[p] \/ r \in Copies
    BY <1>3, <1>t DEF ConfirmFunding, RecordFollowUp, Copies, TypeOK
  <2> QED BY <1>3, <2>1, <2>2, <2>3 DEF Derived, SameTrade, ConfirmFunding, RecordFollowUp
<1>4. ASSUME NEW p \in Procs, UpsertRead(p) PROVE Derived /\ issued' = issued
  <2>1. rec[p] \in Row /\ file \in Seq(Row) /\ UniqueIds(file)
    BY <1>4, <1>t DEF UpsertRead, MemoryFits, OverlayInv, WellFormed
  <2>2. rows'[p] = Put(file, rec[p]) /\ \A q \in Procs \ {p} : rows'[q] = rows[q]
    BY <1>4, <1>t DEF UpsertRead, TypeOK
  <2>3. \A i \in DOMAIN rows'[p] : rows'[p][i] = rec[p] \/ \E j \in DOMAIN file : rows'[p][i] = file[j]
    BY <2>1, <2>2, PutKeepsTable
  <2>4. pc[p] # "idle" /\ \A q \in Procs : pc'[q] # "idle" => pc[q] # "idle"
    BY <1>4, <1>t DEF UpsertRead, TypeOK
  <2>5. Copies' \subseteq Copies
    BY <1>4, <2>2, <2>3, <2>4 DEF UpsertRead, Copies
  <2> QED BY <1>4, <2>5 DEF Derived, SameTrade, UpsertRead
<1>5. ASSUME NEW p \in Procs, UpsertWrite(p) \/ Stop(p) PROVE Derived /\ issued' = issued
  <2>1. \/ file' = rows[p]
        \/ file' = file
    BY <1>5 DEF UpsertWrite, Stop
  <2>2. /\ \A q \in Procs : pc'[q] # "idle" => pc[q] # "idle" /\ rec'[q] = rec[q]
        /\ \A q \in Procs : rows'[q] = <<>> \/ rows'[q] = rows[q]
        /\ issued' = issued
    BY <1>5, <1>t DEF UpsertWrite, Stop, TypeOK
  <2>3. Copies' \subseteq Copies
    BY <2>1, <2>2 DEF Copies
  <2> QED BY <2>2, <2>3 DEF Derived, SameTrade
<1>6. CASE Tick \/ UNCHANGED vars
  <2>1. Copies' = Copies /\ issued' = issued
    BY <1>6 DEF Tick, vars, Copies
  <2> QED BY <2>1 DEF Derived, SameTrade
<1> QED
  BY <1>1, <1>2, <1>3, <1>4, <1>5, <1>6 DEF Next, Start, Advance

LEMMA CopiesStep ==
  ASSUME CopiesInv, [Next]_vars
  PROVE  CopiesInv'
<1>1. OverlayInv'
  BY InvStep DEF CopiesInv
<1>2. CASE OneAdded
  <2>1. PICK s \in Sessions \ issued, new \in Row :
          /\ issued' = issued \cup {s} /\ new.id = s
          /\ \A r \in Copies' : r = new \/ r \in Copies
    BY <1>2 DEF OneAdded
  <2>2. \A r \in Copies' : r.id \in issued'
    BY <2>1 DEF CopiesInv, CopiesAgree
  <2>3. ASSUME NEW r \in Copies', NEW q \in Copies', r.id = q.id
        PROVE  SameTrade(r, q)
    BY <2>1, <2>3 DEF CopiesInv, CopiesAgree, SameTrade
  <2> QED BY <1>1, <2>2, <2>3 DEF CopiesInv, CopiesAgree
<1>3. CASE Derived /\ issued' = issued
  <2>1. \A r \in Copies' : r.id \in issued'
    BY <1>3 DEF Derived, SameTrade, CopiesInv, CopiesAgree
  <2>2. ASSUME NEW r \in Copies', NEW q \in Copies', r.id = q.id
        PROVE  SameTrade(r, q)
    <3>1. PICK r0 \in Copies, q0 \in Copies : SameTrade(r, r0) /\ SameTrade(q, q0)
      BY <1>3 DEF Derived
    <3>2. SameTrade(r0, q0)
      BY <2>2, <3>1 DEF SameTrade, CopiesInv, CopiesAgree
    <3> QED BY <2>2, <3>1, <3>2 DEF SameTrade
  <2> QED BY <1>1, <2>1, <2>2 DEF CopiesInv, CopiesAgree
<1> QED BY <1>1, <1>2, <1>3, CopiesOfStep DEF CopiesInv

(* However many commands run at once, a stored session remains that of the *)
(* account and the trade it was created for.                               *)
THEOREM SessionsKeepTrade == Spec => SessionKeepsItsTrade
<1> DEFINE Kept ==
      \A i \in DOMAIN file, j \in DOMAIN file' : file'[j].id = file[i].id =>
        file'[j].account = file[i].account /\ file'[j].trade = file[i].trade
<1>1. Init => CopiesInv
  BY InitInv DEF Init, CopiesInv, CopiesAgree, Copies
<1>2. CopiesInv /\ [Next]_vars => CopiesInv'
  BY CopiesStep
<1>3. ASSUME CopiesInv, [Next]_vars PROVE Kept
  <2>1. SUFFICES ASSUME NEW i \in DOMAIN file, NEW j \in DOMAIN file',
                        file'[j].id = file[i].id
                 PROVE  file'[j].account = file[i].account /\ file'[j].trade = file[i].trade
    OBVIOUS
  <2>2. OverlayInv /\ CopiesAgree /\ OverlayInv' /\ CopiesAgree'
    BY <1>3, CopiesStep DEF CopiesInv
  <2>3. file[i] \in Copies /\ file'[j] \in Copies'
    BY <2>2 DEF OverlayInv, TypeOK, Copies
  <2>4. CASE OneAdded
    BY <2>1, <2>2, <2>3, <2>4 DEF OneAdded, CopiesAgree, SameTrade
  <2>5. CASE Derived
    <3>1. PICK q \in Copies : SameTrade(file'[j], q)
      BY <2>3, <2>5 DEF Derived
    <3>2. SameTrade(q, file[i])
      <4>1. q.id = file[i].id
        BY <2>1, <3>1 DEF SameTrade
      <4> QED BY ONLY <2>2, <2>3, <4>1 DEF CopiesAgree
    <3> QED BY <3>1, <3>2 DEF SameTrade
  <2> QED BY <1>3, <2>2, <2>4, <2>5, CopiesOfStep
<1>4. [][CopiesInv /\ [Next]_vars => Kept]_vars
  BY <1>3, PTL
<1> QED BY <1>1, <1>2, <1>3, PTL DEF Spec, SessionKeepsItsTrade
=============================================================================
