---------------------- MODULE SequentialOverlay_proofs ----------------------
(***************************************************************************)
(* Theorems about overlay commands that run one at a time, each of which   *)
(* may be cut short anywhere: for any numbers of sessions, accounts,       *)
(* trades and transfers.                                                   *)
(***************************************************************************)
EXTENDS FundingOverlay_proofs

OneCommand == \A p, q \in Procs : p = q

(* A record of a session that has just been created.                       *)
Opens(r) == r.status \in StartStatuses /\ r.transfer = NoTransfer

(* A record that is a stored one moved forward by one event.               *)
Advances(old, new) ==
  /\ new.account = old.account /\ new.trade = old.trade
  /\ old.updated <= new.updated
  /\ \/ /\ old.status = "pendingFunding" /\ new.status = "pendingFollowUp"
        /\ new.transfer \in Transfers
     \/ /\ old.status = "pendingFollowUp" /\ new.status \in Results
        /\ new.transfer = old.transfer

(* Row i is the one the command of p picked.                               *)
Picked(p, i) ==
  /\ i \in DOMAIN file
  /\ file[i].id = rec[p].id
  /\ IsActive(file, rec[p].account, i)

(* What a command that waits for the MCP server holds is what the file     *)
(* still holds; what it is about to store opens a session or moves the     *)
(* picked one; the list it will write is the file with just that change.   *)
CommandIsCurrent(p) ==
  /\ account[p] \in {NoAccount, rec[p].account}
  /\ rec[p].id \in issued
  /\ rec[p].updated <= clock
  /\ pc[p] = "confirmFunding" =>
       rec[p].task = "submitFunding" /\ \E i \in DOMAIN file : Picked(p, i) /\ file[i] = rec[p]
  /\ pc[p] = "recordFollowUp" =>
       rec[p].task = "submitFollowUp" /\ \E i \in DOMAIN file : Picked(p, i) /\ file[i] = rec[p]
  /\ pc[p] \in {"load", "store"} =>
       \/ Opens(rec[p]) /\ \A i \in DOMAIN file : /\ file[i].id # rec[p].id
                                                  /\ file[i].updated <= rec[p].updated
       \/ \E i \in DOMAIN file : Picked(p, i) /\ Advances(file[i], rec[p])
  /\ pc[p] = "store" => rows[p] = Put(file, rec[p])

FileIsKnown == \A i \in DOMAIN file : file[i].id \in issued /\ file[i].updated <= clock

SequentialInv ==
  OverlayInv /\ FileIsKnown /\ \A p \in Procs : pc[p] # "idle" => CommandIsCurrent(p)

-----------------------------------------------------------------------------
(* What a command picks belongs to its account and is what any command of  *)
(* that account would pick.                                                *)
LEMMA ActiveOfAccount ==
  ASSUME NEW a, NEW i \in DOMAIN file, IsActive(file, a, i)
  PROVE  a \in {NoAccount, file[i].account} /\ IsActive(file, file[i].account, i)
<1>1. a \in {NoAccount, file[i].account} /\ i \in OpenRows(file, file[i].account)
  BY DEF IsActive, OpenRows
<1>2. OpenRows(file, file[i].account) \subseteq OpenRows(file, a)
  BY <1>1 DEF OpenRows
<1> QED BY <1>1, <1>2 DEF IsActive

(* What upsert makes of the file, in the two cases there are.              *)
LEMMA StoredOpening ==
  ASSUME SequentialInv, NEW p \in Procs, pc[p] = "store", Opens(rec[p]),
         \A i \in DOMAIN file : file[i].id # rec[p].id
  PROVE  rows[p] = Append(file, rec[p])
BY PutAppends
DEF SequentialInv, OverlayInv, WellFormed, MemoryFits, CommandIsCurrent

LEMMA StoredAdvance ==
  ASSUME SequentialInv, NEW p \in Procs, pc[p] = "store",
         NEW i \in DOMAIN file, Picked(p, i)
  PROVE  rows[p] = [file EXCEPT ![i] = rec[p]]
<1>1. /\ file \in Seq(Row) /\ UniqueIds(file) /\ rec[p] \in Row
      /\ rows[p] = Put(file, rec[p]) /\ file[i].id = rec[p].id
  BY DEF SequentialInv, OverlayInv, WellFormed, MemoryFits, CommandIsCurrent, Picked
<1> QED BY <1>1, PutReplaces

-----------------------------------------------------------------------------
LEMMA SequentialInit == Init => SequentialInv
BY InitInv DEF Init, SequentialInv, FileIsKnown

(* A command's own steps keep what it holds current.                       *)
LEMMA CommandStep ==
  ASSUME SequentialInv, NEW p \in Procs,
         Advance(p) \/ \E a \in Accounts \cup {NoAccount} : Start(p, a)
  PROVE  FileIsKnown' /\ (pc'[p] # "idle" => CommandIsCurrent(p)')
<1>0. TypeOK /\ WellFormed(file) /\ MemoryFits /\ FileIsKnown
  BY DEF SequentialInv, OverlayInv
<1> USE DEF Goto, Remember, Configured
<1>1. ASSUME NEW a \in Accounts \cup {NoAccount}, BuyShort(p, a)
      PROVE  FileIsKnown' /\ CommandIsCurrent(p)'
  <2>1. PICK s \in Sessions \ issued, t \in Trades, status \in StartStatuses :
          issued' = issued \cup {s} /\ rec'[p] = NewSession(s, a, t, status)
    BY <1>0, <1>1 DEF BuyShort, TypeOK
  <2>2. /\ rec'[p].id = s /\ rec'[p].account = a /\ rec'[p].updated = clock
        /\ Opens(rec'[p])
    BY <2>1 DEF NewSession, Opens
  <2>3. /\ file' = file /\ clock' = clock /\ account'[p] = a
        /\ pc'[p] = "load"
    BY <1>0, <1>1 DEF BuyShort, TypeOK
  <2>4. FileIsKnown'
    BY <1>0, <2>1, <2>3 DEF FileIsKnown
  <2>5. \A i \in DOMAIN file : file[i].id # s /\ file[i].updated <= clock
    BY <1>0, <2>1 DEF FileIsKnown
  <2>6. clock <= clock
    BY <1>0 DEF TypeOK
  <2> QED BY <2>1, <2>2, <2>3, <2>4, <2>5, <2>6 DEF CommandIsCurrent, Opens
<1>2. ASSUME NEW a \in Accounts \cup {NoAccount}, ContinueFunding(p, a) \/ ContinueFollowUp(p, a)
      PROVE  FileIsKnown' /\ CommandIsCurrent(p)'
  <2>1. PICK i \in DOMAIN file :
          /\ IsActive(file, a, i) /\ rec'[p] = file[i]
          /\ \/ pc'[p] = "confirmFunding" /\ file[i].task = "submitFunding"
             \/ pc'[p] = "recordFollowUp" /\ file[i].task = "submitFollowUp"
    BY <1>0, <1>2 DEF ContinueFunding, ContinueFollowUp, TypeOK
  <2>2. account'[p] = a /\ file' = file /\ clock' = clock /\ issued' = issued
    BY <1>0, <1>2 DEF ContinueFunding, ContinueFollowUp, TypeOK
  <2>3. a \in {NoAccount, file[i].account} /\ IsActive(file, file[i].account, i)
    BY <2>1, ActiveOfAccount
  <2>4. Picked(p, i)'
    BY <2>1, <2>2, <2>3 DEF Picked, IsActive, OpenRows
  <2>5. FileIsKnown'
    BY <1>0, <2>2 DEF FileIsKnown
  <2> QED BY <1>0, <2>1, <2>2, <2>3, <2>4, <2>5 DEF CommandIsCurrent, FileIsKnown
<1>3. ASSUME ConfirmFunding(p) \/ RecordFollowUp(p)
      PROVE  FileIsKnown' /\ CommandIsCurrent(p)'
  <2>1. /\ pc'[p] = "load" /\ CommandIsCurrent(p) /\ rec[p] \in Row
        /\ UNCHANGED <<file, clock, issued, account>>
    BY <1>0, <1>3 DEF ConfirmFunding, RecordFollowUp, TypeOK, SequentialInv, MemoryFits
  <2>2. PICK i \in DOMAIN file : Picked(p, i) /\ file[i] = rec[p]
    BY <1>3, <2>1 DEF ConfirmFunding, RecordFollowUp, CommandIsCurrent
  <2>3. rec[p].updated \in Nat /\ clock \in Nat /\ rec[p].updated <= clock
    BY <1>0, <2>1 DEF TypeOK, Row, CommandIsCurrent
  <2>4. /\ rec'[p].id = rec[p].id /\ rec'[p].account = rec[p].account
        /\ rec'[p].trade = rec[p].trade /\ rec'[p].updated = clock
    <3>1. CASE ConfirmFunding(p)
      <4>1. PICK x \in Transfers :
              rec'[p] = [rec[p] EXCEPT !.status = "pendingFollowUp", !.transfer = x,
                                       !.task = TaskFor("pendingFollowUp"), !.updated = clock]
        BY <1>0, <3>1 DEF ConfirmFunding, TypeOK
      <4> QED BY <2>1, <4>1 DEF Row
    <3>2. CASE RecordFollowUp(p)
      <4>1. PICK r \in Results :
              rec'[p] = [rec[p] EXCEPT !.status = r, !.task = "completed", !.updated = clock]
        BY <1>0, <3>2 DEF RecordFollowUp, TypeOK
      <4> QED BY <2>1, <4>1 DEF Row
    <3> QED BY <1>3, <3>1, <3>2
  <2>5. rec[p].task = TaskFor(rec[p].status)
    BY <1>0, <2>2 DEF WellFormed, StepsFit
  <2>6. ASSUME ConfirmFunding(p) PROVE Advances(file[i], rec'[p])
    <3>1. rec'[p].status = "pendingFollowUp" /\ rec'[p].transfer \in Transfers
      BY <1>0, <2>1, <2>6 DEF ConfirmFunding, TypeOK, Row
    <3>2. rec[p].status = "pendingFunding"
      BY <2>1, <2>5, <2>6 DEF ConfirmFunding, CommandIsCurrent, TaskFor
    <3> QED BY <2>2, <2>3, <2>4, <3>1, <3>2 DEF Advances
  <2>7. ASSUME RecordFollowUp(p) PROVE Advances(file[i], rec'[p])
    <3>1. rec'[p].status \in Results /\ rec'[p].transfer = rec[p].transfer
      BY <1>0, <2>1, <2>7 DEF RecordFollowUp, TypeOK, Row
    <3>2. rec[p].status = "pendingFollowUp"
      BY <2>1, <2>5, <2>7 DEF RecordFollowUp, CommandIsCurrent, TaskFor
    <3> QED BY <2>2, <2>3, <2>4, <3>1, <3>2 DEF Advances
  <2>8. Advances(file[i], rec'[p])
    BY <1>3, <2>6, <2>7
  <2>9. Picked(p, i)'
    BY <2>1, <2>2, <2>4 DEF Picked, IsActive, OpenRows
  <2>10. FileIsKnown'
    BY <1>0, <2>1 DEF FileIsKnown
  <2> QED BY <2>1, <2>3, <2>4, <2>8, <2>9, <2>10 DEF CommandIsCurrent, Advances
<1>4. ASSUME UpsertRead(p) PROVE FileIsKnown' /\ CommandIsCurrent(p)'
  <2>1. /\ CommandIsCurrent(p) /\ pc[p] = "load" /\ pc'[p] = "store"
        /\ rows'[p] = Put(file, rec[p])
        /\ UNCHANGED <<file, clock, issued, account, rec>>
    BY <1>0, <1>4 DEF UpsertRead, TypeOK, SequentialInv
  <2> QED BY <1>0, <2>1 DEF FileIsKnown, CommandIsCurrent, Picked, IsActive, OpenRows,
             Opens, Advances
<1>5. ASSUME UpsertWrite(p) PROVE FileIsKnown' /\ pc'[p] = "idle"
  <2>1. /\ CommandIsCurrent(p) /\ rec[p] \in Row /\ file' = Put(file, rec[p])
        /\ pc'[p] = "idle" /\ UNCHANGED <<clock, issued>>
    BY <1>0, <1>5 DEF UpsertWrite, TypeOK, SequentialInv, MemoryFits, CommandIsCurrent
  <2>2. \A i \in DOMAIN file' : file'[i] = rec[p] \/ (i \in DOMAIN file /\ file'[i] = file[i])
    <3>1. file \in Seq(Row) /\ UniqueIds(file) /\ rec[p] \in Row
      BY <1>0, <2>1 DEF WellFormed
    <3>2. \A i \in DOMAIN Put(file, rec[p]) :
            \/ Put(file, rec[p])[i] = rec[p]
            \/ i \in DOMAIN file /\ Put(file, rec[p])[i] = file[i]
      BY <3>1, PutKeepsTable
    <3> QED BY <2>1, <3>2
  <2> QED BY <1>0, <2>1, <2>2 DEF FileIsKnown, CommandIsCurrent
<1> QED BY <1>1, <1>2, <1>3, <1>4, <1>5 DEF Advance, Start

LEMMA SequentialStep ==
  ASSUME OneCommand, SequentialInv, [Next]_vars
  PROVE  SequentialInv'
<1>1. OverlayInv'
  BY InvStep DEF SequentialInv
<1>2. ASSUME NEW p \in Procs,
             Advance(p) \/ \E a \in Accounts \cup {NoAccount} : Start(p, a)
      PROVE  SequentialInv'
  BY <1>1, <1>2, CommandStep DEF OneCommand, SequentialInv
<1>3. ASSUME NEW p \in Procs, Stop(p) PROVE SequentialInv'
  <2>1. pc'[p] = "idle" /\ UNCHANGED <<file, clock, issued>>
    BY <1>3 DEF Stop, Goto, SequentialInv, OverlayInv, TypeOK
  <2> QED BY <1>1, <2>1 DEF OneCommand, SequentialInv, FileIsKnown
<1>4. CASE Tick \/ UNCHANGED vars
  <2>1. /\ UNCHANGED <<file, issued, pc, account, rec, rows>>
        /\ clock \in Nat /\ clock' \in {clock, clock + 1}
    BY <1>4 DEF Tick, vars, SequentialInv, OverlayInv, TypeOK
  <2>2. FileIsKnown'
    <3>1. \A i \in DOMAIN file : file[i] \in Row
      BY DEF SequentialInv, OverlayInv, TypeOK
    <3>2. \A i \in DOMAIN file : file[i].updated \in Nat
      BY <3>1 DEF Row
    <3> QED BY <2>1, <3>2 DEF SequentialInv, FileIsKnown
  <2>3. ASSUME NEW p \in Procs, pc[p] # "idle" PROVE CommandIsCurrent(p)'
    <3>1. CommandIsCurrent(p) /\ rec[p] \in Row
      BY <2>3 DEF SequentialInv, OverlayInv, MemoryFits
    <3>2. rec[p].updated \in Nat
      BY <3>1 DEF Row
    <3>3. rec[p].updated <= clock'
      BY <2>1, <3>1, <3>2 DEF CommandIsCurrent
    <3> QED BY <2>1, <3>1, <3>3 DEF CommandIsCurrent, Picked, IsActive, OpenRows,
               Opens, Advances
  <2> QED BY <1>1, <2>1, <2>2, <2>3 DEF SequentialInv
<1> QED BY <1>2, <1>3, <1>4 DEF Next

-----------------------------------------------------------------------------
(* A command configured for one account leaves the sessions of the other   *)
(* accounts as they were, wherever in the file they are.                   *)
THEOREM CommandsStayInAccount == ASSUME OneCommand PROVE Spec => AccountsApart
<1> DEFINE Apart == \A p \in Procs : UpsertWrite(p) /\ account[p] \in Accounts =>
              \A i \in DOMAIN file :
                file[i].account # account[p] => i \in DOMAIN file' /\ file'[i] = file[i]
<1>1. SequentialInv => Apart
  <2> SUFFICES ASSUME SequentialInv, NEW p \in Procs, UpsertWrite(p),
                      account[p] \in Accounts, NEW j \in DOMAIN file,
                      file[j].account # account[p]
               PROVE  j \in DOMAIN file' /\ file'[j] = file[j]
    OBVIOUS
  <2>1. /\ pc[p] = "store" /\ file' = rows[p] /\ account[p] = rec[p].account
        /\ CommandIsCurrent(p) /\ file \in Seq(Row)
    BY OverlayAssumption
    DEF UpsertWrite, SequentialInv, CommandIsCurrent, OverlayInv, WellFormed
  <2>2. CASE Opens(rec[p]) /\ \A i \in DOMAIN file : file[i].id # rec[p].id
    <3>1. rows[p] = Append(file, rec[p])
      BY <2>1, <2>2, StoredOpening
    <3> QED BY <2>1, <3>1
  <2>3. ASSUME NEW i \in DOMAIN file, Picked(p, i), Advances(file[i], rec[p])
        PROVE  j \in DOMAIN file' /\ file'[j] = file[j]
    <3>1. rows[p] = [file EXCEPT ![i] = rec[p]]
      BY <2>1, <2>3, StoredAdvance
    <3>2. file[i].account = rec[p].account
      BY <2>3 DEF Advances
    <3>3. j # i
      BY <2>1, <3>2
    <3> QED BY <2>1, <3>1, <3>3
  <2> QED BY <2>1, <2>2, <2>3 DEF CommandIsCurrent
<1>2. SequentialInv /\ [Next]_vars => SequentialInv'
  BY SequentialStep
<1> QED BY SequentialInit, <1>1, <1>2, PTL DEF Spec, AccountsApart

(* The session a command has stored is the one the next command of its     *)
(* account picks, whatever the timestamps of the other sessions are.       *)
THEOREM NextCommandFollows == ASSUME OneCommand PROVE Spec => FocusFollowsCommand
<1>1. SequentialInv => \A p \in Procs :
        pc[p] = "store" /\ rec[p].status \notin TerminalStatuses /\ UpsertWrite(p)
        => \E i \in DOMAIN file' :
             IsActive(file', rec[p].account, i) /\ file'[i] = rec[p]
  <2> SUFFICES ASSUME SequentialInv, NEW p \in Procs, pc[p] = "store",
                      rec[p].status \notin TerminalStatuses, UpsertWrite(p)
               PROVE  \E i \in DOMAIN file' :
                        IsActive(file', rec[p].account, i) /\ file'[i] = rec[p]
    OBVIOUS
  <2>1. file' = rows[p] /\ CommandIsCurrent(p) /\ file \in Seq(Row) /\ rec[p] \in Row
    BY DEF UpsertWrite, SequentialInv, OverlayInv, WellFormed, MemoryFits
  <2>2. rec[p].updated \in Nat /\ \A i \in DOMAIN file : file[i].updated \in Nat
    <3>1. \A i \in DOMAIN file : file[i] \in Row
      BY <2>1
    <3> QED BY <2>1, <3>1 DEF Row
  <2>3. CASE Opens(rec[p]) /\ \A i \in DOMAIN file : /\ file[i].id # rec[p].id
                                                     /\ file[i].updated <= rec[p].updated
    <3>1. file' = Append(file, rec[p])
      BY <2>1, <2>3, StoredOpening
    <3> DEFINE n == Len(file) + 1
    <3>2. /\ n \in DOMAIN file' /\ file'[n] = rec[p] /\ DOMAIN file' = 1 .. n
          /\ \A j \in DOMAIN file' : j = n \/ (j \in DOMAIN file /\ file'[j] = file[j])
      BY <2>1, <3>1
    <3>3. n \in OpenRows(file', rec[p].account)
      BY <3>2 DEF OpenRows
    <3>4. ASSUME NEW j \in OpenRows(file', rec[p].account)
          PROVE  \/ file'[j].updated < file'[n].updated
                 \/ file'[j].updated = file'[n].updated /\ j <= n
      <4>1. j \in DOMAIN file' /\ j <= n
        BY <2>1, <3>2 DEF OpenRows
      <4> QED BY <2>2, <2>3, <3>2, <4>1
    <3> QED BY <3>2, <3>3, <3>4 DEF IsActive
  <2>4. ASSUME NEW i \in DOMAIN file, Picked(p, i), Advances(file[i], rec[p])
        PROVE  IsActive(file', rec[p].account, i) /\ i \in DOMAIN file' /\ file'[i] = rec[p]
    <3>1. file' = [file EXCEPT ![i] = rec[p]]
      BY <2>1, <2>4, StoredAdvance
    <3>2. DOMAIN file' = DOMAIN file /\ file'[i] = rec[p]
          /\ \A j \in DOMAIN file : j # i => file'[j] = file[j]
      BY <2>1, <3>1
    <3>3. IsActive(file, rec[p].account, i) /\ file[i].updated <= rec[p].updated
      BY <2>4 DEF Picked, Advances
    <3>4. i \in OpenRows(file', rec[p].account)
      BY <3>2 DEF OpenRows
    <3>5. ASSUME NEW j \in OpenRows(file', rec[p].account)
          PROVE  \/ file'[j].updated < file'[i].updated
                 \/ file'[j].updated = file'[i].updated /\ j <= i
      <4>1. CASE j = i
        <5>1. i \in Nat
          BY <2>1
        <5> QED BY <4>1, <5>1
      <4>2. CASE j # i
        <5>1. j \in DOMAIN file /\ file'[j] = file[j]
          BY <3>2, <4>2 DEF OpenRows
        <5>2. j \in OpenRows(file, rec[p].account)
          BY <5>1 DEF OpenRows
        <5>3. \/ file[j].updated < file[i].updated
              \/ file[j].updated = file[i].updated /\ j <= i
          BY <3>3, <5>2 DEF IsActive
        <5> QED BY <2>2, <3>2, <3>3, <5>1, <5>3
      <4> QED BY <4>1, <4>2
    <3> QED BY <3>2, <3>4, <3>5 DEF IsActive
  <2> QED BY <2>1, <2>3, <2>4 DEF CommandIsCurrent
<1>2. SequentialInv /\ [Next]_vars => SequentialInv'
  BY SequentialStep
<1> QED BY SequentialInit, <1>1, <1>2, PTL DEF Spec, FocusFollowsCommand

-----------------------------------------------------------------------------
(* The cards of a list of rows.                                            *)
LEMMA CardOfRow ==
  ASSUME NEW table \in Seq(Row), UniqueIds(table), NEW i \in DOMAIN table
  PROVE  CardOf(table, table[i].id) = Card(table[i])
<1>1. RowOf(table, table[i].id) = i
  BY DEF RowOf, UniqueIds
<1> QED BY <1>1 DEF CardOf

LEMMA CardOfNone ==
  ASSUME NEW table, NEW s, \A i \in DOMAIN table : table[i].id # s
  PROVE  CardOf(table, s) = NoCard
BY DEF CardOf

LEMMA MovedCard ==
  ASSUME NEW r, NEW status, NEW transfer
  PROVE  [Card(r) EXCEPT !.status = status, !.transfer = transfer]
         = [account |-> r.account, trade |-> r.trade,
            status |-> status, transfer |-> transfer]
<1>1. [Card(r) EXCEPT !.status = status]
        = [account |-> r.account, trade |-> r.trade,
           status |-> status, transfer |-> r.transfer]
  BY DEF Card
<1>2. [[account |-> r.account, trade |-> r.trade,
        status |-> status, transfer |-> r.transfer] EXCEPT !.transfer = transfer]
        = [account |-> r.account, trade |-> r.trade,
           status |-> status, transfer |-> transfer]
  OBVIOUS
<1> QED BY <1>1, <1>2

LEMMA CardIsCard == ASSUME NEW r \in Row PROVE Card(r) # NoCard
BY OverlayAssumption DEF Card, Row

(* What a stored list does to the cards: only the record's card changes.   *)
LEMMA OtherCards ==
  ASSUME NEW table \in Seq(Row), UniqueIds(table), NEW r \in Row,
         NEW s \in Sessions, s # r.id
  PROVE  CardOf(Put(table, r), s) = CardOf(table, s)
<1>1. /\ Put(table, r) \in Seq(Row) /\ UniqueIds(Put(table, r))
      /\ DOMAIN table \subseteq DOMAIN Put(table, r)
  BY PutKeepsTable
<1>2. \A i \in DOMAIN Put(table, r) :
        \/ Put(table, r)[i] = r
        \/ i \in DOMAIN table /\ Put(table, r)[i] = table[i]
  BY PutKeepsTable
<1>3. \A i \in DOMAIN table : table[i].id # r.id => Put(table, r)[i] = table[i]
  BY PutKeepsTable
<1>4. CASE \A j \in DOMAIN table : table[j].id # s
  <2>1. \A i \in DOMAIN Put(table, r) : Put(table, r)[i].id # s
    BY <1>2, <1>4
  <2> QED BY <1>4, <2>1, CardOfNone
<1>5. ASSUME NEW j \in DOMAIN table, table[j].id = s
      PROVE  CardOf(Put(table, r), s) = CardOf(table, s)
  <2>1. j \in DOMAIN Put(table, r) /\ Put(table, r)[j] = table[j]
    BY <1>1, <1>3, <1>5
  <2>2. CardOf(Put(table, r), s) = Card(table[j])
    BY <1>1, <1>5, <2>1, CardOfRow
  <2>3. CardOf(table, s) = Card(table[j])
    BY <1>5, CardOfRow
  <2> QED BY <2>2, <2>3
<1> QED BY <1>4, <1>5

LEMMA OwnCard ==
  ASSUME NEW table \in Seq(Row), UniqueIds(table), NEW r \in Row
  PROVE  CardOf(Put(table, r), r.id) = Card(r)
<1>1. /\ Put(table, r) \in Seq(Row) /\ UniqueIds(Put(table, r))
      /\ \E i \in DOMAIN Put(table, r) : Put(table, r)[i] = r
  BY PutKeepsTable
<1>2. PICK i \in DOMAIN Put(table, r) : Put(table, r)[i] = r
  BY <1>1
<1> QED BY <1>1, <1>2, CardOfRow

-----------------------------------------------------------------------------
(* Only an upsert writes the file. *)
LEMMA FileWriter ==
  ASSUME [Next]_vars, file' # file
  PROVE  \E p \in Procs : UpsertWrite(p)
BY DEF Next, Start, Advance, BuyShort, ContinueFunding, ContinueFollowUp,
       ConfirmFunding, RecordFollowUp, UpsertRead, Stop, Tick, vars

CardsOf(table) == [s \in Sessions |-> CardOf(table, s)]

LEMMA WriteRefines ==
  ASSUME SequentialInv, NEW p \in Procs, UpsertWrite(p)
  PROVE  Board!BoardNext
<1> DEFINE s == rec[p].id
<1>1. /\ file \in Seq(Row) /\ UniqueIds(file) /\ rec[p] \in Row
      /\ file' = Put(file, rec[p]) /\ pc[p] = "store" /\ CommandIsCurrent(p)
  BY DEF UpsertWrite, SequentialInv, OverlayInv, WellFormed, MemoryFits, CommandIsCurrent
<1>2. s \in Sessions
  BY <1>1 DEF Row
<1>3. CardOf(file', s) = Card(rec[p])
      /\ \A x \in Sessions \ {s} : CardOf(file', x) = CardOf(file, x)
  BY <1>1, OwnCard, OtherCards
<1>4. CardsOf(file') = [CardsOf(file) EXCEPT ![s] = Card(rec[p])]
  BY <1>2, <1>3 DEF CardsOf
<1>5. CASE Opens(rec[p]) /\ \A i \in DOMAIN file : file[i].id # rec[p].id
  <2>1. CardsOf(file)[s] = NoCard
    BY <1>2, <1>5, CardOfNone DEF CardsOf
  <2>2. /\ rec[p].account \in Accounts /\ rec[p].trade \in Trades
        /\ rec[p].status \in {"pendingFunding", "pendingFollowUp"}
        /\ Card(rec[p]) = [account |-> rec[p].account, trade |-> rec[p].trade,
                           status |-> rec[p].status, transfer |-> NoTransfer]
    BY <1>1, <1>5 DEF Opens, StartStatuses, Row, Card
  <2>3. Board!Open(s)
    BY <1>4, <2>1, <2>2 DEF Board!Open, CardsOf
  <2> QED BY <1>2, <2>3 DEF Board!BoardNext
<1>6. ASSUME NEW i \in DOMAIN file, Picked(p, i), Advances(file[i], rec[p])
      PROVE  Board!BoardNext
  <2> DEFINE old == Card(file[i])
  <2>1. file[i] \in Row /\ file[i].id = s
    BY <1>1, <1>6 DEF Picked
  <2>2. CardsOf(file)[s] = old /\ old # NoCard
    BY <1>1, <1>2, <2>1, CardOfRow, CardIsCard DEF CardsOf
  <2>3. old.status = file[i].status /\ old.transfer = file[i].transfer
    BY DEF Card
  <2>4. Card(rec[p]) = [old EXCEPT !.status = rec[p].status, !.transfer = rec[p].transfer]
    <3>1. rec[p].account = file[i].account /\ rec[p].trade = file[i].trade
      BY <1>6 DEF Advances
    <3>2. [old EXCEPT !.status = rec[p].status, !.transfer = rec[p].transfer]
            = [account |-> file[i].account, trade |-> file[i].trade,
               status |-> rec[p].status, transfer |-> rec[p].transfer]
      BY MovedCard, Zenon
    <3> QED BY <3>1, <3>2 DEF Card
  <2>5. CASE file[i].status = "pendingFunding"
    <3>1. rec[p].status = "pendingFollowUp" /\ rec[p].transfer \in Transfers
      BY <1>6, <2>5 DEF Advances
    <3>2. CardsOf(file') = [CardsOf(file) EXCEPT ![s].status = "pendingFollowUp",
                                                 ![s].transfer = rec[p].transfer]
      BY <1>4, <2>2, <2>4, <3>1 DEF CardsOf
    <3>3. Board!Fund(s)
      BY <2>2, <2>3, <2>5, <3>1, <3>2 DEF Board!Fund, CardsOf
    <3> QED BY <1>2, <3>3 DEF Board!BoardNext
  <2>6. CASE file[i].status # "pendingFunding"
    <3>1. /\ file[i].status = "pendingFollowUp" /\ rec[p].status \in Results
          /\ rec[p].transfer = old.transfer
      BY <1>6, <2>3, <2>6 DEF Advances
    <3>2. CardsOf(file') = [CardsOf(file) EXCEPT ![s].status = rec[p].status]
      <4>1. Card(rec[p]) = [old EXCEPT !.status = rec[p].status]
        BY <2>4, <3>1 DEF Card
      <4> HIDE DEF old
      <4> QED BY <1>4, <2>2, <4>1 DEF CardsOf
    <3>3. Board!Finish(s)
      BY <2>2, <2>3, <3>1, <3>2 DEF Board!Finish, CardsOf
    <3> QED BY <1>2, <3>3 DEF Board!BoardNext
  <2> QED BY <2>5, <2>6
<1> QED BY <1>1, <1>5, <1>6 DEF CommandIsCurrent

(* Commands one at a time, each cut short anywhere, are the board: a       *)
(* command moves one card one column forward or does nothing.              *)
THEOREM CommandsAreBoard == ASSUME OneCommand PROVE Spec => IsBoard
<1>1. Init => Board!BoardInit
  BY CardOfNone DEF Init, Board!BoardInit
<1>2. SequentialInv /\ [Next]_vars
        => [Board!BoardNext]_([s \in Sessions |-> CardOf(file, s)])
  <2> SUFFICES ASSUME SequentialInv, [Next]_vars, file' # file
               PROVE  Board!BoardNext
    OBVIOUS
  <2>1. \E p \in Procs : UpsertWrite(p)
    BY FileWriter
  <2> QED BY <2>1, WriteRefines
<1>3. SequentialInv /\ [Next]_vars => SequentialInv'
  BY SequentialStep
<1> QED BY SequentialInit, <1>1, <1>2, <1>3, PTL DEF Spec, IsBoard, Board!BoardSpec

-----------------------------------------------------------------------------
(* A session that waits for its funding has no transfer. *)
UnfundedBare ==
  \A i \in DOMAIN file : file[i].status = "pendingFunding" => file[i].transfer = NoTransfer

LEMMA UnfundedBareStep ==
  ASSUME SequentialInv, UnfundedBare, [Next]_vars
  PROVE  UnfundedBare'
<1>1. ASSUME NEW p \in Procs, UpsertWrite(p) PROVE UnfundedBare'
  <2>1. /\ file \in Seq(Row) /\ UniqueIds(file) /\ rec[p] \in Row
        /\ file' = Put(file, rec[p]) /\ pc[p] = "store" /\ CommandIsCurrent(p)
    BY <1>1 DEF UpsertWrite, SequentialInv, OverlayInv, WellFormed, MemoryFits, CommandIsCurrent
  <2>2. rec[p].status = "pendingFunding" => rec[p].transfer = NoTransfer
    BY <2>1, OverlayAssumption DEF CommandIsCurrent, Opens, Advances
  <2>3. \A i \in DOMAIN Put(file, rec[p]) :
          \/ Put(file, rec[p])[i] = rec[p]
          \/ i \in DOMAIN file /\ Put(file, rec[p])[i] = file[i]
    BY <2>1, PutKeepsTable
  <2> QED BY <2>1, <2>2, <2>3 DEF UnfundedBare
<1>2. file' = file => UnfundedBare'
  BY DEF UnfundedBare
<1> QED BY <1>1, <1>2, FileWriter

(* With commands one at a time a transfer that has been recorded for a     *)
(* session stays recorded, as it was: no later confirmation replaces it.   *)
THEOREM TransfersStay == ASSUME OneCommand PROVE Spec => TransferStaysRecorded
<1>1. Init => UnfundedBare
  BY DEF Init, UnfundedBare
<1>2. SequentialInv /\ UnfundedBare /\ [Next]_vars => UnfundedBare'
  BY UnfundedBareStep
<1>3. SequentialInv /\ [Next]_vars => SequentialInv'
  BY SequentialStep
<1>4. ASSUME SequentialInv, UnfundedBare, [Next]_vars, file' # file, NEW s \in Sessions,
             CardOf(file, s) # NoCard, CardOf(file, s).transfer # NoTransfer
      PROVE  CardOf(file', s) # NoCard /\ CardOf(file', s).transfer = CardOf(file, s).transfer
  <2>1. PICK p \in Procs : UpsertWrite(p)
    BY <1>4, FileWriter
  <2>2. /\ file \in Seq(Row) /\ UniqueIds(file) /\ rec[p] \in Row
        /\ file' = Put(file, rec[p]) /\ pc[p] = "store" /\ CommandIsCurrent(p)
    BY <1>4, <2>1
    DEF UpsertWrite, SequentialInv, OverlayInv, WellFormed, MemoryFits, CommandIsCurrent
  <2>3. CASE s # rec[p].id
    BY <1>4, <2>2, <2>3, OtherCards
  <2>4. CASE s = rec[p].id
    <3>1. CardOf(file', s) = Card(rec[p]) /\ Card(rec[p]) # NoCard
      BY <2>2, <2>4, OwnCard, CardIsCard
    <3>2. PICK i \in DOMAIN file : file[i].id = s
      BY <1>4, CardOfNone
    <3>3. CardOf(file, s) = Card(file[i])
      BY <2>2, <3>2, CardOfRow
    <3>4. PICK j \in DOMAIN file : Picked(p, j) /\ Advances(file[j], rec[p])
      BY <2>2, <2>4, <3>2 DEF CommandIsCurrent
    <3>5. j = i
      BY <2>2, <2>4, <3>2, <3>4 DEF Picked, UniqueIds
    <3>6. file[i].transfer # NoTransfer
      BY <1>4, <3>3 DEF Card
    <3>7. rec[p].transfer = file[i].transfer
      BY <1>4, <3>4, <3>5, <3>6 DEF Advances, UnfundedBare
    <3> QED BY <3>1, <3>3, <3>7 DEF Card
  <2> QED BY <2>3, <2>4
<1>5. SequentialInv /\ UnfundedBare /\ [Next]_vars =>
        [\A s \in Sessions :
           LET before == CardOf(file, s)  after == CardOf(file', s)
           IN before # NoCard /\ before.transfer # NoTransfer =>
                after # NoCard /\ after.transfer = before.transfer]_file
  BY <1>4
<1> QED BY SequentialInit, <1>1, <1>2, <1>3, <1>5, PTL DEF Spec, TransferStaysRecorded

-----------------------------------------------------------------------------
(* Nothing in the file, or on its way there, was skipped. *)
NoneSkipped ==
  /\ \A i \in DOMAIN file : file[i].status # "skipped"
  /\ \A p \in Procs :
       /\ pc[p] # "idle" => rec[p].status # "skipped"
       /\ \A i \in DOMAIN rows[p] : rows[p][i].status # "skipped"

LEMMA NoneSkippedStep ==
  ASSUME "skipped" \notin Results, OverlayInv, NoneSkipped, [Next]_vars
  PROVE  NoneSkipped'
<1>0. TypeOK /\ WellFormed(file) /\ MemoryFits
  BY DEF OverlayInv
<1> USE DEF Goto, Remember, Configured
<1>1. ASSUME NEW p \in Procs, NEW a \in Accounts \cup {NoAccount}, Start(p, a)
      PROVE  NoneSkipped'
  <2>1. rec'[p].status # "skipped"
    BY <1>0, <1>1
    DEF Start, BuyShort, ContinueFunding, ContinueFollowUp, NewSession, StartStatuses,
        TypeOK, NoneSkipped
  <2>2. /\ UNCHANGED <<file, rows>>
        /\ \A q \in Procs \ {p} : pc'[q] = pc[q] /\ rec'[q] = rec[q]
    BY <1>0, <1>1 DEF Start, BuyShort, ContinueFunding, ContinueFollowUp, TypeOK
  <2> QED BY <2>1, <2>2 DEF NoneSkipped
<1>2. ASSUME NEW p \in Procs, ConfirmFunding(p) \/ RecordFollowUp(p) PROVE NoneSkipped'
  <2>1. rec[p] \in Row
    BY <1>0, <1>2 DEF ConfirmFunding, RecordFollowUp, MemoryFits
  <2>2. rec'[p].status # "skipped"
    <3>1. CASE ConfirmFunding(p)
      <4>1. rec'[p].status = "pendingFollowUp"
        BY <1>0, <2>1, <3>1 DEF ConfirmFunding, TypeOK, Row
      <4> QED BY <4>1
    <3>2. CASE RecordFollowUp(p)
      <4>1. rec'[p].status \in Results
        BY <1>0, <2>1, <3>2 DEF RecordFollowUp, TypeOK, Row
      <4> QED BY <4>1
    <3> QED BY <1>2, <3>1, <3>2
  <2>3. /\ UNCHANGED <<file, rows>>
        /\ \A q \in Procs \ {p} : pc'[q] = pc[q] /\ rec'[q] = rec[q]
    BY <1>0, <1>2 DEF ConfirmFunding, RecordFollowUp, TypeOK
  <2> QED BY <2>2, <2>3 DEF NoneSkipped
<1>3. ASSUME NEW p \in Procs, UpsertRead(p) PROVE NoneSkipped'
  <2>1. file \in Seq(Row) /\ UniqueIds(file) /\ rec[p] \in Row
    BY <1>0, <1>3 DEF WellFormed, UpsertRead, MemoryFits
  <2>2. \A i \in DOMAIN Put(file, rec[p]) :
          \/ Put(file, rec[p])[i] = rec[p]
          \/ i \in DOMAIN file /\ Put(file, rec[p])[i] = file[i]
    BY <2>1, PutKeepsTable
  <2>3. \A i \in DOMAIN Put(file, rec[p]) : Put(file, rec[p])[i].status # "skipped"
    BY <1>3, <2>2 DEF NoneSkipped, UpsertRead
  <2>4. /\ UNCHANGED <<file, rec>> /\ rows' = [rows EXCEPT ![p] = Put(file, rec[p])]
        /\ pc[p] # "idle" /\ \A q \in Procs \ {p} : pc'[q] = pc[q]
    BY <1>0, <1>3 DEF UpsertRead, TypeOK
  <2> QED BY <1>0, <2>3, <2>4 DEF NoneSkipped, TypeOK
<1>4. ASSUME NEW p \in Procs, UpsertWrite(p) \/ Stop(p) PROVE NoneSkipped'
  <2>1. /\ file' = file \/ file' = rows[p]
        /\ rows' = [rows EXCEPT ![p] = <<>>] /\ pc' = [pc EXCEPT ![p] = "idle"]
        /\ rec' = [rec EXCEPT ![p] = NoRow]
    BY <1>4 DEF UpsertWrite, Stop
  <2>2. \A i \in DOMAIN file' : file'[i].status # "skipped"
    BY <2>1 DEF NoneSkipped
  <2>3. ASSUME NEW q \in Procs
        PROVE  /\ pc'[q] # "idle" => rec'[q].status # "skipped"
               /\ \A i \in DOMAIN rows'[q] : rows'[q][i].status # "skipped"
    BY <1>0, <2>1 DEF NoneSkipped, TypeOK
  <2> QED BY <2>2, <2>3 DEF NoneSkipped
<1>5. CASE Tick \/ UNCHANGED vars
  BY <1>5 DEF Tick, vars, NoneSkipped
<1> QED BY <1>1, <1>2, <1>3, <1>4, <1>5 DEF Next, Advance

(* Where no follow-up is recorded as skipped, a session that has ended is  *)
(* never the active one, however many commands run at once.                *)
THEOREM EndedIsNotActive ==
  ASSUME "skipped" \notin Results
  PROVE  Spec => []ActiveIsUnfinished
<1>1. Init => NoneSkipped
  BY DEF Init, NoneSkipped
<1>2. OverlayInv /\ NoneSkipped /\ [Next]_vars => NoneSkipped'
  BY NoneSkippedStep
<1>3. OverlayInv /\ [Next]_vars => OverlayInv'
  BY InvStep
<1>4. OverlayInv /\ NoneSkipped => ActiveIsUnfinished
  <2> SUFFICES ASSUME OverlayInv, NoneSkipped, NEW a \in Accounts, NEW i \in DOMAIN file,
                      IsActive(file, a, i)
               PROVE  file[i].task # "completed"
    BY DEF ActiveIsUnfinished
  <2>1. file[i] \in Row /\ file[i].task = TaskFor(file[i].status)
    BY DEF OverlayInv, WellFormed, StepsFit
  <2>2. file[i].status \in {"pendingFunding", "pendingFollowUp"}
    BY <2>1 DEF IsActive, OpenRows, TerminalStatuses, NoneSkipped, Row, Statuses
  <2> QED BY <2>1, <2>2 DEF TaskFor
<1> QED BY InitInv, <1>1, <1>2, <1>3, <1>4, PTL DEF Spec
=============================================================================
