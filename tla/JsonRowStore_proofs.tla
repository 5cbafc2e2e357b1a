------------------------ MODULE JsonRowStore_proofs ------------------------
(***************************************************************************)
(* With every thread in one process, the lock makes the file layer the     *)
(* table its callers take it for; for any number of threads, keys and      *)
(* contents, and with the process dying at any moment.  With any number of *)
(* processes, each one's lock is held exactly while a thread is inside.    *)
(***************************************************************************)
EXTENDS JsonRowStore, TLAPS

(* What a command that is the only user of its storage directory enjoys.   *)
SingleProcess == \A s, t \in Threads : ProcessOf[s] = ProcessOf[t]

-----------------------------------------------------------------------------
(* Reading yields a table whatever the file holds, and putting a record    *)
(* into a table yields a table.                                            *)
LEMMA ParseType == \A content : Parse(content) \in Rows
BY DEF Parse, Rows, NoRows

LEMMA WithRowType == \A content : \A c \in Calls : WithRow(content, c) \in Rows
<1> SUFFICES ASSUME NEW content, NEW c \in Calls
             PROVE  WithRow(content, c) \in Rows
  OBVIOUS
<1>1. Parse(content) \in Rows
  BY ParseType
<1>2. c.key \in Keys /\ c.val \in Vals
  BY DEF Calls
<1> QED BY <1>1, <1>2 DEF WithRow, Rows

-----------------------------------------------------------------------------
(* Every variable keeps its type, and a thread has a record exactly while  *)
(* it is inside upsert: for threads of any number of processes.            *)
LEMMA InitTyped == Init => TypeOK /\ Called
<1>1. NoRows \in Rows /\ NoFile \in Content \cup {NoFile}
  BY DEF NoRows, Rows
<1> QED BY <1>1, ConstantsAssumption DEF Init, TypeOK, Called, Steps

LEMMA TypedStep ==
  ASSUME TypeOK, Called, [Next]_vars
  PROVE  TypeOK' /\ Called'
<1> USE DEF TypeOK, Called, Steps
<1>0. NoRows \in Rows /\ Rows \subseteq Content
  BY DEF NoRows, Rows, Content
<1>1. ASSUME NEW t \in Threads, CallUpsert(t) PROVE TypeOK' /\ Called'
  BY <1>1 DEF CallUpsert
<1>2. ASSUME NEW t \in Threads, Acquire(t) PROVE TypeOK' /\ Called'
  BY <1>2 DEF Acquire
<1>3. ASSUME NEW t \in Threads, ReadRows(t) PROVE TypeOK' /\ Called'
  <2>1. WithRow(main, call[t]) \in Rows
    BY <1>3, WithRowType DEF ReadRows
  <2> QED BY <1>3, <2>1 DEF ReadRows
<1>4. ASSUME NEW t \in Threads, OpenTmp(t) PROVE TypeOK' /\ Called'
  BY <1>4 DEF OpenTmp, Content
<1>5. ASSUME NEW t \in Threads, WriteText(t) PROVE TypeOK' /\ Called'
  <2>1. Overlay(tmp, rows[t]) \subseteq Content /\ Overlay(main, rows[t]) \subseteq Content
    BY <1>0 DEF Overlay, Content
  <2> QED BY <1>5, <2>1 DEF WriteText
<1>6. ASSUME NEW t \in Threads, Rename(t) PROVE TypeOK' /\ Called'
  <2>1. \A u \in Threads : Renamed(handle[u]) \in {"closed", "tmp", "main", "unlinked"}
    BY DEF Renamed
  <2> QED BY <1>0, <1>6, <2>1, ConstantsAssumption DEF Rename, Unlocked
<1>7. ASSUME NEW t \in Threads, RenameRaises(t) PROVE TypeOK' /\ Called'
  BY <1>0, <1>7, ConstantsAssumption DEF RenameRaises, Unlocked
<1>8. ASSUME NEW p \in Processes, Kill(p) PROVE TypeOK' /\ Called'
  BY <1>0, <1>8, ConstantsAssumption DEF Kill
<1>9. CASE UNCHANGED vars
  BY <1>9 DEF vars
<1> QED
  BY <1>1, <1>2, <1>3, <1>4, <1>5, <1>6, <1>7, <1>8, <1>9 DEF Next, UpsertStep

(* Type correctness of the file layer, for any threads and processes.      *)
THEOREM TypeCorrect == Spec => []TypeOK
<1>1. TypeOK /\ Called /\ [Next]_vars => TypeOK' /\ Called'
  BY TypedStep
<1> QED BY InitTyped, <1>1, PTL DEF Spec

-----------------------------------------------------------------------------
(* The lock, for threads of any number of processes.                       *)

LockInv == TypeOK /\ Called /\ LockMeansOneInside

(* A thread comes in.                                                      *)
LEMMA EnterKeepsLock ==
  ASSUME LockInv, NEW t \in Threads, Acquire(t)
  PROVE  LockMeansOneInside'
<1>1. /\ lock' = [lock EXCEPT ![ProcessOf[t]] = TRUE] /\ ~lock[ProcessOf[t]]
      /\ pc' = [pc EXCEPT ![t] = "read"]
      /\ ProcessOf[t] \in Processes
  BY ConstantsAssumption DEF Acquire
<1>2. \A s \in Threads : pc'[s] \in Locked <=> s = t \/ pc[s] \in Locked
  BY <1>1 DEF LockInv, TypeOK, Locked
<1>3. \A p \in Processes : lock'[p] <=> p = ProcessOf[t] \/ lock[p]
  BY <1>1 DEF LockInv, TypeOK
<1>4. \A s \in Threads : ProcessOf[s] = ProcessOf[t] => pc[s] \notin Locked
  BY <1>1 DEF LockInv, LockMeansOneInside
<1> QED BY <1>1, <1>2, <1>3, <1>4 DEF LockInv, LockMeansOneInside

(* A thread goes out, by the rename or by its exception.                   *)
LEMMA LeaveKeepsLock ==
  ASSUME LockInv, NEW t \in Threads, Rename(t) \/ RenameRaises(t)
  PROVE  LockMeansOneInside'
<1>1. /\ lock' = [lock EXCEPT ![ProcessOf[t]] = FALSE] /\ pc[t] \in Locked
      /\ pc' = [pc EXCEPT ![t] = "idle"]
      /\ ProcessOf[t] \in Processes
  BY ConstantsAssumption DEF Rename, RenameRaises, Unlocked, Locked
<1>2. \A s \in Threads : pc'[s] \in Locked <=> s # t /\ pc[s] \in Locked
  BY <1>1 DEF LockInv, TypeOK, Locked
<1>3. \A p \in Processes : lock'[p] <=> p # ProcessOf[t] /\ lock[p]
  BY <1>1 DEF LockInv, TypeOK
<1>4. \A s \in Threads : ProcessOf[s] = ProcessOf[t] => pc'[s] \notin Locked
  BY <1>1, <1>2 DEF LockInv, LockMeansOneInside
<1> QED BY <1>1, <1>2, <1>3, <1>4 DEF LockInv, LockMeansOneInside

(* A process dies: nobody of it is inside, the others are where they were. *)
LEMMA KillKeepsLock ==
  ASSUME LockInv, NEW p \in Processes, Kill(p)
  PROVE  LockMeansOneInside'
<1>1. \A s \in Threads : pc'[s] \in Locked <=> ProcessOf[s] # p /\ pc[s] \in Locked
  BY DEF Kill, Locked
<1>2. \A q \in Processes : lock'[q] <=> q # p /\ lock[q]
  BY DEF Kill, LockInv, TypeOK
<1> QED BY <1>1, <1>2 DEF LockInv, LockMeansOneInside

LEMMA LockStep ==
  ASSUME LockInv, [Next]_vars
  PROVE  LockInv'
<1>1. TypeOK' /\ Called'
  BY TypedStep DEF LockInv
<1>2. ASSUME NEW t \in Threads, CallUpsert(t) \/ ReadRows(t) \/ OpenTmp(t) \/ WriteText(t)
      PROVE  LockMeansOneInside'
  <2>1. lock' = lock /\ \A s \in Threads : pc'[s] \in Locked <=> pc[s] \in Locked
    BY <1>2 DEF CallUpsert, ReadRows, OpenTmp, WriteText, LockInv, TypeOK, Locked
  <2> QED BY <2>1 DEF LockInv, LockMeansOneInside
<1>3. ASSUME UNCHANGED vars PROVE LockMeansOneInside'
  BY <1>3 DEF vars, LockInv, LockMeansOneInside
<1>4. LockMeansOneInside'
  BY <1>2, <1>3, EnterKeepsLock, LeaveKeepsLock, KillKeepsLock DEF Next, UpsertStep
<1> QED BY <1>1, <1>4 DEF LockInv

(* However many processes share the directory, whatever renames raise and  *)
(* whichever processes die: a process's lock is held exactly while one of  *)
(* its threads, and no other, is inside upsert.                            *)
THEOREM LockIsExact == Spec => []LockMeansOneInside
<1>1. Init => LockInv
  BY InitTyped DEF Init, LockInv, LockMeansOneInside, Locked
<1>2. LockInv /\ [Next]_vars => LockInv'
  BY LockStep
<1>3. LockInv => LockMeansOneInside
  BY DEF LockInv
<1> QED BY <1>1, <1>2, <1>3, PTL DEF Spec

-----------------------------------------------------------------------------
(* The invariant of a single process.                                      *)
LEMMA InitInv == Init => OneProcessInv
BY InitTyped DEF Init, OneProcessInv, LockedAlone, WorkIsCurrent, FileAlwaysParses, Locked

LEMMA InvStep ==
  ASSUME SingleProcess, OneProcessInv, [Next]_vars
  PROVE  OneProcessInv'
<1> USE DEF OneProcessInv, LockedAlone, WorkIsCurrent, FileAlwaysParses, Locked
<1>0. TypeOK' /\ Called'
  BY TypedStep
<1>1. ASSUME NEW t \in Threads, CallUpsert(t) PROVE OneProcessInv'
  BY <1>0, <1>1 DEF CallUpsert, TypeOK
<1>2. ASSUME NEW t \in Threads, Acquire(t) PROVE OneProcessInv'
  <2>1. \A s \in Threads : pc[s] \notin Locked
    BY <1>2, ConstantsAssumption DEF Acquire, SingleProcess
  <2>2. \A s \in Threads : pc'[s] \in Locked <=> s = t
    BY <1>2, <2>1 DEF Acquire, TypeOK
  <2>3. lock'[ProcessOf[t]]
    BY <1>2, ConstantsAssumption DEF Acquire, TypeOK
  <2>4. LockedAlone'
    BY <2>2, <2>3
  <2>5. \A s \in Threads : pc'[s] \notin {"open", "write", "rename"}
    BY <1>2, <2>1 DEF Acquire, TypeOK
  <2>6. FileAlwaysParses'
    BY <1>2 DEF Acquire
  <2> QED BY <1>0, <2>4, <2>5, <2>6
<1>3. ASSUME NEW t \in Threads, ReadRows(t) PROVE OneProcessInv'
  <2>1. \A s \in Threads : pc'[s] \in Locked <=> s = t
    BY <1>3 DEF ReadRows, TypeOK
  <2> QED BY <1>0, <1>3, <2>1 DEF ReadRows, TypeOK
<1>4. ASSUME NEW t \in Threads, OpenTmp(t) PROVE OneProcessInv'
  <2>1. \A s \in Threads : pc'[s] \in Locked <=> s = t
    BY <1>4 DEF OpenTmp, TypeOK
  <2> QED BY <1>0, <1>4, <2>1 DEF OpenTmp, TypeOK
<1>5. ASSUME NEW t \in Threads, WriteText(t) PROVE OneProcessInv'
  <2>1. \A s \in Threads : pc'[s] \in Locked <=> s = t
    BY <1>5 DEF WriteText, TypeOK
  <2>2. tmp' = rows[t] /\ UNCHANGED main
    BY <1>5 DEF WriteText, Overlay
  <2> QED BY <1>0, <1>5, <2>1, <2>2 DEF WriteText, TypeOK
<1>6. ASSUME NEW t \in Threads, Rename(t) PROVE OneProcessInv'
  <2>1. \A s \in Threads : pc'[s] \notin Locked
    BY <1>6 DEF Rename, TypeOK
  <2>2. main' \in Rows
    BY <1>6 DEF Rename, TypeOK
  <2> QED BY <1>0, <2>1, <2>2
<1>7. ASSUME NEW t \in Threads, RenameRaises(t) PROVE OneProcessInv'
  <2>1. tmp \in Rows
    BY <1>7 DEF RenameRaises, TypeOK
  <2> QED BY <1>7, <2>1, ConstantsAssumption DEF RenameRaises
<1>8. ASSUME NEW p \in Processes, Kill(p) PROVE OneProcessInv'
  <2>1. \A t \in Threads : ProcessOf[t] = p
    BY <1>8 DEF Kill, SingleProcess
  <2>2. \A t \in Threads : pc'[t] = "idle"
    BY <1>8, <2>1 DEF Kill
  <2>3. UNCHANGED main
    BY <1>8 DEF Kill
  <2> QED BY <1>0, <2>2, <2>3
<1>9. CASE UNCHANGED vars
  BY <1>0, <1>9 DEF vars
<1> QED
  BY <1>1, <1>2, <1>3, <1>4, <1>5, <1>6, <1>7, <1>8, <1>9 DEF Next, UpsertStep

(* In one process a reader never meets a half-written journal: the file    *)
(* parses in every state, also after the process died inside upsert.       *)
THEOREM OneProcessFileParses ==
  ASSUME SingleProcess
  PROVE  Spec => [](TypeOK /\ FileAlwaysParses)
<1>1. OneProcessInv /\ [Next]_vars => OneProcessInv'
  BY InvStep
<1>2. OneProcessInv => TypeOK /\ FileAlwaysParses
  BY DEF OneProcessInv
<1> QED BY InitInv, <1>1, <1>2, PTL DEF Spec

-----------------------------------------------------------------------------
(* Refinement of RowStore.                                                 *)
LEMMA InitRefines == Init => Table!StoreInit
BY ConstantsAssumption DEF Init, Table!StoreInit, Parse, NoRows, Table!NoRows

LEMMA StepRefines ==
  ASSUME SingleProcess, OneProcessInv, OneProcessInv', [Next]_vars
  PROVE  [Table!StoreNext]_(Table!storeVars)
<1> USE DEF OneProcessInv, Table!storeVars
<1>1. ASSUME NEW t \in Threads, CallUpsert(t) PROVE Table!Call(t)
  <2>1. call[t] = NoCall
    BY <1>1 DEF CallUpsert, Called, TypeOK
  <2> QED BY <1>1, <2>1 DEF CallUpsert, Table!Call, Calls, Table!Calls
<1>2. ASSUME NEW t \in Threads, Rename(t) PROVE Table!Commit(t)
  <2>1. call[t] \in Calls
    BY <1>2 DEF Rename, Called
  <2>2. main' = WithRow(main, call[t])
    BY <1>2 DEF Rename, WorkIsCurrent
  <2>3. Parse(main') = WithRow(main, call[t])
    BY <2>1, <2>2, WithRowType DEF Parse
  <2> QED BY <1>2, <2>1, <2>3, ConstantsAssumption DEF Rename, Table!Commit, WithRow
<1>3. ASSUME NEW t \in Threads, RenameRaises(t) PROVE FALSE
  BY <1>3, ConstantsAssumption DEF RenameRaises, WorkIsCurrent, TypeOK
<1>4. ASSUME NEW p \in Processes, Kill(p) PROVE Table!Abandon({t \in Threads : ProcessOf[t] = p})
  BY <1>4 DEF Kill, Table!Abandon
<1>5. ASSUME NEW t \in Threads, Acquire(t) \/ ReadRows(t) \/ OpenTmp(t)
      PROVE  UNCHANGED Table!storeVars
  BY <1>5 DEF Acquire, ReadRows, OpenTmp
<1>6. ASSUME NEW t \in Threads, WriteText(t) PROVE UNCHANGED Table!storeVars
  BY <1>6 DEF WriteText, WorkIsCurrent
<1>7. CASE UNCHANGED vars
  BY <1>7 DEF vars
<1>8. \A p : {t \in Threads : ProcessOf[t] = p} \in SUBSET Threads
  OBVIOUS
<1> QED
  BY <1>1, <1>2, <1>3, <1>4, <1>5, <1>6, <1>7, <1>8 DEF Next, UpsertStep, Table!StoreNext

(* In one process upsert is the atomic single-row update its callers take  *)
(* it for: no row of another key is lost, none is half applied.            *)
THEOREM OneProcessIsRowStore ==
  ASSUME SingleProcess
  PROVE  Spec => IsRowStore
<1>1. OneProcessInv /\ [Next]_vars => OneProcessInv'
  BY InvStep
<1>2. OneProcessInv /\ OneProcessInv' /\ [Next]_vars => [Table!StoreNext]_(Table!storeVars)
  BY StepRefines
<1> QED BY InitInv, InitRefines, <1>1, <1>2, PTL DEF Spec, IsRowStore, Table!StoreSpec
=============================================================================
