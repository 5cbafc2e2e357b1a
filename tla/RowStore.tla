------------------------------ MODULE RowStore ------------------------------
(***************************************************************************)
(* What the callers of PositionStorage and SessionStorage rely on: a table *)
(* of rows in which upsert replaces or adds exactly one row, at one        *)
(* instant between its call and its return, or (when the calling process   *)
(* dies or the call raises) not at all.  JsonRowStore implements it.       *)
(***************************************************************************)
CONSTANTS
  Threads,   \* the callers
  Keys,      \* position_id / session_id values
  Vals,      \* contents a row may have
  Absent,    \* marks a key without a row
  NoCall     \* marks a thread that is not inside upsert

Rows == [Keys -> Vals \cup {Absent}]
NoRows == [k \in Keys |-> Absent]
Calls == [key : Keys, val : Vals]

VARIABLES
  store,     \* the table
  call       \* per thread, the upsert it is executing

storeVars == <<store, call>>

StoreInit ==
  /\ store = NoRows
  /\ call = [t \in Threads |-> NoCall]

(* A thread enters upsert(record). *)
Call(t) ==
  /\ call[t] = NoCall
  /\ \E c \in Calls : call' = [call EXCEPT ![t] = c]
  /\ UNCHANGED store

(* The upsert takes effect and returns. *)
Commit(t) ==
  /\ call[t] # NoCall
  /\ store' = [store EXCEPT ![call[t].key] = call[t].val]
  /\ call' = [call EXCEPT ![t] = NoCall]

(* The upserts of a dying process end without any effect. *)
Abandon(dead) ==
  /\ call' = [t \in Threads |-> IF t \in dead THEN NoCall ELSE call[t]]
  /\ UNCHANGED store

StoreNext ==
  \/ \E t \in Threads : Call(t) \/ Commit(t)
  \/ \E dead \in SUBSET Threads : Abandon(dead)

StoreSpec == StoreInit /\ [][StoreNext]_storeVars
=============================================================================
