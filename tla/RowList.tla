------------------------------- MODULE RowList -------------------------------
(***************************************************************************)
(* The list of rows both journals keep in memory between reading their     *)
(* file and writing it: PositionStorage.upsert and SessionStorage.upsert   *)
(* are the same loop, over position_id and session_id (here: id).          *)
(***************************************************************************)
EXTENDS Naturals, Sequences

(* The list after upsert: the first row of that id is replaced in place,   *)
(* or the record goes to the end.                                          *)
PutAlwaysAppends(table, r) == Append(table, r)
PutFilterSwapped(table, r) == Append(SelectSeq(table, LAMBDA x : x.id = r.id), r)
Put(table, r) ==
  IF \E i \in DOMAIN table : table[i].id = r.id
  THEN [i \in DOMAIN table |->
          IF table[i].id = r.id /\ \A j \in 1 .. (i - 1) : table[j].id # r.id
          THEN r ELSE table[i]]
  ELSE Append(table, r)

(* No id has two rows. *)
UniqueIds(table) ==
  \A i, j \in DOMAIN table : table[i].id = table[j].id => i = j
=============================================================================
