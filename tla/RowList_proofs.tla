--------------------------- MODULE RowList_proofs ---------------------------
(***************************************************************************)
(* What upsert does to a list of rows, for rows of any kind.               *)
(***************************************************************************)
EXTENDS RowList, TLAPS

(* A record with a new id goes to the end. *)
LEMMA PutAppends ==
  ASSUME NEW Row, NEW table \in Seq(Row), NEW r \in Row,
         \A i \in DOMAIN table : table[i].id # r.id
  PROVE  Put(table, r) = Append(table, r)
BY DEF Put

(* A record with a known id takes the place of the one row of that id. *)
LEMMA PutReplaces ==
  ASSUME NEW Row, NEW table \in Seq(Row), NEW r \in Row, UniqueIds(table),
         NEW k \in DOMAIN table, table[k].id = r.id
  PROVE  Put(table, r) = [table EXCEPT ![k] = r]
<1>1. Put(table, r) =
        [i \in DOMAIN table |->
           IF table[i].id = r.id /\ \A j \in 1 .. (i - 1) : table[j].id # r.id
           THEN r ELSE table[i]]
  BY DEF Put
<1>2. ASSUME NEW i \in DOMAIN table
      PROVE  (table[i].id = r.id /\ \A j \in 1 .. (i - 1) : table[j].id # r.id) <=> i = k
  <2>1. table[i].id = r.id <=> i = k
    BY DEF UniqueIds
  <2>2. ASSUME NEW j \in 1 .. (k - 1) PROVE table[j].id # r.id
    <3>1. j \in DOMAIN table /\ j # k
      BY <2>2
    <3> QED BY <3>1 DEF UniqueIds
  <2> QED BY <2>1, <2>2
<1> QED BY <1>1, <1>2

(* upsert keeps one row per id, and every row it leaves is the record or a *)
(* row that was there, at the same place.                                  *)
LEMMA PutKeepsTable ==
  ASSUME NEW Row, NEW table \in Seq(Row), NEW r \in Row, UniqueIds(table)
  PROVE  /\ Put(table, r) \in Seq(Row)
         /\ UniqueIds(Put(table, r))
         /\ DOMAIN table \subseteq DOMAIN Put(table, r)
         /\ \A i \in DOMAIN Put(table, r) :
              \/ Put(table, r)[i] = r
              \/ i \in DOMAIN table /\ Put(table, r)[i] = table[i]
         /\ \E i \in DOMAIN Put(table, r) : Put(table, r)[i] = r
         /\ \A i \in DOMAIN table :
              table[i].id # r.id => Put(table, r)[i] = table[i]
<1>1. CASE \E k \in DOMAIN table : table[k].id = r.id
  <2>1. PICK k \in DOMAIN table : table[k].id = r.id
    BY <1>1
  <2>2. Put(table, r) = [table EXCEPT ![k] = r]
    BY <2>1, PutReplaces
  <2>3. [table EXCEPT ![k] = r] \in Seq(Row)
    OBVIOUS
  <2>4. UniqueIds([table EXCEPT ![k] = r])
    BY <2>1 DEF UniqueIds
  <2> QED BY <2>1, <2>2, <2>3, <2>4
<1>2. CASE \A k \in DOMAIN table : table[k].id # r.id
  <2>1. Put(table, r) = Append(table, r)
    BY <1>2, PutAppends
  <2>2. Append(table, r) \in Seq(Row)
    OBVIOUS
  <2>3. UniqueIds(Append(table, r))
    BY <1>2 DEF UniqueIds
  <2>4. Append(table, r)[Len(table) + 1] = r
    OBVIOUS
  <2> QED BY <2>1, <2>2, <2>3, <2>4
<1> QED BY <1>1, <1>2
=============================================================================
