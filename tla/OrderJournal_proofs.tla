------------------------ MODULE OrderJournal_proofs ------------------------
(***************************************************************************)
(* Theorems about buys, listings and the positions journal, for any        *)
(* numbers of processes, orders and positions and any retry bounds.        *)
(***************************************************************************)
EXTENDS OrderJournal, RowList_proofs

(* The orders a list of rows names are among those the exchange has taken. *)
Placed(table, taken) == \A i \in DOMAIN table : taken[table[i].order] # "unplaced"

(* What a command has in memory at its step.                               *)
MemoryFits ==
  \A p \in Procs :
    /\ pc[p] \in {"post", "poll", "persist"} => order[p] \in Orders
    /\ pc[p] \in {"poll", "persist"} => orders[order[p]] # "unplaced"
    /\ pc[p] = "persist" => answer[p] \in OrderStatuses
    /\ pc[p] \in {"row", "mark"} => row[p] \in DOMAIN local[p]
    /\ Placed(local[p], orders)

JournalInv == TypeOK /\ UniqueIds(journal) /\ Placed(journal, orders) /\ MemoryFits

(* The exchange never forgets an order.                                    *)
Remembers == \A h \in Orders : orders[h] # "unplaced" => orders'[h] # "unplaced"

-----------------------------------------------------------------------------
(* Posting an order places it or leaves all orders as they were.           *)
LEMMA TakenPlaces ==
  ASSUME TypeOK, NEW h \in Orders, orders' \in Taken(h)
  PROVE  /\ orders' \in [Orders -> OrderStatuses \cup {"unplaced"}]
         /\ orders'[h] \in OrderStatuses
         /\ Remembers
BY DEF Taken, TypeOK, OrderStatuses, Remembers

(* While the exchange remembers, lists of rows keep their meaning.         *)
LEMMA PlacedStays ==
  ASSUME NEW table \in Seq(Row), Placed(table, orders), Remembers
  PROVE  Placed(table, orders')
<1>1. ASSUME NEW i \in DOMAIN table PROVE orders'[table[i].order] # "unplaced"
  <2>1. table[i] \in Row
    OBVIOUS
  <2>2. table[i].order \in Orders
    BY <2>1 DEF Row
  <2> QED BY <2>2 DEF Placed, Remembers
<1> QED BY <1>1 DEF Placed

LEMMA JournalStays ==
  ASSUME TypeOK, Placed(journal, orders), Remembers, journal' = journal
  PROVE  Placed(journal, orders)'
<1>1. Placed(journal, orders')
  BY PlacedStays DEF TypeOK
<1> QED BY <1>1 DEF Placed

LEMMA StateStays ==
  ASSUME TypeOK, Placed(journal, orders), MemoryFits, Remembers,
         journal' = journal, local' = local
  PROVE  /\ Placed(journal, orders)'
         /\ \A q \in Procs : Placed(local[q], orders)'
<1>1. ASSUME NEW q \in Procs PROVE Placed(local[q], orders)'
  <2>1. Placed(local[q], orders) /\ local[q] \in Seq(Row)
    BY DEF MemoryFits, TypeOK
  <2>2. Placed(local[q], orders')
    BY <2>1, PlacedStays
  <2> QED BY <2>2 DEF Placed
<1> QED BY <1>1, JournalStays

LEMMA FinishedMemory ==
  ASSUME TypeOK, MemoryFits, NEW p \in Procs, Finish(p), Remembers,
         orders' \in [Orders -> OrderStatuses \cup {"unplaced"}]
  PROVE  /\ MemoryFits'
         /\ pc' \in [Procs -> Steps]
         /\ order' \in [Procs -> Orders \cup {NoOrder}]
         /\ tries' \in [Procs -> Nat]
         /\ answer' \in [Procs -> OrderStatuses \cup {NoAnswer}]
         /\ local' \in [Procs -> Seq(Row)]
         /\ remote' \in [Procs -> [Trades -> Holdings]]
         /\ row' \in [Procs -> Nat]
<1>1. ASSUME NEW q \in Procs PROVE Placed(local'[q], orders')
  <2>1. local'[q] = local[q] \/ local'[q] = <<>>
    BY DEF Finish, TypeOK
  <2>2. Placed(local[q], orders) /\ local[q] \in Seq(Row)
    BY DEF MemoryFits, TypeOK
  <2>3. Placed(local[q], orders')
    BY <2>2, PlacedStays
  <2> QED BY <2>1, <2>3 DEF Placed
<1>2. MemoryFits'
  BY <1>1 DEF MemoryFits, Finish, TypeOK, Remembers
<1>3. Nothing \in [Trades -> Holdings]
  BY DEF Nothing, Holdings
<1> QED BY <1>2, <1>3 DEF Finish, TypeOK, Steps

(* The row a listing writes back is a row, of the order it had.            *)
LEMMA RefreshedRow ==
  ASSUME TypeOK, MemoryFits, NEW p \in Procs, pc[p] = "mark"
  PROVE  /\ Refreshed(p) \in Row
         /\ orders[Refreshed(p).order] # "unplaced"
<1>1. local[p][row[p]] \in Row /\ orders[local[p][row[p]].order] # "unplaced"
  BY DEF TypeOK, MemoryFits, Placed
<1>2. Resolved(local[p][row[p]], remote[p], answer[p]) \in OrderStatuses \cup Holdings
  BY <1>1 DEF Resolved, TypeOK, Row, Listed
<1>3. DEFINE stored == IF answer[p] = NoAnswer THEN local[p][row[p]].orderStatus ELSE answer[p]
<1>4. stored \in OrderStatuses
  BY <1>1 DEF TypeOK, Row
<1>5. Refreshed(p) = [local[p][row[p]] EXCEPT
                        !.status = Resolved(local[p][row[p]], remote[p], answer[p]),
                        !.orderStatus = stored]
  BY <1>1 DEF Refreshed, Row
<1> HIDE DEF stored
<1> QED BY <1>1, <1>2, <1>4, <1>5 DEF Row

(* upsert of such a row keeps the journal in order.                        *)
LEMMA PutPlaced ==
  ASSUME TypeOK, UniqueIds(journal), Placed(journal, orders),
         NEW r \in Row, orders[r.order] # "unplaced"
  PROVE  /\ Put(journal, r) \in Seq(Row)
         /\ UniqueIds(Put(journal, r))
         /\ Placed(Put(journal, r), orders)
<1>1. journal \in Seq(Row)
  BY DEF TypeOK
<1>2. /\ Put(journal, r) \in Seq(Row)
      /\ UniqueIds(Put(journal, r))
      /\ \A i \in DOMAIN Put(journal, r) :
           \/ Put(journal, r)[i] = r
           \/ i \in DOMAIN journal /\ Put(journal, r)[i] = journal[i]
  BY <1>1, PutKeepsTable
<1> QED BY <1>2 DEF Placed

-----------------------------------------------------------------------------
LEMMA InitInv == Init => JournalInv
BY DEF Init, JournalInv, TypeOK, UniqueIds, Placed, MemoryFits, Steps, Nothing, Holdings,
       exchange, memory

(* Steps of a buy. *)
LEMMA BuyKeepsInv ==
  ASSUME JournalInv, NEW p \in Procs, SignOrder(p) \/ BuyStep(p)
  PROVE  JournalInv'
<1> USE DEF JournalInv
<1>1. CASE SignOrder(p)
  <2>1. TypeOK'
    BY <1>1 DEF SignOrder, Goto, TypeOK, Steps
  <2>2. MemoryFits'
    BY <1>1 DEF SignOrder, Goto, MemoryFits, TypeOK, Placed
  <2> QED BY <1>1, <2>1, <2>2 DEF SignOrder, Placed
<1>2. CASE PostAnswered(p)
  <2>1. order[p] \in Orders
    BY <1>2 DEF PostAnswered, MemoryFits
  <2>2. /\ orders' \in [Orders -> OrderStatuses \cup {"unplaced"}]
        /\ orders'[order[p]] \in OrderStatuses /\ Remembers
    BY <1>2, <2>1, TakenPlaces DEF PostAnswered
  <2>3. TypeOK'
    BY <1>2, <2>2 DEF PostAnswered, Goto, TypeOK, Steps
  <2>4. \A q \in Procs : Placed(local[q], orders)'
    BY <1>2, <2>2, StateStays DEF PostAnswered
  <2>5. MemoryFits'
    BY <1>2, <2>1, <2>2, <2>4 DEF PostAnswered, Goto, MemoryFits, TypeOK, OrderStatuses, Remembers
  <2>6. Placed(journal, orders)'
    BY <1>2, <2>2, StateStays DEF PostAnswered
  <2> QED BY <1>2, <2>3, <2>5, <2>6 DEF PostAnswered
<1>3. CASE PostRetried(p)
  <2>1. order[p] \in Orders
    BY <1>3 DEF PostRetried, MemoryFits
  <2>2. orders' \in [Orders -> OrderStatuses \cup {"unplaced"}] /\ Remembers
    BY <1>3, <2>1, TakenPlaces DEF PostRetried, TypeOK, Remembers
  <2>3. TypeOK'
    BY <1>3, <2>2 DEF PostRetried, TypeOK
  <2>4. MemoryFits'
    BY <1>3, <2>2, StateStays DEF PostRetried, MemoryFits, TypeOK, Remembers
  <2>5. Placed(journal, orders)'
    BY <1>3, <2>2, StateStays DEF PostRetried
  <2> QED BY <1>3, <2>3, <2>4, <2>5 DEF PostRetried
<1>4. CASE PostRaises(p)
  <2>1. order[p] \in Orders
    BY <1>4 DEF PostRaises, MemoryFits
  <2>2. orders' \in [Orders -> OrderStatuses \cup {"unplaced"}] /\ Remembers
    BY <1>4, <2>1, TakenPlaces DEF PostRaises, TypeOK, Remembers
  <2>3. Finish(p) /\ UNCHANGED <<held, signed, journal>>
    BY <1>4 DEF PostRaises
  <2>4. TypeOK' /\ MemoryFits'
    BY <2>2, <2>3, FinishedMemory DEF TypeOK
  <2>5. Placed(journal, orders)'
    BY <2>2, <2>3, JournalStays
  <2> QED BY <2>3, <2>4, <2>5
<1>5. CASE Poll(p)
  <2>1. /\ order[p] \in Orders /\ orders[order[p]] \in OrderStatuses
        /\ UNCHANGED <<orders, held, signed, journal, order, local, remote, row>>
    BY <1>5 DEF Poll, MemoryFits, TypeOK, exchange
  <2>2. TypeOK'
    BY <1>5, <2>1 DEF Poll, Goto, TypeOK, Steps
  <2>3. MemoryFits'
    BY <1>5, <2>1 DEF Poll, Goto, MemoryFits, TypeOK, Placed
  <2> QED BY <2>1, <2>2, <2>3 DEF Placed
<1>6. CASE PollRaises(p)
  <2>1. Finish(p) /\ UNCHANGED <<orders, held, signed, journal>> /\ Remembers
    BY <1>6 DEF PollRaises, exchange, Remembers
  <2>2. TypeOK' /\ MemoryFits'
    BY <2>1, FinishedMemory DEF TypeOK
  <2> QED BY <2>1, <2>2 DEF Placed
<1>7. CASE Persist(p)
  <2>1. Finish(p) /\ UNCHANGED <<orders, held, signed>> /\ Remembers
    BY <1>7 DEF Persist, exchange, Remembers
  <2> DEFINE r == [id |-> TradeOf[order[p]], order |-> order[p],
                   orderStatus |-> answer[p], status |-> "OPEN"]
  <2>2. r \in Row /\ orders[r.order] # "unplaced" /\ journal' = Put(journal, r)
    BY <1>7, JournalAssumption DEF Persist, MemoryFits, Row, OrderStatuses
  <2>3. journal' \in Seq(Row) /\ UniqueIds(journal') /\ Placed(journal', orders)
    BY <2>2, PutPlaced
  <2>4. TypeOK' /\ MemoryFits'
    BY <2>1, <2>3, FinishedMemory DEF TypeOK
  <2> QED BY <2>1, <2>3, <2>4 DEF Placed
<1> QED BY <1>1, <1>2, <1>3, <1>4, <1>5, <1>6, <1>7 DEF BuyStep

(* Steps of a listing. *)
LEMMA ListingKeepsInv ==
  ASSUME JournalInv, NEW p \in Procs, ListLocal(p) \/ ListStep(p)
  PROVE  JournalInv'
<1> USE DEF JournalInv
<1>1. CASE ListLocal(p)
  <2>1. TypeOK'
    BY <1>1 DEF ListLocal, Goto, TypeOK, Steps, exchange
  <2>2. MemoryFits'
    BY <1>1 DEF ListLocal, Goto, MemoryFits, TypeOK, Placed, exchange
  <2> QED BY <1>1, <2>1, <2>2 DEF ListLocal, Placed, exchange
<1>2. CASE FetchPositions(p) /\ local[p] = <<>>
  <2>1. Finish(p) /\ UNCHANGED <<orders, held, signed, journal>> /\ Remembers
    BY <1>2 DEF FetchPositions, exchange, Remembers
  <2> QED BY <2>1, FinishedMemory DEF TypeOK, Placed
<1>3. CASE FetchPositions(p) /\ local[p] # <<>>
  <2>1. /\ remote' = [remote EXCEPT ![p] = held]
        /\ row' = [row EXCEPT ![p] = 1]
        /\ pc' = [pc EXCEPT ![p] = "row"]
        /\ UNCHANGED <<orders, held, signed, journal, order, tries, answer, local>>
    BY <1>3 DEF FetchPositions, exchange, Goto
  <2>2. 1 \in DOMAIN local[p]
    BY <1>3 DEF TypeOK
  <2>3. TypeOK'
    BY <2>1 DEF TypeOK, Steps
  <2>4. MemoryFits'
    BY <2>1, <2>2 DEF MemoryFits, TypeOK, Placed
  <2> QED BY <2>1, <2>3, <2>4 DEF Placed
<1>4. CASE FetchOrder(p) \/ FetchOrderFails(p)
  <2>1. /\ pc[p] = "row"
        /\ pc' = [pc EXCEPT ![p] = "mark"]
        /\ UNCHANGED <<orders, held, signed, journal, order, tries, local, remote, row>>
    BY <1>4 DEF FetchOrder, FetchOrderFails, Goto, exchange
  <2>2. orders[local[p][row[p]].order] \in OrderStatuses
    <3>1. local[p][row[p]].order \in Orders /\ orders[local[p][row[p]].order] # "unplaced"
      <4>1. local[p] \in Seq(Row) /\ row[p] \in DOMAIN local[p]
        BY <2>1 DEF MemoryFits, TypeOK
      <4>2. local[p][row[p]] \in Row
        BY <4>1
      <4> QED BY <4>1, <4>2 DEF MemoryFits, Placed, Row
    <3> QED BY <3>1 DEF TypeOK
  <2>3. answer' \in [Procs -> OrderStatuses \cup {NoAnswer}]
    BY <1>4, <2>2 DEF FetchOrder, FetchOrderFails, TypeOK
  <2>4. TypeOK'
    BY <2>1, <2>3 DEF TypeOK, Steps
  <2>5. MemoryFits'
    <3>1. \A q \in Procs \ {p} : answer'[q] = answer[q]
      BY <1>4 DEF FetchOrder, FetchOrderFails, TypeOK
    <3> QED BY <2>1, <3>1 DEF MemoryFits, TypeOK, Placed
  <2> QED BY <2>1, <2>4, <2>5 DEF Placed
<1>5. CASE WriteBack(p)
  <2>1. Refreshed(p) \in Row /\ orders[Refreshed(p).order] # "unplaced"
    BY <1>5, RefreshedRow DEF WriteBack
  <2>2. journal' \in Seq(Row) /\ UniqueIds(journal') /\ Placed(journal', orders)
    BY <1>5, <2>1, PutPlaced DEF WriteBack, TypeOK
  <2>3. UNCHANGED <<orders, held, signed>> /\ Remembers
    BY <1>5 DEF WriteBack, exchange, Remembers
  <2>4. CASE Finish(p)
    BY <2>2, <2>3, <2>4, FinishedMemory DEF TypeOK, Placed
  <2>5. CASE /\ row[p] # Len(local[p])
             /\ row' = [row EXCEPT ![p] = @ + 1]
             /\ answer' = [answer EXCEPT ![p] = NoAnswer]
             /\ pc' = [pc EXCEPT ![p] = "row"]
             /\ UNCHANGED <<order, tries, local, remote>>
    <3>1. TypeOK'
      BY <2>2, <2>3, <2>5 DEF TypeOK, Steps
    <3>2. row[p] + 1 \in DOMAIN local[p]
      BY <1>5, <2>5 DEF WriteBack, MemoryFits, TypeOK
    <3>3. MemoryFits'
      BY <2>3, <2>5, <3>2 DEF MemoryFits, TypeOK, Placed
    <3> QED BY <2>2, <2>3, <3>1, <3>3 DEF Placed
  <2> QED BY <1>5, <2>4, <2>5 DEF WriteBack, Goto
<1>6. CASE ListRaises(p)
  <2>1. Finish(p) /\ UNCHANGED <<orders, held, signed, journal>> /\ Remembers
    BY <1>6 DEF ListRaises, exchange, Remembers
  <2> QED BY <2>1, FinishedMemory DEF TypeOK, Placed
<1> QED BY <1>1, <1>2, <1>3, <1>4, <1>5, <1>6 DEF ListStep

(* The exchange moves on. *)
LEMMA ExchangeKeepsInv ==
  ASSUME JournalInv,
         (\E h \in Orders : MoveOrder(h)) \/ (\E t \in Trades : MovePosition(t))
  PROVE  JournalInv'
<1> USE DEF JournalInv
<1>1. /\ orders' \in [Orders -> OrderStatuses \cup {"unplaced"}]
      /\ held' \in [Trades -> Holdings]
      /\ Remembers
  BY DEF MoveOrder, MovePosition, TypeOK, OrderStatuses, Holdings, Remembers
<1>2. UNCHANGED <<signed, journal, pc, order, tries, answer, local, remote, row>>
  BY DEF MoveOrder, MovePosition, memory
<1>3. Placed(journal, orders)' /\ \A q \in Procs : Placed(local[q], orders)'
  BY <1>1, <1>2, StateStays
<1>4. TypeOK'
  BY <1>1, <1>2 DEF TypeOK
<1>5. MemoryFits'
  BY <1>1, <1>2, <1>3 DEF MemoryFits, TypeOK, Remembers
<1> QED BY <1>2, <1>3, <1>4, <1>5

LEMMA InvStep == JournalInv /\ [Next]_vars => JournalInv'
<1> SUFFICES ASSUME JournalInv, [Next]_vars PROVE JournalInv'
  OBVIOUS
<1>1. ASSUME NEW p \in Procs, Die(p) PROVE JournalInv'
  <2>1. Finish(p) /\ UNCHANGED <<orders, held, signed, journal>> /\ Remembers
    BY <1>1 DEF Die, exchange, Remembers
  <2> QED BY <2>1, FinishedMemory DEF JournalInv, TypeOK, Placed
<1>2. CASE UNCHANGED vars
  BY <1>2 DEF vars, exchange, memory, JournalInv, TypeOK, MemoryFits, Placed
<1> QED
  BY <1>1, <1>2, BuyKeepsInv, ListingKeepsInv, ExchangeKeepsInv DEF Next

(* Type correctness of buys and listings.                                  *)
THEOREM TypeCorrect == Spec => []TypeOK
<1>1. JournalInv => TypeOK
  BY DEF JournalInv
<1> QED BY InitInv, InvStep, <1>1, PTL DEF Spec

(* However many buys and listings run at once, and wherever they fail, the *)
(* journal has one row per position and names only orders the exchange     *)
(* has taken.                                                              *)
THEOREM JournalSound == Spec => [](JournalNamesPlacedOrders /\ OneRowPerPosition)
<1>1. JournalInv => JournalNamesPlacedOrders /\ OneRowPerPosition
  BY DEF JournalInv, Placed, JournalNamesPlacedOrders, OneRowPerPosition
<1> QED BY InitInv, InvStep, <1>1, PTL DEF Spec

(* However many buys and listings run at once, and wherever they fail,     *)
(* each market and outcome has one row in the journal.                     *)
THEOREM OneRowEach == Spec => []OneRowPerPosition
BY JournalSound, PTL

-----------------------------------------------------------------------------
(* Commands one at a time. *)
OneCommand == \A p, q \in Procs : p = q

(* Two lists bind the same positions to the same orders, row by row.       *)
SameBindings(table, other) ==
  /\ DOMAIN table = DOMAIN other
  /\ \A i \in DOMAIN table : /\ table[i].id = other[i].id
                             /\ table[i].order = other[i].order

(* What a listing has read is still what the journal binds. *)
ListingIsCurrent ==
  \A p \in Procs : pc[p] \in {"fetch", "row", "mark"} => SameBindings(journal, local[p])

AloneInv == JournalInv /\ ListingIsCurrent

(* A listing's upsert keeps every row's position and order.                *)
LEMMA WriteBackBinds ==
  ASSUME AloneInv, NEW p \in Procs, WriteBack(p)
  PROVE  SameBindings(journal', journal)
<1> DEFINE r == Refreshed(p)
<1>1. /\ pc[p] = "mark" /\ row[p] \in DOMAIN local[p] /\ local[p][row[p]] \in Row
      /\ journal \in Seq(Row) /\ UniqueIds(journal)
      /\ SameBindings(journal, local[p])
  BY DEF WriteBack, AloneInv, JournalInv, TypeOK, MemoryFits, ListingIsCurrent
<1>2. r \in Row
  BY <1>1, RefreshedRow DEF AloneInv, JournalInv
<1>3. r.id = local[p][row[p]].id /\ r.order = local[p][row[p]].order
  BY <1>1 DEF Refreshed, Row
<1>4. row[p] \in DOMAIN journal /\ journal[row[p]].id = r.id /\ journal[row[p]].order = r.order
  BY <1>1, <1>3 DEF SameBindings
<1>5. Put(journal, r) = [journal EXCEPT ![row[p]] = r]
  BY <1>1, <1>2, <1>4, PutReplaces
<1>6. journal' = journal \/ journal' = [journal EXCEPT ![row[p]] = r]
  BY <1>5 DEF WriteBack
<1> HIDE DEF r
<1> QED BY <1>1, <1>4, <1>6 DEF SameBindings

LEMMA AloneStep ==
  ASSUME OneCommand, AloneInv, [Next]_vars
  PROVE  AloneInv'
<1>1. JournalInv'
  BY InvStep DEF AloneInv
<1>2. ASSUME NEW p \in Procs, pc'[p] \in {"fetch", "row", "mark"}
      PROVE  SameBindings(journal', local'[p])
  <2>1. TypeOK /\ ListingIsCurrent /\ \A q \in Procs : q = p
    BY DEF AloneInv, JournalInv, OneCommand
  <2>2. CASE ListLocal(p)
    BY <2>1, <2>2 DEF ListLocal, TypeOK, exchange, SameBindings
  <2>3. CASE WriteBack(p)
    <3>1. local' = local /\ pc[p] = "mark"
      BY <1>2, <2>1, <2>3 DEF WriteBack, Finish, TypeOK
    <3>2. SameBindings(journal', journal) /\ SameBindings(journal, local[p])
      BY <2>1, <2>3, <3>1, WriteBackBinds DEF ListingIsCurrent
    <3> QED BY <3>1, <3>2 DEF SameBindings
  <2>4. CASE FetchPositions(p) \/ FetchOrder(p) \/ FetchOrderFails(p)
    <3>1. journal' = journal /\ local' = local /\ pc[p] \in {"fetch", "row"}
      BY <1>2, <2>1, <2>4
      DEF FetchPositions, FetchOrder, FetchOrderFails, Finish, TypeOK
    <3> QED BY <2>1, <3>1 DEF ListingIsCurrent
  <2>5. CASE SignOrder(p) \/ BuyStep(p) \/ ListRaises(p) \/ Die(p)
    <3>1. pc'[p] \notin {"fetch", "row", "mark"}
      BY <2>1, <2>5
      DEF SignOrder, BuyStep, PostAnswered, PostRetried, PostRaises, Poll, PollRaises,
          Persist, ListRaises, Die, Finish, Goto, TypeOK
    <3> QED BY <1>2, <3>1
  <2>6. CASE \/ \E h \in Orders : MoveOrder(h)
             \/ \E t \in Trades : MovePosition(t)
             \/ UNCHANGED vars
    <3>1. UNCHANGED <<journal, pc, local>>
      BY <2>6 DEF MoveOrder, MovePosition, vars, memory
    <3> QED BY <1>2, <2>1, <3>1 DEF ListingIsCurrent
  <2> QED BY <2>1, <2>2, <2>3, <2>4, <2>5, <2>6 DEF Next, ListStep
<1> QED BY <1>1, <1>2 DEF AloneInv, ListingIsCurrent

(* With commands one at a time a listing leaves every position bound to    *)
(* the order its last buy placed.                                          *)
THEOREM ListingAlone == ASSUME OneCommand PROVE Spec => ListingKeepsOrders
<1>1. Init => AloneInv
  BY InitInv DEF AloneInv, ListingIsCurrent, Init
<1>2. AloneInv /\ [Next]_vars => AloneInv'
  BY AloneStep
<1>3. AloneInv => \A p \in Procs : WriteBack(p) =>
        \A t \in Trades : OrderOf(journal', t) = OrderOf(journal, t)
  <2> SUFFICES ASSUME AloneInv, NEW p \in Procs, WriteBack(p), NEW t \in Trades
               PROVE  OrderOf(journal', t) = OrderOf(journal, t)
    OBVIOUS
  <2>1. SameBindings(journal', journal)
    BY WriteBackBinds
  <2> QED BY <2>1 DEF SameBindings, OrderOf
<1> QED BY <1>1, <1>2, <1>3, PTL DEF Spec, ListingKeepsOrders
-----------------------------------------------------------------------------
(* The journal is never ahead of the exchange, for any number of commands. *)

RowsBehind(table, taken, positions) ==
  \A i \in DOMAIN table : Behind(table[i], taken, positions)

Closed == {"CLOSED", "redeemed"}

(* Neither are the rows a command has read and the answers it has.         *)
MemoryBehind ==
  \A p \in Procs :
    /\ RowsBehind(local[p], orders, held)
    /\ pc[p] = "persist" => Follows(orders[order[p]], answer[p])
    /\ \A t \in Trades : remote[p][t] = "CLOSED" => held[t] \in Closed
    /\ pc[p] = "mark" /\ answer[p] # NoAnswer
         => Follows(orders[local[p][row[p]].order], answer[p])

BehindInv == JournalInv /\ RowsBehind(journal, orders, held) /\ MemoryBehind

(* Statuses on the exchange only move forward.                             *)
MovesForward ==
  /\ \A h \in Orders : orders[h] # "unplaced" =>
       orders'[h] # "unplaced" /\ Follows(orders'[h], orders[h])
  /\ \A t \in Trades : held[t] \in Closed => held'[t] \in Closed

LEMMA FollowsOn ==
  ASSUME NEW a, NEW b, NEW c, Follows(c, b), Follows(b, a)
  PROVE  Follows(c, a)
BY DEF Follows

LEMMA ExchangeMovesForward ==
  ASSUME JournalInv, [Next]_vars
  PROVE  MovesForward
<1>1. TypeOK /\ MemoryFits
  BY DEF JournalInv
<1>2. ASSUME NEW p \in Procs, PostAnswered(p) \/ PostRetried(p) \/ PostRaises(p)
      PROVE  MovesForward
  <2>1. orders' \in Taken(order[p]) \cup {orders} /\ held' = held /\ order[p] \in Orders
    BY <1>1, <1>2 DEF PostAnswered, PostRetried, PostRaises, MemoryFits
  <2>2. \A h \in Orders : orders[h] # "unplaced" => orders'[h] = orders[h]
    BY <1>1, <2>1 DEF Taken, TypeOK
  <2> QED BY <2>1, <2>2 DEF MovesForward, Follows
<1>3. ASSUME NEW h \in Orders, MoveOrder(h) PROVE MovesForward
  <2>1. held' = held /\ \A g \in Orders :
          \/ orders'[g] = orders[g]
          \/ orders[g] = "PENDING" /\ orders'[g] \in {"OPEN", "CANCELLED"}
          \/ orders[g] = "OPEN" /\ orders'[g] \in {"FILLED", "CANCELLED"}
    BY <1>1, <1>3 DEF MoveOrder, TypeOK
  <2> QED BY <2>1 DEF MovesForward, Follows
<1>4. ASSUME NEW t \in Trades, MovePosition(t) PROVE MovesForward
  <2>1. orders' = orders /\ \A u \in Trades :
          held'[u] = held[u] \/ held[u] \notin Closed \/ held'[u] = "redeemed"
    BY <1>1, <1>4 DEF MovePosition, TypeOK, Closed
  <2> QED BY <2>1 DEF MovesForward, Follows, Closed
<1>5. CASE UNCHANGED <<orders, held>>
  BY <1>5 DEF MovesForward, Follows
<1>6. ASSUME NEW p \in Procs,
             \/ SignOrder(p) \/ Poll(p) \/ PollRaises(p) \/ Persist(p)
             \/ ListLocal(p) \/ ListStep(p) \/ Die(p)
      PROVE  UNCHANGED <<orders, held>>
  BY <1>6 DEF SignOrder, Poll, PollRaises, Persist, ListLocal, ListStep, FetchPositions,
              FetchOrder, FetchOrderFails, WriteBack, ListRaises, Die, exchange
<1>7. UNCHANGED vars => UNCHANGED <<orders, held>>
  BY DEF vars, exchange
<1> QED BY <1>2, <1>3, <1>4, <1>5, <1>6, <1>7 DEF Next, BuyStep

(* What was behind the exchange stays behind it.                           *)
LEMMA RowStaysBehind ==
  ASSUME TypeOK, MovesForward, NEW r \in Row, orders[r.order] # "unplaced",
         Behind(r, orders, held)
  PROVE  Behind(r, orders', held')
<1>1. r.order \in Orders /\ r.id \in Trades
  BY DEF Row
<1>2. Follows(orders'[r.order], orders[r.order])
  BY <1>1 DEF MovesForward
<1>3. Follows(orders'[r.order], r.orderStatus)
  BY <1>2, FollowsOn DEF Behind
<1>4. r.status \in {"FILLED", "CANCELLED"} => orders'[r.order] = r.status
  BY <1>2 DEF Behind, Follows
<1>5. r.status = "CLOSED" => held'[r.id] \in Closed
  BY <1>1 DEF Behind, MovesForward, Closed
<1> QED BY <1>3, <1>4, <1>5 DEF Behind, Closed

LEMMA RowsStayBehind ==
  ASSUME TypeOK, MovesForward, NEW table \in Seq(Row), Placed(table, orders),
         RowsBehind(table, orders, held)
  PROVE  RowsBehind(table, orders', held')
<1>1. ASSUME NEW i \in DOMAIN table PROVE Behind(table[i], orders', held')
  <2>1. table[i] \in Row /\ orders[table[i].order] # "unplaced" /\ Behind(table[i], orders, held)
    BY DEF Placed, RowsBehind
  <2> QED BY <2>1, RowStaysBehind
<1> QED BY <1>1 DEF RowsBehind
(* What a step does to the memory of a command: what it holds is what it   *)
(* held, or is fetched in this step.                                       *)
LEMMA MemorySteps ==
  ASSUME TypeOK, [Next]_vars, NEW q \in Procs
  PROVE  /\ local'[q] \in {local[q], <<>>, journal}
         /\ remote'[q] \in {remote[q], Nothing, held}
         /\ pc'[q] = "persist" =>
              /\ order'[q] = order[q]
              /\ \/ pc[q] = "persist" /\ answer'[q] = answer[q]
                 \/ pc[q] = "poll" /\ answer'[q] = orders[order[q]]
         /\ pc'[q] = "mark" =>
              /\ local'[q] = local[q] /\ row'[q] = row[q]
              /\ \/ pc[q] = "mark" /\ answer'[q] = answer[q]
                 \/ pc[q] = "row" /\ answer'[q] \in {NoAnswer, orders[local[q][row[q]].order]}
<1> DEFINE Kept(p) ==
      /\ local'[p] \in {local[p], <<>>, journal}
      /\ remote'[p] \in {remote[p], Nothing, held}
      /\ pc'[p] = "persist" =>
           /\ order'[p] = order[p]
           /\ \/ pc[p] = "persist" /\ answer'[p] = answer[p]
              \/ pc[p] = "poll" /\ answer'[p] = orders[order[p]]
      /\ pc'[p] = "mark" =>
           /\ local'[p] = local[p] /\ row'[p] = row[p]
           /\ \/ pc[p] = "mark" /\ answer'[p] = answer[p]
              \/ pc[p] = "row" /\ answer'[p] \in {NoAnswer, orders[local[p][row[p]].order]}
      Same(p) == /\ pc'[p] = pc[p] /\ order'[p] = order[p] /\ answer'[p] = answer[p]
                 /\ local'[p] = local[p] /\ remote'[p] = remote[p] /\ row'[p] = row[p]
<1>1. ASSUME NEW p, Same(p) PROVE Kept(p)
  BY <1>1
<1>2. ASSUME \/ \E h \in Orders : MoveOrder(h)
             \/ \E t \in Trades : MovePosition(t)
             \/ UNCHANGED vars
      PROVE  Kept(q)
  BY <1>2, <1>1 DEF MoveOrder, MovePosition, vars, memory
<1>3. ASSUME NEW p \in Procs, Finish(p) PROVE Kept(q)
  <2>1. p # q => Same(q)
    BY <1>3 DEF Finish, TypeOK
  <2>2. pc'[p] = "idle" /\ local'[p] = <<>> /\ remote'[p] = Nothing
    BY <1>3 DEF Finish, TypeOK
  <2> QED BY <1>1, <2>1, <2>2
<1>4. ASSUME NEW p \in Procs, SignOrder(p) \/ PostAnswered(p) \/ PostRetried(p) \/ Poll(p)
      PROVE  Kept(q)
  <2>1. p # q => Same(q)
    BY <1>4 DEF SignOrder, PostAnswered, PostRetried, Poll, Goto, TypeOK
  <2>2. local'[p] = local[p] /\ remote'[p] = remote[p] /\ pc'[p] # "mark"
    BY <1>4 DEF SignOrder, PostAnswered, PostRetried, Poll, Goto, TypeOK
  <2>3. pc'[p] = "persist" =>
          order'[p] = order[p] /\ pc[p] = "poll" /\ answer'[p] = orders[order[p]]
    BY <1>4 DEF SignOrder, PostAnswered, PostRetried, Poll, Goto, TypeOK
  <2> QED BY <1>1, <2>1, <2>2, <2>3
<1>5. ASSUME NEW p \in Procs, ListLocal(p) \/ FetchOrder(p) \/ FetchOrderFails(p)
      PROVE  Kept(q)
  <2>1. p # q => Same(q)
    BY <1>5 DEF ListLocal, FetchOrder, FetchOrderFails, Goto, TypeOK
  <2>2. /\ local'[p] \in {local[p], journal} /\ remote'[p] = remote[p]
        /\ pc'[p] \in {"fetch", "mark"}
    BY <1>5 DEF ListLocal, FetchOrder, FetchOrderFails, Goto, TypeOK
  <2>3. pc'[p] = "mark" =>
          /\ local'[p] = local[p] /\ row'[p] = row[p] /\ pc[p] = "row"
          /\ answer'[p] \in {NoAnswer, orders[local[p][row[p]].order]}
    BY <1>5 DEF ListLocal, FetchOrder, FetchOrderFails, Goto, TypeOK
  <2> QED BY <1>1, <2>1, <2>2, <2>3
<1>6. ASSUME NEW p \in Procs, FetchPositions(p) \/ WriteBack(p), ~Finish(p)
      PROVE  Kept(q)
  <2>1. p # q => Same(q)
    BY <1>6 DEF FetchPositions, WriteBack, Goto, TypeOK
  <2>2. pc'[p] = "row" /\ local'[p] = local[p] /\ remote'[p] \in {remote[p], held}
    BY <1>6 DEF FetchPositions, WriteBack, Goto, TypeOK
  <2>3. Kept(p)
    BY <2>2
  <2> QED BY <1>1, <2>1, <2>3
<1>7. ASSUME NEW p \in Procs,
             PostRaises(p) \/ PollRaises(p) \/ Persist(p) \/ ListRaises(p) \/ Die(p)
      PROVE  Finish(p)
  BY <1>7 DEF PostRaises, PollRaises, Persist, ListRaises, Die
<1> HIDE DEF Kept
<1>8. ASSUME NEW p \in Procs, SignOrder(p) \/ BuyStep(p) PROVE Kept(q)
  <2>1. \/ SignOrder(p) \/ PostAnswered(p) \/ PostRetried(p) \/ Poll(p)
        \/ PostRaises(p) \/ PollRaises(p) \/ Persist(p)
    BY <1>8 DEF BuyStep
  <2> QED BY <2>1, <1>3, <1>4, <1>7
<1>9. ASSUME NEW p \in Procs, ListLocal(p) \/ ListStep(p) PROVE Kept(q)
  <2>1. \/ ListLocal(p) \/ FetchOrder(p) \/ FetchOrderFails(p)
        \/ FetchPositions(p) \/ WriteBack(p) \/ ListRaises(p)
    BY <1>9 DEF ListStep
  <2> QED BY <2>1, <1>3, <1>5, <1>6, <1>7
<1>10. ASSUME NEW p \in Procs, Die(p) PROVE Kept(q)
  BY <1>3, <1>7, <1>10
<1>11. Kept(q)
  <2>1. CASE Next
    BY <2>1, <1>2, <1>8, <1>9, <1>10 DEF Next
  <2> QED BY <2>1, <1>2
<1> QED BY <1>11 DEF Kept
(* The row a buy journals, and the row a listing writes back.              *)
LEMMA BoughtRowBehind ==
  ASSUME BehindInv, NEW p \in Procs, pc[p] = "persist"
  PROVE  Behind([id |-> TradeOf[order[p]], order |-> order[p],
                 orderStatus |-> answer[p], status |-> "OPEN"], orders, held)
BY DEF BehindInv, MemoryBehind, Behind

LEMMA RefreshedRowBehind ==
  ASSUME BehindInv, NEW p \in Procs, pc[p] = "mark"
  PROVE  Behind(Refreshed(p), orders, held)
<1>1. /\ TypeOK /\ MemoryFits
      /\ local[p] \in Seq(Row) /\ row[p] \in DOMAIN local[p]
      /\ RowsBehind(local[p], orders, held)
      /\ \A t \in Trades : remote[p][t] = "CLOSED" => held[t] \in Closed
  BY DEF BehindInv, JournalInv, TypeOK, MemoryFits, MemoryBehind
<1> DEFINE r == local[p][row[p]]
<1>2. r \in Row /\ Behind(r, orders, held) /\ r.id \in Trades
  <2>1. r \in Row /\ Behind(r, orders, held)
    BY <1>1 DEF RowsBehind
  <2> QED BY <2>1 DEF Row
<1>3. answer[p] # NoAnswer => Follows(orders[r.order], answer[p])
  BY DEF BehindInv, MemoryBehind
<1>4. /\ Refreshed(p).id = r.id
      /\ Refreshed(p).order = r.order
      /\ Refreshed(p).status = Resolved(r, remote[p], answer[p])
      /\ Refreshed(p).orderStatus = IF answer[p] = NoAnswer THEN r.orderStatus ELSE answer[p]
  BY <1>2 DEF Refreshed, Row
<1> HIDE DEF r
<1>5. Follows(orders[r.order], Refreshed(p).orderStatus)
  BY <1>2, <1>3, <1>4 DEF Behind
<1>6. CASE Listed(remote[p], r.id)
  <2>1. Refreshed(p).status \in {"OPEN", "CLOSED"} /\ Refreshed(p).status = remote[p][r.id]
    BY <1>4, <1>6 DEF Resolved, Listed
  <2> QED BY <1>1, <1>2, <1>4, <1>5, <2>1 DEF Behind, Closed
<1>7. CASE ~Listed(remote[p], r.id) /\ answer[p] # NoAnswer
  <2>1. Refreshed(p).status = answer[p] /\ answer[p] \in OrderStatuses
    BY <1>1, <1>4, <1>7 DEF Resolved, TypeOK
  <2>2. answer[p] \in {"FILLED", "CANCELLED"} => orders[r.order] = answer[p]
    BY <1>3, <1>7 DEF Follows
  <2> QED BY <1>4, <1>5, <2>1, <2>2 DEF Behind, OrderStatuses
<1>8. CASE ~Listed(remote[p], r.id) /\ answer[p] = NoAnswer
  <2>1. Refreshed(p).status = r.status
    BY <1>4, <1>8 DEF Resolved
  <2> QED BY <1>2, <1>4, <1>5, <2>1 DEF Behind
<1> QED BY <1>6, <1>7, <1>8

LEMMA PutBehind ==
  ASSUME JournalInv, RowsBehind(journal, orders, held),
         NEW r \in Row, Behind(r, orders, held)
  PROVE  RowsBehind(Put(journal, r), orders, held)
<1>1. \A i \in DOMAIN Put(journal, r) :
        \/ Put(journal, r)[i] = r
        \/ i \in DOMAIN journal /\ Put(journal, r)[i] = journal[i]
  BY PutKeepsTable DEF JournalInv, TypeOK
<1> QED BY <1>1 DEF RowsBehind

LEMMA BehindStep ==
  ASSUME BehindInv, [Next]_vars
  PROVE  BehindInv'
<1>1. JournalInv' /\ MovesForward
  BY InvStep, ExchangeMovesForward DEF BehindInv
<1>2. TypeOK /\ MemoryFits /\ Placed(journal, orders)
  BY DEF BehindInv, JournalInv
<1>3. RowsBehind(journal, orders', held')
  BY <1>1, <1>2, RowsStayBehind DEF BehindInv, TypeOK
<1>4. RowsBehind(journal', orders', held')
  <2>1. ASSUME NEW p \in Procs, Persist(p) PROVE RowsBehind(journal', orders', held')
    <3> DEFINE r == [id |-> TradeOf[order[p]], order |-> order[p],
                     orderStatus |-> answer[p], status |-> "OPEN"]
    <3>1. r \in Row
      BY <1>2, <2>1, JournalAssumption DEF Persist, MemoryFits, Row, OrderStatuses
    <3>2. Behind(r, orders, held)
      BY <2>1, BoughtRowBehind DEF Persist
    <3>3. journal' = Put(journal, r) /\ orders' = orders /\ held' = held
      BY <2>1 DEF Persist, exchange
    <3> HIDE DEF r
    <3>4. RowsBehind(Put(journal, r), orders, held)
      BY <3>1, <3>2, PutBehind DEF BehindInv
    <3> QED BY <3>3, <3>4
  <2>2. ASSUME NEW p \in Procs, WriteBack(p) PROVE RowsBehind(journal', orders', held')
    <3>1. Refreshed(p) \in Row /\ Behind(Refreshed(p), orders, held)
      BY <1>2, <2>2, RefreshedRow, RefreshedRowBehind DEF WriteBack
    <3>2. RowsBehind(Put(journal, Refreshed(p)), orders, held)
      BY <3>1, PutBehind DEF BehindInv
    <3>3. journal' \in {journal, Put(journal, Refreshed(p))} /\ orders' = orders /\ held' = held
      BY <2>2 DEF WriteBack, exchange
    <3> QED BY <3>2, <3>3, <1>3
  <2>3. ASSUME journal' = journal PROVE RowsBehind(journal', orders', held')
    BY <1>3, <2>3
  <2>4. journal' = journal \/ \E p \in Procs : Persist(p) \/ WriteBack(p)
    BY DEF Next, SignOrder, BuyStep, PostAnswered, PostRetried, PostRaises, Poll, PollRaises,
           ListLocal, ListStep, FetchPositions, FetchOrder, FetchOrderFails, ListRaises, Die,
           MoveOrder, MovePosition, vars
  <2> QED BY <2>1, <2>2, <2>3, <2>4
<1>5. ASSUME NEW q \in Procs
      PROVE  /\ RowsBehind(local'[q], orders', held')
             /\ pc'[q] = "persist" => Follows(orders'[order'[q]], answer'[q])
             /\ \A t \in Trades : remote'[q][t] = "CLOSED" => held'[t] \in Closed
             /\ pc'[q] = "mark" /\ answer'[q] # NoAnswer
                  => Follows(orders'[local'[q][row'[q]].order], answer'[q])
  <2>1. /\ RowsBehind(local[q], orders, held) /\ Placed(local[q], orders)
        /\ local[q] \in Seq(Row)
        /\ \A t \in Trades : remote[q][t] = "CLOSED" => held[t] \in Closed
    BY <1>2 DEF BehindInv, MemoryBehind, MemoryFits, TypeOK
  <2>2. RowsBehind(local'[q], orders', held')
    <3>1. RowsBehind(local[q], orders', held')
      BY <1>1, <1>2, <2>1, RowsStayBehind
    <3>2. RowsBehind(<<>>, orders', held')
      BY DEF RowsBehind
    <3>3. local'[q] \in {local[q], <<>>, journal}
      BY <1>2, MemorySteps
    <3> QED BY <1>3, <3>1, <3>2, <3>3
  <2>3. ASSUME pc'[q] = "persist" PROVE Follows(orders'[order'[q]], answer'[q])
    <3>1. /\ order'[q] = order[q]
          /\ \/ pc[q] = "persist" /\ answer'[q] = answer[q]
             \/ pc[q] = "poll" /\ answer'[q] = orders[order[q]]
      BY <1>2, <2>3, MemorySteps
    <3>2. order[q] \in Orders /\ orders[order[q]] # "unplaced"
      BY <1>2, <3>1 DEF MemoryFits
    <3>3. Follows(orders'[order[q]], orders[order[q]])
      BY <1>1, <3>2 DEF MovesForward
    <3>4. CASE pc[q] = "persist" /\ answer'[q] = answer[q]
      <4>1. Follows(orders[order[q]], answer[q])
        BY <3>4 DEF BehindInv, MemoryBehind
      <4> QED BY <3>1, <3>3, <3>4, <4>1, FollowsOn
    <3> QED BY <3>1, <3>3, <3>4
  <2>4. \A t \in Trades : remote'[q][t] = "CLOSED" => held'[t] \in Closed
    <3>1. remote'[q] \in {remote[q], Nothing, held}
      BY <1>2, MemorySteps
    <3> QED BY <1>1, <2>1, <3>1 DEF MovesForward, Nothing, Closed
  <2>5. ASSUME pc'[q] = "mark", answer'[q] # NoAnswer
        PROVE  Follows(orders'[local'[q][row'[q]].order], answer'[q])
    <3> DEFINE o == local[q][row[q]].order
    <3>1. /\ local'[q] = local[q] /\ row'[q] = row[q]
          /\ \/ pc[q] = "mark" /\ answer'[q] = answer[q]
             \/ pc[q] = "row" /\ answer'[q] = orders[o]
      BY <1>2, <2>5, MemorySteps
    <3>2. o \in Orders /\ orders[o] # "unplaced"
      <4>1. row[q] \in DOMAIN local[q] /\ local[q][row[q]] \in Row
        BY <1>2, <2>1, <3>1 DEF MemoryFits
      <4> QED BY <2>1, <4>1 DEF Placed, Row
    <3>3. Follows(orders'[o], orders[o])
      BY <1>1, <3>2 DEF MovesForward
    <3>4. CASE pc[q] = "mark" /\ answer'[q] = answer[q]
      <4>1. Follows(orders[o], answer[q])
        BY <2>5, <3>4 DEF BehindInv, MemoryBehind
      <4> QED BY <3>1, <3>3, <3>4, <4>1, FollowsOn
    <3> QED BY <3>1, <3>3, <3>4
  <2> QED BY <2>2, <2>3, <2>4, <2>5
<1> QED BY <1>1, <1>4, <1>5 DEF BehindInv, MemoryBehind

LEMMA InitBehind == Init => BehindInv
<1>1. Init => RowsBehind(journal, orders, held) /\ MemoryBehind
  BY DEF Init, RowsBehind, MemoryBehind, Nothing
<1> QED BY <1>1, InitInv DEF BehindInv

(* However many buys and listings run at once, however long ago they       *)
(* fetched what they write, and whatever fails: the journal is never ahead *)
(* of the exchange.                                                        *)
THEOREM NeverAhead == Spec => []JournalNeverAhead
<1>1. BehindInv /\ [Next]_vars => BehindInv'
  BY BehindStep
<1>2. BehindInv => JournalNeverAhead
  BY DEF BehindInv, JournalInv, Placed, RowsBehind, JournalNeverAhead, JournalNamesPlacedOrders
<1> QED BY InitBehind, <1>1, <1>2, PTL DEF Spec
-----------------------------------------------------------------------------
(* What the journal keeps, with commands one at a time.                    *)

Buying == {"post", "poll", "persist"}

(* Rows bind signed orders to their own positions, and the order of a buy  *)
(* that is running is not in the journal yet.                              *)
BoundInv ==
  /\ \A i \in DOMAIN journal :
       journal[i].order \in signed /\ journal[i].id = TradeOf[journal[i].order]
  /\ \A p \in Procs : pc[p] \in Buying =>
       order[p] \in signed /\ \A i \in DOMAIN journal : journal[i].order # order[p]
  /\ \A p \in Procs : pc[p] \notin Buying => order[p] = NoOrder

(* The rows a listing has still to write are those of the journal, and     *)
(* what it has fetched of an order is not older than what the row says.    *)
ListingHolds ==
  \A p \in Procs :
    /\ pc[p] = "fetch" => journal = local[p]
    /\ pc[p] \in {"row", "mark"} =>
         \A i \in DOMAIN local[p] : i >= row[p] => journal[i] = local[p][i]
    /\ pc[p] = "mark" /\ answer[p] # NoAnswer
         => Follows(answer[p], local[p][row[p]].orderStatus)

KeptInv == AloneInv /\ BehindInv /\ BoundInv /\ ListingHolds

(* Only the end of a buy and a listing's upsert write the journal.         *)
LEMMA JournalWriters ==
  ASSUME [Next]_vars
  PROVE  journal' = journal \/ \E p \in Procs : Persist(p) \/ WriteBack(p)
BY DEF Next, SignOrder, BuyStep, PostAnswered, PostRetried, PostRaises, Poll, PollRaises,
       ListLocal, ListStep, FetchPositions, FetchOrder, FetchOrderFails, ListRaises, Die,
       MoveOrder, MovePosition, vars

(* The end of a buy: its row is there, rows of other positions stay.       *)
LEMMA PersistWrites ==
  ASSUME KeptInv, NEW p \in Procs, Persist(p)
  PROVE  /\ order[p] \in Orders /\ order[p] \in signed
         /\ \A i \in DOMAIN journal : journal[i].order # order[p]
         /\ \A i \in DOMAIN journal' :
              \/ journal'[i].order = order[p] /\ journal'[i].id = TradeOf[order[p]]
              \/ i \in DOMAIN journal /\ journal'[i] = journal[i]
         /\ \E i \in DOMAIN journal' : journal'[i].order = order[p]
         /\ \A i \in DOMAIN journal : journal[i].id # TradeOf[order[p]]
              => i \in DOMAIN journal' /\ journal'[i] = journal[i]
<1> DEFINE r == [id |-> TradeOf[order[p]], order |-> order[p],
                 orderStatus |-> answer[p], status |-> "OPEN"]
<1>1. /\ pc[p] = "persist" /\ TypeOK /\ MemoryFits /\ UniqueIds(journal) /\ journal \in Seq(Row)
  BY DEF Persist, KeptInv, AloneInv, JournalInv, TypeOK
<1>2. r \in Row /\ order[p] \in Orders
  BY <1>1, JournalAssumption DEF MemoryFits, Row, OrderStatuses
<1>3. r.id = TradeOf[order[p]] /\ r.order = order[p]
  OBVIOUS
<1>4. journal' = Put(journal, r)
  BY DEF Persist
<1> HIDE DEF r
<1>5. /\ DOMAIN journal \subseteq DOMAIN journal'
      /\ \A i \in DOMAIN journal' :
           \/ journal'[i] = r
           \/ i \in DOMAIN journal /\ journal'[i] = journal[i]
      /\ \E i \in DOMAIN journal' : journal'[i] = r
      /\ \A i \in DOMAIN journal : journal[i].id # r.id => journal'[i] = journal[i]
  <2>1. r \in Row /\ journal \in Seq(Row) /\ UniqueIds(journal)
    BY <1>1, <1>2
  <2>2. DOMAIN journal \subseteq DOMAIN Put(journal, r)
    BY ONLY <2>1, PutKeepsTable
  <2>3. \A i \in DOMAIN Put(journal, r) :
          \/ Put(journal, r)[i] = r
          \/ i \in DOMAIN journal /\ Put(journal, r)[i] = journal[i]
    BY ONLY <2>1, PutKeepsTable
  <2>4. \E i \in DOMAIN Put(journal, r) : Put(journal, r)[i] = r
    BY ONLY <2>1, PutKeepsTable
  <2>5. \A i \in DOMAIN journal : journal[i].id # r.id => Put(journal, r)[i] = journal[i]
    BY ONLY <2>1, PutKeepsTable
  <2> QED BY <1>4, <2>2, <2>3, <2>4, <2>5
<1>6. order[p] \in signed /\ \A i \in DOMAIN journal : journal[i].order # order[p]
  BY <1>1 DEF KeptInv, BoundInv, Buying
<1> QED BY <1>2, <1>3, <1>5, <1>6

(* A listing's upsert: one row, the one it read, brought up to date.       *)
LEMMA WriteBackWrites ==
  ASSUME KeptInv, NEW p \in Procs, WriteBack(p)
  PROVE  /\ SameBindings(journal', journal)
         /\ \A i \in DOMAIN journal : i # row[p] => journal'[i] = journal[i]
         /\ \A i \in DOMAIN journal : Follows(journal'[i].orderStatus, journal[i].orderStatus)
<1> DEFINE r == Refreshed(p)
<1>1. /\ pc[p] = "mark" /\ row[p] \in DOMAIN local[p] /\ local[p][row[p]] \in Row
      /\ journal \in Seq(Row) /\ UniqueIds(journal) /\ SameBindings(journal, local[p])
      /\ row[p] \in Nat
  BY DEF WriteBack, KeptInv, AloneInv, JournalInv, TypeOK, MemoryFits, ListingIsCurrent
<1>2. SameBindings(journal', journal)
  BY WriteBackBinds DEF KeptInv
<1>3. r \in Row
  BY <1>1, RefreshedRow DEF KeptInv, AloneInv, JournalInv
<1>4. /\ r.id = local[p][row[p]].id
      /\ r.orderStatus = IF answer[p] = NoAnswer THEN local[p][row[p]].orderStatus ELSE answer[p]
  BY <1>1 DEF Refreshed, Row
<1> HIDE DEF r
<1>5. row[p] \in DOMAIN journal /\ journal[row[p]] = local[p][row[p]]
  BY <1>1 DEF KeptInv, ListingHolds, SameBindings
<1>6. Follows(r.orderStatus, journal[row[p]].orderStatus)
  BY <1>1, <1>4, <1>5 DEF KeptInv, ListingHolds, Follows
<1>7. Put(journal, r) = [journal EXCEPT ![row[p]] = r]
  BY <1>1, <1>3, <1>4, <1>5, PutReplaces
<1>8. journal' = journal \/ journal' = [journal EXCEPT ![row[p]] = r]
  BY <1>7 DEF WriteBack, r
<1> QED BY <1>2, <1>5, <1>6, <1>8 DEF Follows
LEMMA BoundStep ==
  ASSUME OneCommand, KeptInv, [Next]_vars
  PROVE  BoundInv'
<1>1. TypeOK /\ BoundInv /\ \A p, q \in Procs : p = q
  BY DEF KeptInv, AloneInv, JournalInv, OneCommand
<1>2. ASSUME NEW p \in Procs, SignOrder(p) PROVE BoundInv'
  <2>1. PICK h \in Orders \ signed :
          signed' = signed \cup {h} /\ order' = [order EXCEPT ![p] = h]
    BY <1>2 DEF SignOrder
  <2>2. journal' = journal /\ pc'[p] = "post" /\ order'[p] = h
    BY <1>1, <1>2, <2>1 DEF SignOrder, Goto, TypeOK
  <2> QED BY <1>1, <2>1, <2>2 DEF BoundInv, Buying
<1>3. ASSUME NEW p \in Procs, Finish(p), journal' = journal, signed' = signed PROVE BoundInv'
  <2>1. pc'[p] = "idle" /\ order'[p] = NoOrder
    BY <1>1, <1>3 DEF Finish, TypeOK
  <2> QED BY <1>1, <1>3, <2>1 DEF BoundInv, Buying
<1>4. ASSUME NEW p \in Procs, UNCHANGED <<journal, signed, order>>,
             pc[p] \in Buying <=> pc'[p] \in Buying
      PROVE  BoundInv'
  BY <1>1, <1>4 DEF BoundInv
<1>5. ASSUME NEW p \in Procs, Persist(p) PROVE BoundInv'
  <2>1. signed' = signed /\ pc'[p] = "idle" /\ order'[p] = NoOrder
    BY <1>1, <1>5 DEF Persist, Finish, TypeOK, exchange
  <2>2. \A i \in DOMAIN journal' :
          journal'[i].order \in signed /\ journal'[i].id = TradeOf[journal'[i].order]
    BY <1>1, <1>5, PersistWrites DEF BoundInv
  <2> QED BY <1>1, <2>1, <2>2 DEF BoundInv, Buying
<1>6. ASSUME NEW p \in Procs, WriteBack(p) PROVE BoundInv'
  <2>1. /\ signed' = signed /\ pc[p] = "mark" /\ pc'[p] \in {"idle", "row"}
        /\ order'[p] \in {order[p], NoOrder}
    BY <1>1, <1>6 DEF WriteBack, Finish, Goto, TypeOK, exchange
  <2>2. SameBindings(journal', journal)
    BY <1>6, WriteBackWrites
  <2>3. \A i \in DOMAIN journal' :
          journal'[i].order \in signed /\ journal'[i].id = TradeOf[journal'[i].order]
    BY <1>1, <2>2 DEF BoundInv, SameBindings
  <2>4. order'[p] = NoOrder /\ pc'[p] \notin Buying
    BY <1>1, <2>1 DEF BoundInv, Buying
  <2> QED BY <1>1, <2>1, <2>3, <2>4 DEF BoundInv
<1>7. ASSUME NEW p \in Procs, PostAnswered(p) \/ PostRetried(p) \/ Poll(p) PROVE BoundInv'
  <2>1. UNCHANGED <<journal, signed, order>> /\ pc[p] \in Buying /\ pc'[p] \in Buying
    BY <1>1, <1>7 DEF PostAnswered, PostRetried, Poll, Goto, TypeOK, exchange, Buying
  <2> QED BY <2>1, <1>4
<1>8. ASSUME NEW p \in Procs,
             \/ ListLocal(p) \/ FetchOrder(p) \/ FetchOrderFails(p)
             \/ FetchPositions(p) /\ ~Finish(p)
      PROVE  BoundInv'
  <2>1. UNCHANGED <<journal, signed, order>> /\ pc[p] \notin Buying /\ pc'[p] \notin Buying
    BY <1>1, <1>8
    DEF ListLocal, FetchOrder, FetchOrderFails, FetchPositions, Goto, TypeOK, exchange, Buying
  <2> QED BY <2>1, <1>4
<1>9. ASSUME NEW p \in Procs,
             \/ PostRaises(p) \/ PollRaises(p) \/ ListRaises(p) \/ Die(p)
             \/ FetchPositions(p) /\ Finish(p)
      PROVE  BoundInv'
  <2>1. Finish(p) /\ journal' = journal /\ signed' = signed
    BY <1>9 DEF PostRaises, PollRaises, ListRaises, Die, FetchPositions, exchange
  <2> QED BY <2>1, <1>3
<1>10. ASSUME UNCHANGED <<journal, signed, pc, order>> PROVE BoundInv'
  BY <1>1, <1>10 DEF BoundInv
<1>11. ASSUME \/ \E h \in Orders : MoveOrder(h)
              \/ \E t \in Trades : MovePosition(t)
              \/ UNCHANGED vars
       PROVE  BoundInv'
  BY <1>10, <1>11 DEF MoveOrder, MovePosition, vars, memory, exchange
<1>12. ASSUME NEW p \in Procs, SignOrder(p) \/ BuyStep(p) \/ ListLocal(p) \/ ListStep(p) \/ Die(p)
       PROVE  BoundInv'
  BY <1>2, <1>5, <1>6, <1>7, <1>8, <1>9, <1>12 DEF BuyStep, ListStep
<1>13. Next \/ UNCHANGED vars
  OBVIOUS
<1> QED BY <1>11, <1>12, <1>13 DEF Next

LEMMA ListingStep ==
  ASSUME OneCommand, KeptInv, [Next]_vars
  PROVE  ListingHolds'
<1>1. /\ TypeOK /\ MemoryFits /\ ListingHolds /\ ListingIsCurrent
      /\ \A p, q \in Procs : p = q
  BY DEF KeptInv, AloneInv, JournalInv, OneCommand
<1>2. ASSUME NEW p \in Procs, pc'[p] \notin {"fetch", "row", "mark"} PROVE ListingHolds'
  BY <1>1, <1>2 DEF ListingHolds
<1>3. ASSUME NEW p \in Procs, ListLocal(p) PROVE ListingHolds'
  <2>1. pc'[p] = "fetch" /\ local'[p] = journal'
    BY <1>1, <1>3 DEF ListLocal, Goto, TypeOK
  <2> QED BY <1>1, <2>1 DEF ListingHolds
<1>4. ASSUME NEW p \in Procs, FetchPositions(p), ~Finish(p) PROVE ListingHolds'
  <2>1. pc[p] = "fetch" /\ pc'[p] = "row" /\ UNCHANGED <<journal, local>>
    BY <1>1, <1>4 DEF FetchPositions, Goto, TypeOK
  <2> QED BY <1>1, <2>1 DEF ListingHolds
<1>5. ASSUME NEW p \in Procs, FetchOrder(p) \/ FetchOrderFails(p) PROVE ListingHolds'
  <2> DEFINE r == local[p][row[p]]
  <2>1. /\ pc[p] = "row" /\ pc'[p] = "mark" /\ UNCHANGED <<journal, local, row>>
        /\ answer'[p] \in {NoAnswer, orders[r.order]}
    BY <1>1, <1>5 DEF FetchOrder, FetchOrderFails, Goto, TypeOK
  <2>2. Follows(orders[r.order], r.orderStatus)
    BY <1>1, <2>1 DEF KeptInv, BehindInv, MemoryBehind, MemoryFits, RowsBehind, Behind
  <2> HIDE DEF r
  <2>3. answer'[p] # NoAnswer => Follows(answer'[p], r.orderStatus)
    BY <2>1, <2>2
  <2> QED BY <1>1, <2>1, <2>3 DEF ListingHolds, r
<1>6. ASSUME NEW p \in Procs, WriteBack(p), ~Finish(p) PROVE ListingHolds'
  <2>1. /\ pc[p] = "mark" /\ pc'[p] = "row" /\ local' = local /\ row'[p] = row[p] + 1
        /\ row[p] \in Nat /\ local[p] \in Seq(Row)
    BY <1>1, <1>6 DEF WriteBack, Goto, TypeOK
  <2>2. \A i \in DOMAIN journal : i # row[p] => journal'[i] = journal[i]
    BY <1>6, WriteBackWrites
  <2>3. DOMAIN journal = DOMAIN local[p]
    BY <1>1, <2>1 DEF ListingIsCurrent, SameBindings
  <2>4. ASSUME NEW i \in DOMAIN local[p], i >= row[p] + 1 PROVE journal'[i] = local[p][i]
    <3>1. i \in Nat /\ i # row[p] /\ i >= row[p]
      BY <2>1, <2>4
    <3> QED BY <1>1, <2>1, <2>2, <2>3, <3>1 DEF ListingHolds
  <2> QED BY <1>1, <2>1, <2>4 DEF ListingHolds
<1>7. ASSUME UNCHANGED <<journal, pc, answer, local, row>> PROVE ListingHolds'
  BY <1>1, <1>7 DEF ListingHolds
<1>8. ASSUME \/ \E h \in Orders : MoveOrder(h)
             \/ \E t \in Trades : MovePosition(t)
             \/ UNCHANGED vars
      PROVE  ListingHolds'
  BY <1>7, <1>8 DEF MoveOrder, MovePosition, vars, memory
<1>9. ASSUME NEW p \in Procs, Finish(p) PROVE ListingHolds'
  <2>1. pc'[p] = "idle"
    BY <1>1, <1>9 DEF Finish, TypeOK
  <2> QED BY <2>1, <1>2
<1>10. ASSUME NEW p \in Procs, SignOrder(p) \/ PostAnswered(p) \/ PostRetried(p) \/ Poll(p)
       PROVE  ListingHolds'
  <2>1. pc'[p] \notin {"fetch", "row", "mark"}
    BY <1>1, <1>10 DEF SignOrder, PostAnswered, PostRetried, Poll, Goto, TypeOK
  <2> QED BY <2>1, <1>2
<1>11. ASSUME NEW p \in Procs,
              PostRaises(p) \/ PollRaises(p) \/ Persist(p) \/ ListRaises(p) \/ Die(p)
       PROVE  ListingHolds'
  <2>1. Finish(p)
    BY <1>11 DEF PostRaises, PollRaises, Persist, ListRaises, Die
  <2> QED BY <2>1, <1>9
<1>12. ASSUME NEW p \in Procs, SignOrder(p) \/ BuyStep(p) \/ ListLocal(p) \/ ListStep(p) \/ Die(p)
       PROVE  ListingHolds'
  BY <1>3, <1>4, <1>5, <1>6, <1>9, <1>10, <1>11, <1>12 DEF BuyStep, ListStep
<1>13. Next \/ UNCHANGED vars
  OBVIOUS
<1> QED BY <1>8, <1>12, <1>13 DEF Next
LEMMA KeptHolds == ASSUME OneCommand PROVE Spec => []KeptInv
<1>1. Init => AloneInv
  BY InitInv DEF AloneInv, ListingIsCurrent, Init
<1>2. Init => BoundInv /\ ListingHolds
  BY DEF Init, BoundInv, ListingHolds, Buying
<1>3. Init => KeptInv
  BY <1>1, <1>2, InitBehind DEF KeptInv
<1>4. KeptInv /\ [Next]_vars => KeptInv'
  BY AloneStep, BehindStep, BoundStep, ListingStep DEF KeptInv
<1> QED BY <1>3, <1>4, PTL DEF Spec

(* With commands one at a time, whichever lookups fail and wherever a      *)
(* command dies: what the journal shows of an order's status never goes    *)
(* back.                                                                   *)
THEOREM StatusForward == ASSUME OneCommand PROVE Spec => OrderStatusMovesForward
<1>1. ASSUME KeptInv, [Next]_vars,
             NEW i \in DOMAIN journal, NEW j \in DOMAIN journal',
             journal'[j].order = journal[i].order
      PROVE  Follows(journal'[j].orderStatus, journal[i].orderStatus)
  <2>1. /\ UniqueIds(journal)
        /\ \A k \in DOMAIN journal : journal[k].id = TradeOf[journal[k].order]
    BY <1>1 DEF KeptInv, AloneInv, JournalInv, BoundInv
  <2>2. ASSUME j \in DOMAIN journal, journal'[j] = journal[j]
        PROVE  Follows(journal'[j].orderStatus, journal[i].orderStatus)
    <3>1. j = i
      BY <1>1, <2>1, <2>2 DEF UniqueIds
    <3> QED BY <2>2, <3>1 DEF Follows
  <2>3. ASSUME NEW p \in Procs, Persist(p) PROVE j \in DOMAIN journal /\ journal'[j] = journal[j]
    BY <1>1, <2>3, PersistWrites
  <2>4. ASSUME NEW p \in Procs, WriteBack(p)
        PROVE  Follows(journal'[j].orderStatus, journal[i].orderStatus)
    <3>1. /\ SameBindings(journal', journal)
          /\ \A k \in DOMAIN journal : Follows(journal'[k].orderStatus, journal[k].orderStatus)
      BY <1>1, <2>4, WriteBackWrites
    <3>2. j \in DOMAIN journal /\ journal[j].order = journal[i].order
      BY <1>1, <3>1 DEF SameBindings
    <3>3. j = i
      BY <2>1, <3>2 DEF UniqueIds
    <3> QED BY <3>1, <3>3
  <2>5. journal' = journal => j \in DOMAIN journal /\ journal'[j] = journal[j]
    BY <1>1
  <2> QED BY <1>1, <2>2, <2>3, <2>4, <2>5, JournalWriters
<1>2. KeptInv /\ [Next]_vars =>
        \A i \in DOMAIN journal, j \in DOMAIN journal' :
          journal'[j].order = journal[i].order
            => Follows(journal'[j].orderStatus, journal[i].orderStatus)
  BY <1>1
<1> QED BY KeptHolds, <1>2, PTL DEF Spec, OrderStatusMovesForward

(* With commands one at a time an order leaves the program's sight only    *)
(* when its buy fails or dies, or when a later buy of the same position    *)
(* takes over its row.                                                     *)
THEOREM SightKept == ASSUME OneCommand PROVE Spec => OrdersStayInSight
<1>1. ASSUME KeptInv, [Next]_vars, NEW h \in Orders, InSight(h), ~InSight(h)'
      PROVE  BuyLost(h) \/ TakenOver(h)
  <2>1. /\ TypeOK /\ BoundInv /\ \A p, q \in Procs : p = q
        /\ \A i \in DOMAIN journal' : journal'[i].order # h
        /\ \A p \in Procs : order'[p] # h
    BY <1>1 DEF KeptInv, AloneInv, JournalInv, OneCommand, InSight
  <2>2. ASSUME NEW i \in DOMAIN journal, journal[i].order = h PROVE TakenOver(h)
    <3>1. ASSUME NEW p \in Procs, WriteBack(p) PROVE FALSE
      <4>1. SameBindings(journal', journal)
        BY <1>1, <3>1, WriteBackWrites
      <4> QED BY <2>1, <2>2, <4>1 DEF SameBindings
    <3>2. PICK p \in Procs : Persist(p)
      BY <1>1, <2>1, <2>2, <3>1, JournalWriters
    <3>3. order[p] # h
      BY <1>1, <2>2, <3>2, PersistWrites
    <3>4. journal[i].id = TradeOf[order[p]]
      BY <1>1, <2>1, <2>2, <3>2, PersistWrites
    <3>5. journal[i].id = TradeOf[h]
      BY <2>1, <2>2 DEF BoundInv
    <3> QED BY <3>2, <3>3, <3>4, <3>5 DEF TakenOver
  <2>3. ASSUME NEW p \in Procs, order[p] = h PROVE BuyLost(h)
    <3>1. pc[p] \in Buying
      BY <2>1, <2>3, JournalAssumption DEF BoundInv
    <3>2. order' # order
      BY <2>1, <2>3
    <3>3. ASSUME NEW q \in Procs, Persist(q) PROVE FALSE
      <4>1. q = p
        BY <2>1
      <4> QED BY <1>1, <2>1, <2>3, <3>3, <4>1, PersistWrites
    <3>4. ASSUME NEW q \in Procs, SignOrder(q) \/ ListLocal(q) \/ ListStep(q) PROVE FALSE
      <4>1. q = p
        BY <2>1
      <4> QED BY <3>1, <3>4, <4>1 DEF SignOrder, ListLocal, ListStep, FetchPositions,
                FetchOrder, FetchOrderFails, WriteBack, ListRaises, Buying
    <3>5. ASSUME \/ \E q \in Procs : PostAnswered(q) \/ PostRetried(q) \/ Poll(q)
                 \/ \E g \in Orders : MoveOrder(g)
                 \/ \E t \in Trades : MovePosition(t)
                 \/ UNCHANGED vars
          PROVE  FALSE
      BY <3>2, <3>5 DEF PostAnswered, PostRetried, Poll, MoveOrder, MovePosition, vars, memory
    <3>6. Next \/ UNCHANGED vars
      BY <1>1
    <3>7. PICK q \in Procs : PostRaises(q) \/ PollRaises(q) \/ Die(q)
      BY <3>3, <3>4, <3>5, <3>6 DEF Next, BuyStep
    <3>8. q = p
      BY <2>1
    <3> QED BY <2>3, <3>7, <3>8 DEF BuyLost
  <2> QED BY <1>1, <2>2, <2>3 DEF InSight
<1>2. KeptInv /\ [Next]_vars =>
        \A h \in Orders : InSight(h) /\ ~InSight(h)' => BuyLost(h) \/ TakenOver(h)
  BY <1>1
<1> QED BY KeptHolds, <1>2, PTL DEF Spec, OrdersStayInSight
=============================================================================
