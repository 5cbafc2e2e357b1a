---------------------------- MODULE OrderJournal ----------------------------
(***************************************************************************)
(* Orders on predict.fun and the positions journal, positions.json.        *)
(*                                                                         *)
(* `trade buy` (TradeService.buy) signs one order, posts it with retries   *)
(* (PredictApiClient._request_json), polls it until it is OPEN or FILLED   *)
(* or the polls are used up, and journals it.  `positions`                 *)
(* (PositionsService._merge_positions) reads the journal, asks the         *)
(* exchange about every row and writes back what changed.  Each command is *)
(* a process; the exchange moves on its own between any two of its steps.  *)
(*                                                                         *)
(* The exchange is external.  A (market, outcome) pair is one position id  *)
(* and one token.  A journal write is one step here: JsonRowStore models   *)
(* what that takes.  A listing without credentials is left out: it asks    *)
(* for no remote data and so changes no row.  Every order has a hash: a    *)
(* signed order without one is given it before it is posted, so that the   *)
(* branches for an empty one are left out as well.                         *)
(***************************************************************************)
EXTENDS RowList

CONSTANTS
  Procs,     \* processes, each running one command at a time
  Orders,    \* order hashes: one per signature, the salt is random
  Trades,    \* position ids
  TradeOf,   \* the trade an order hash commits to
  MaxPosts,  \* config.retry_attempts
  MaxPolls,  \* polls of a fresh order
  MaxRows,   \* bounds the rows FairSpec speaks of: one per trade suffices
  NoOrder, NoAnswer

ASSUME JournalAssumption ==
  /\ TradeOf \in [Orders -> Trades]
  /\ MaxPosts \in Nat \ {0}
  /\ MaxPolls \in Nat \ {0}
  /\ NoOrder \notin Orders

VARIABLES
  orders,   \* exchange: status of every order, "unplaced" before it is taken
  held,     \* exchange: the position in a trade's token
  signed,   \* orders some buy has signed
  journal,  \* the rows of positions.json, in order
  pc,       \* per process: next step of its command
  order,    \* per process: the order its buy has signed
  tries,    \* per process: posts or polls made so far
  answer,   \* per process: order status last fetched
  local,    \* per process: the rows its listing has read
  remote,   \* per process: the positions its listing has fetched
  row       \* per process: the row its listing is at

exchange == <<orders, held, signed>>
memory == <<order, tries, answer, local, remote, row>>
vars == <<exchange, journal, pc, memory>>

OrderStatuses == {"PENDING", "OPEN", "FILLED", "CANCELLED"}
Holdings == {"none", "OPEN", "CLOSED", "redeemed"}
Row == [id : Trades, order : Orders, orderStatus : OrderStatuses,
        status : OrderStatuses \cup Holdings]
Steps == {"idle", "post", "poll", "persist", "fetch", "row", "mark"}

TypeOK ==
  /\ orders \in [Orders -> OrderStatuses \cup {"unplaced"}]
  /\ held \in [Trades -> Holdings]
  /\ signed \in SUBSET Orders
  /\ journal \in Seq(Row)
  /\ pc \in [Procs -> Steps]
  /\ order \in [Procs -> Orders \cup {NoOrder}]
  /\ tries \in [Procs -> Nat]
  /\ answer \in [Procs -> OrderStatuses \cup {NoAnswer}]
  /\ local \in [Procs -> Seq(Row)]
  /\ remote \in [Procs -> [Trades -> Holdings]]
  /\ row \in [Procs -> Nat]

Nothing == [t \in Trades |-> "none"]

Init ==
  /\ orders = [h \in Orders |-> "unplaced"]
  /\ held = Nothing
  /\ signed = {}
  /\ journal = <<>>
  /\ pc = [p \in Procs |-> "idle"]
  /\ order = [p \in Procs |-> NoOrder]
  /\ tries = [p \in Procs |-> 0]
  /\ answer = [p \in Procs |-> NoAnswer]
  /\ local = [p \in Procs |-> <<>>]
  /\ remote = [p \in Procs |-> Nothing]
  /\ row = [p \in Procs |-> 0]

-----------------------------------------------------------------------------
(* The exchange (external).                                                *)

(* An order may be taken in either state; a repeated post of the same      *)
(* signed order leaves the first one as it is.                             *)
Taken(h) ==
  IF orders[h] = "unplaced" THEN {[orders EXCEPT ![h] = s] : s \in {"PENDING", "OPEN"}}
  ELSE {orders}

MoveOrder(h) ==
  /\ \/ orders[h] = "PENDING" /\ \E s \in {"OPEN", "CANCELLED"} :
                                   orders' = [orders EXCEPT ![h] = s]
     \/ orders[h] = "OPEN" /\ \E s \in {"FILLED", "CANCELLED"} :
                                   orders' = [orders EXCEPT ![h] = s]
  /\ UNCHANGED <<held, signed, journal, pc, memory>>

(* A filled order shows up as a position, whose status is the trading      *)
(* status of its market; when it is redeemed it is no longer listed.       *)
MovePosition(t) ==
  /\ \/ /\ held[t] = "none"
        /\ \E h \in Orders : TradeOf[h] = t /\ orders[h] = "FILLED"
        /\ held' = [held EXCEPT ![t] = "OPEN"]
     \/ held[t] = "OPEN" /\ held' = [held EXCEPT ![t] = "CLOSED"]
     \/ held[t] = "CLOSED" /\ held' = [held EXCEPT ![t] = "redeemed"]
  /\ UNCHANGED <<orders, signed, journal, pc, memory>>

Listed(positions, t) == positions[t] \in {"OPEN", "CLOSED"}

-----------------------------------------------------------------------------
(* What a command kept in memory goes with it. *)
Finish(p) ==
  /\ pc' = [pc EXCEPT ![p] = "idle"]
  /\ order' = [order EXCEPT ![p] = NoOrder]
  /\ tries' = [tries EXCEPT ![p] = 0]
  /\ answer' = [answer EXCEPT ![p] = NoAnswer]
  /\ local' = [local EXCEPT ![p] = <<>>]
  /\ remote' = [remote EXCEPT ![p] = Nothing]
  /\ row' = [row EXCEPT ![p] = 0]

Goto(p, step) == pc' = [pc EXCEPT ![p] = step]

(* buy, up to the signature.  An error before it leaves no trace.          *)
SignOrder(p) ==
  /\ pc[p] = "idle"
  /\ \E h \in Orders \ signed :
       /\ signed' = signed \cup {h}
       /\ order' = [order EXCEPT ![p] = h]
  /\ Goto(p, "post")
  /\ UNCHANGED <<orders, held, journal, tries, answer, local, remote, row>>

(* create_order: the post is answered.                                     *)
PostAnswered(p) ==
  /\ pc[p] = "post"
  /\ orders' \in Taken(order[p])
  /\ answer' = [answer EXCEPT ![p] = orders'[order[p]]]
  /\ tries' = [tries EXCEPT ![p] = 0]
  /\ Goto(p, "poll")
  /\ UNCHANGED <<held, signed, journal, order, local, remote, row>>

(* A transport error, 429 or 5xx before the last attempt: the same signed  *)
(* order is posted again, whether the exchange took it or not.             *)
PostRetried(p) ==
  /\ pc[p] = "post"
  /\ tries[p] + 1 < MaxPosts
  /\ orders' \in Taken(order[p]) \cup {orders}
  /\ tries' = [tries EXCEPT ![p] = @ + 1]
  /\ UNCHANGED <<held, signed, journal, pc, order, answer, local, remote, row>>

(* create_order raises: refused, out of attempts, or an unreadable answer. *)
PostRaises(p) ==
  /\ pc[p] = "post"
  /\ orders' \in Taken(order[p]) \cup {orders}
  /\ Finish(p)
  /\ UNCHANGED <<held, signed, journal>>

(* One round of the polling loop.                                          *)
PollForever(p) ==
  /\ pc[p] = "poll"
  /\ answer' = [answer EXCEPT ![p] = orders[order[p]]]
  /\ tries' = [tries EXCEPT ![p] = 1 - @]
  /\ Goto(p, IF orders[order[p]] \in {"FILLED", "OPEN"} THEN "persist" ELSE "poll")
  /\ UNCHANGED <<exchange, journal, order, local, remote, row>>
Poll(p) ==
  /\ pc[p] = "poll"
  /\ answer' = [answer EXCEPT ![p] = orders[order[p]]]
  /\ tries' = [tries EXCEPT ![p] = @ + 1]
  /\ Goto(p, IF orders[order[p]] \in {"FILLED", "OPEN"} \/ tries[p] + 1 = MaxPolls
             THEN "persist" ELSE "poll")
  /\ UNCHANGED <<exchange, journal, order, local, remote, row>>

(* get_order raises out of the loop: the buy fails and nothing is stored.  *)
PollRaises(p) ==
  /\ pc[p] = "poll"
  /\ Finish(p)
  /\ UNCHANGED <<exchange, journal>>

(* _persist_local_position: whatever the order's status, the position is   *)
(* journaled as OPEN.                                                      *)
Persist(p) ==
  /\ pc[p] = "persist"
  /\ journal' = Put(journal, [id |-> TradeOf[order[p]], order |-> order[p],
                              orderStatus |-> answer[p], status |-> "OPEN"])
  /\ Finish(p)
  /\ UNCHANGED exchange

-----------------------------------------------------------------------------
(* _merge_positions reads the journal once.                                *)
ListLocal(p) ==
  /\ pc[p] = "idle"
  /\ local' = [local EXCEPT ![p] = journal]
  /\ Goto(p, "fetch")
  /\ UNCHANGED <<exchange, journal, order, tries, answer, remote, row>>

(* _fetch_remote_positions; an error ends the command (ListRaises).        *)
FetchPositions(p) ==
  /\ pc[p] = "fetch"
  /\ IF local[p] = <<>>
     THEN Finish(p)
     ELSE /\ remote' = [remote EXCEPT ![p] = held]
          /\ row' = [row EXCEPT ![p] = 1]
          /\ Goto(p, "row")
          /\ UNCHANGED <<order, tries, answer, local>>
  /\ UNCHANGED <<exchange, journal>>

(* _fetch_remote_order, for a row without a remote position.  Any          *)
(* exception counts as no answer.                                          *)
NeedsOrder(p) == ~Listed(remote[p], local[p][row[p]].id)
FetchOrder(p) ==
  /\ pc[p] = "row"
  /\ answer' = [answer EXCEPT ![p] =
       IF NeedsOrder(p) THEN orders[local[p][row[p]].order] ELSE NoAnswer]
  /\ Goto(p, "mark")
  /\ UNCHANGED <<exchange, journal, order, tries, local, remote, row>>
FetchOrderFails(p) ==
  /\ pc[p] = "row"
  /\ NeedsOrder(p)
  /\ answer' = [answer EXCEPT ![p] = NoAnswer]
  /\ Goto(p, "mark")
  /\ UNCHANGED <<exchange, journal, order, tries, local, remote, row>>

(* _resolve_position_status: remote position, else remote order, else the  *)
(* journal's own status.                                                   *)
ResolvedOnce(r, positions, fetched) ==
  IF r.status # "OPEN" THEN r.status
  ELSE IF Listed(positions, r.id) THEN positions[r.id]
  ELSE IF fetched # NoAnswer THEN fetched
  ELSE r.status
ResolvedGone(r, positions, fetched) ==
  IF Listed(positions, r.id) THEN positions[r.id]
  ELSE IF fetched = "FILLED" THEN "CLOSED"
  ELSE IF fetched # NoAnswer THEN fetched
  ELSE r.status
Resolved(r, positions, fetched) ==
  IF Listed(positions, r.id) THEN positions[r.id]
  ELSE IF fetched # NoAnswer THEN fetched
  ELSE r.status

(* The row as it was read, with its statuses brought up to date.           *)
RefreshedLeaks(p) ==
  [local[p][row[p]] EXCEPT !.order = local[p][1].order,
                           !.status = Resolved(local[p][row[p]], remote[p], answer[p])]
RefreshedUnguarded(p) ==
  [local[p][row[p]] EXCEPT !.status = Resolved(local[p][row[p]], remote[p], answer[p]),
                           !.orderStatus = answer[p]]
RefreshedDefault(p) ==
  [local[p][row[p]] EXCEPT !.status = Resolved(local[p][row[p]], remote[p], answer[p]),
                           !.orderStatus = IF answer[p] = NoAnswer THEN "OPEN" ELSE answer[p]]
Refreshed(p) ==
  [local[p][row[p]] EXCEPT !.status = Resolved(local[p][row[p]], remote[p], answer[p]),
                           !.orderStatus = IF answer[p] = NoAnswer THEN @ ELSE answer[p]]

(* The rest of a row's turn, once its market price has been fetched: it is *)
(* upserted when either status has changed.                                *)
WriteBack(p) ==
  /\ pc[p] = "mark"
  /\ journal' = IF Refreshed(p) = local[p][row[p]] THEN journal
                ELSE Put(journal, Refreshed(p))
  /\ IF row[p] = Len(local[p])
     THEN Finish(p)
     ELSE /\ row' = [row EXCEPT ![p] = @ + 1]
          /\ answer' = [answer EXCEPT ![p] = NoAnswer]
          /\ Goto(p, "row")
          /\ UNCHANGED <<order, tries, local, remote>>
  /\ UNCHANGED exchange

(* The positions or a row's market cannot be fetched: the rows that are    *)
(* left keep what the journal says of them.                                *)
ListRaises(p) ==
  /\ pc[p] \in {"fetch", "mark"}
  /\ Finish(p)
  /\ UNCHANGED <<exchange, journal>>

(* The process dies.                                                       *)
Die(p) ==
  /\ pc[p] # "idle"
  /\ Finish(p)
  /\ UNCHANGED <<exchange, journal>>

BuyStep(p) ==
  \/ PostAnswered(p) \/ PostRetried(p) \/ PostRaises(p)
  \/ Poll(p) \/ PollRaises(p) \/ Persist(p)
ListStep(p) ==
  \/ FetchPositions(p) \/ FetchOrder(p) \/ FetchOrderFails(p)
  \/ WriteBack(p) \/ ListRaises(p)

Next ==
  \/ \E p \in Procs : SignOrder(p) \/ BuyStep(p) \/ ListLocal(p) \/ ListStep(p) \/ Die(p)
  \/ \E h \in Orders : MoveOrder(h)
  \/ \E t \in Trades : MovePosition(t)

Spec == Init /\ [][Next]_vars

(* A command takes its next step.  The operator lists positions again and  *)
(* again, and for every row it happens again and again that its order and  *)
(* its market are both answered in one turn.  Nothing is asked of the      *)
(* exchange's orders and positions: they may rest at any point.            *)
TurnAnswered(p, k) ==
  row[p] = k /\ (NeedsOrder(p) => answer[p] # NoAnswer) /\ WriteBack(p)
FairSpec ==
  /\ Spec
  /\ \A p \in Procs :
       /\ WF_vars(BuyStep(p)) /\ WF_vars(ListStep(p))
       /\ SF_vars(ListLocal(p)) /\ SF_vars(FetchPositions(p))
  /\ \A p \in Procs, k \in 1 .. MaxRows :
       SF_vars(row[p] = k /\ FetchOrder(p)) /\ SF_vars(TurnAnswered(p, k))

-----------------------------------------------------------------------------
(* However a post or a poll ends, the journal only names orders that the   *)
(* exchange has taken.                                                     *)
JournalNamesPlacedOrders ==
  \A i \in DOMAIN journal : orders[journal[i].order] # "unplaced"

(* One position, one row.                                                  *)
OneRowPerPosition == UniqueIds(journal)

(* A listing brings statuses up to date and leaves alone which order a     *)
(* position is bound to: that is a buy's doing.                            *)
OrderOf(table, t) == {table[i].order : i \in {j \in DOMAIN table : table[j].id = t}}
ListingKeepsOrders ==
  [][\A p \in Procs : WriteBack(p) =>
       \A t \in Trades : OrderOf(journal', t) = OrderOf(journal, t)]_vars

(* An order that was `past' may be `now'.                                  *)
Follows(now, past) ==
  now = past \/ past = "PENDING" \/ (past = "OPEN" /\ now # "PENDING")

(* What a row says of its order has been so, and CLOSED it says only of a  *)
(* position that was: not of an order that is filled and whose position is *)
(* not listed yet.                                                         *)
Behind(r, taken, positions) ==
  /\ Follows(taken[r.order], r.orderStatus)
  /\ r.status \in {"FILLED", "CANCELLED"} => taken[r.order] = r.status
  /\ r.status = "CLOSED" => positions[r.id] \in {"CLOSED", "redeemed"}

(* However a post or a poll ends, and however long ago a command fetched   *)
(* what it writes, the journal is never ahead of the exchange: neither of  *)
(* which orders it has taken nor of what became of them.                   *)
JournalNeverAhead ==
  /\ JournalNamesPlacedOrders
  /\ \A i \in DOMAIN journal : Behind(journal[i], orders, held)

(* With commands one at a time: what the journal shows of an order's       *)
(* status never goes back, whichever lookups fail.  An answer is kept      *)
(* until there is a later one.                                             *)
OrderStatusMovesForward ==
  [][\A i \in DOMAIN journal, j \in DOMAIN journal' :
       journal'[j].order = journal[i].order
         => Follows(journal'[j].orderStatus, journal[i].orderStatus)]_vars

(* With commands one at a time: the program loses sight of an order in two *)
(* ways only, its buy fails or dies, or a later buy of the same position   *)
(* takes over its row.                                                     *)
InSight(h) ==
  \/ \E i \in DOMAIN journal : journal[i].order = h
  \/ \E p \in Procs : order[p] = h
BuyLost(h) == \E p \in Procs : order[p] = h /\ (PostRaises(p) \/ PollRaises(p) \/ Die(p))
TakenOver(h) ==
  \E p \in Procs : Persist(p) /\ order[p] # h /\ TradeOf[order[p]] = TradeOf[h]
OrdersStayInSight ==
  [][\A h \in Orders : InSight(h) /\ ~InSight(h)' => BuyLost(h) \/ TakenOver(h)]_vars

(* A buy that reports an error has left no order on the exchange.          *)
FailedBuyPlacesNothing ==
  [][\A p \in Procs : PostRaises(p) \/ PollRaises(p)
       => orders'[order[p]] = "unplaced"]_vars

(* A buy comes to an end, also when its order stays pending for ever.      *)
BuyEnds == \A p \in Procs : pc[p] \in {"post", "poll", "persist"} ~> pc[p] = "idle"

(* Remote position truth over remote order truth: when the exchange comes  *)
(* to rest, so does the journal, and every row says what the exchange says *)
(* of the position or, where there is none, of the row's order.            *)
Truth(r) == IF Listed(held, r.id) THEN held[r.id] ELSE orders[r.order]
JournalFindsTruth ==
  <>[](\A i \in DOMAIN journal : journal[i].status = Truth(journal[i]))
=============================================================================
