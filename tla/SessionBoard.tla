---------------------------- MODULE SessionBoard ----------------------------
(***************************************************************************)
(* What the overlay funding commands promise an operator who runs them one *)
(* at a time: a board with one card per fund-and-action session.  A buy    *)
(* that is short of USDT opens a card for its trade; continue-funding and  *)
(* continue-follow-up move one card one column forward and touch no other. *)
(* FundingOverlay implements it.                                           *)
(***************************************************************************)
CONSTANTS
  Sessions, Accounts, Trades, Transfers,
  Results,     \* what continue-follow-up can record
  NoTransfer,  \* marks a card whose funding is not confirmed
  NoCard       \* marks a session that is not on the board

VARIABLE board

(* The buy of a trade is refused for lack of funds.  When the account      *)
(* already holds the plan's target balance the funding column is skipped.  *)
Open(s) ==
  /\ board[s] = NoCard
  /\ \E a \in Accounts, t \in Trades, column \in {"pendingFunding", "pendingFollowUp"} :
       board' = [board EXCEPT ![s] =
         [account |-> a, trade |-> t, status |-> column, transfer |-> NoTransfer]]

(* The transfer that funds the card's account is confirmed. *)
Fund(s) ==
  /\ board[s] # NoCard
  /\ board[s].status = "pendingFunding"
  /\ \E x \in Transfers :
       board' = [board EXCEPT ![s].status = "pendingFollowUp", ![s].transfer = x]

(* The follow-up action of the card has ended. *)
Finish(s) ==
  /\ board[s] # NoCard
  /\ board[s].status = "pendingFollowUp"
  /\ \E r \in Results : board' = [board EXCEPT ![s].status = r]

BoardInit == board = [s \in Sessions |-> NoCard]
BoardNext == \E s \in Sessions : Open(s) \/ Fund(s) \/ Finish(s)
BoardSpec == BoardInit /\ [][BoardNext]_board
=============================================================================
