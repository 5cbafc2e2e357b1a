----------------------------- MODULE BuyFunding -----------------------------
(***************************************************************************)
(* How much a refused buy gets funded: the overlay branch of               *)
(* TradeService.buy, the funding target of build_vault_to_predict_account_ *)
(* orchestration, and the retry the refusal asks for.                      *)
(*                                                                         *)
(* A buy with too small a USDT balance is refused with a funding plan.     *)
(* The plan gets carried out elsewhere, and the buy is tried once more.    *)
(* The shortfall is the server's: what is required, less what is there.    *)
(***************************************************************************)
EXTENDS WalletConfig, Naturals

CONSTANTS
  Target,     \* minimum_target_balance_wei
  MaxUsdt     \* bound: balances and buys are at most this

ASSUME BuyAssumption == Target \in Nat /\ MaxUsdt \in Nat

VARIABLES
  balance,   \* USDT of the Predict Account
  start,     \* what it was when the buy was first tried
  want,      \* amount_wei of the buy
  refused,   \* how often the buy has been refused
  plan,      \* the funding target sent to the server
  other      \* has the balance changed otherwise

buyVars == <<balance, start, want, refused, plan, other>>

NoPlan == [required |-> 0, current |-> 0]

BuyPhases == {"try", "plan", "fund"}

BuyTypeOK ==
  /\ balance \in Nat /\ start \in Nat /\ want \in Nat
  /\ refused \in 0..2
  /\ plan \in [required : Nat, current : Nat]
  /\ other \in BOOLEAN

BuyInit ==
  /\ balance = 0 /\ start = 0 /\ want = 0 /\ refused = 0 /\ plan = NoPlan /\ other = FALSE
BuyReset ==
  /\ balance' = 0 /\ start' = 0 /\ want' = 0 /\ refused' = 0 /\ plan' = NoPlan
  /\ other' = FALSE

-----------------------------------------------------------------------------
Less(a, b) == IF a > b THEN a - b ELSE 0

(* Amounts that are no number, or nothing; nan and infinity. *)
BuyMalformed ==
  /\ phase = "loaded" /\ setup.overlay /\ SdkError = "none"
  /\ Raise("ConfigError", "close") \/ Raise("ArithmeticError", "close")
  /\ UNCHANGED buyVars

BeginBuy ==
  /\ phase = "loaded" /\ setup.overlay /\ SdkError = "none"
  /\ \E b \in 0..MaxUsdt : balance' = b /\ start' = b
  /\ want' \in 1..MaxUsdt
  /\ Go("try")
  /\ UNCHANGED <<refused, plan, other>>

(* The balance is compared with the amount of the buy. *)
Try ==
  /\ phase = "try"
  /\ \/ balance >= want /\ Go("close") /\ refused' = refused
     \/ balance < want /\ refused' = refused + 1 /\ Go(IF refused = 0 THEN "plan" ELSE "close")
  /\ UNCHANGED <<balance, start, want, plan, other>>

(* What is missing of Target, whatever the buy needs. *)
RequiredSwapped(b) == Less(b, Target)
Required(b) == Less(Target, b)

(* wallet deposit, as the refusal asks, reads the balance once more. *)
PlanForgetsBalance ==
  /\ phase = "plan"
  /\ plan' = [required |-> Target, current |-> 0]
  /\ Go("fund")
  /\ UNCHANGED <<balance, start, want, refused, other>>

Plan ==
  /\ phase = "plan"
  /\ plan' = [required |-> Required(balance), current |-> balance]
  /\ Go("fund")
  /\ UNCHANGED <<balance, start, want, refused, other>>

(* fundingShortfallRaw *)
Shortfall == Less(plan.required, plan.current)

(* The transfer of the session's next step, and the buy again. *)
Fund ==
  /\ phase = "fund"
  /\ balance' = balance + Shortfall
  /\ Go("try")
  /\ UNCHANGED <<start, want, refused, plan, other>>

BalanceMoves ==
  /\ ~other /\ phase \in BuyPhases
  /\ other' = TRUE
  /\ balance' \in 0..MaxUsdt
  /\ UNCHANGED <<configVars, start, want, refused, plan>>

BuyStep == BuyMalformed \/ BeginBuy \/ Try \/ Plan \/ Fund

-----------------------------------------------------------------------------
(* "execute the returned session-backed next step before retrying buy": a  *)
(* buy that was refused for its balance is not refused again once its      *)
(* funding has been carried out.                                           *)
FundedBuyGoesThrough == ~other => refused < 2

(* From an empty account it is so for every buy up to the target. *)
FundedFromEmpty == ~other /\ start = 0 /\ want <= Target => refused < 2

(* Carrying out a plan never lifts an account above the target: what the   *)
(* vault gives for a buy is bounded by it.                                 *)
FundingStopsAtTarget ==
  [][phase = "fund" /\ balance' > balance /\ ~other' => balance' <= Target]_balance
=============================================================================
