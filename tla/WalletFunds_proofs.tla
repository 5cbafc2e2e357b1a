------------------------- MODULE WalletFunds_proofs -------------------------
(***************************************************************************)
(* Proofs about WalletCommands: what a refused buy gets funded, what a     *)
(* withdrawal is checked against and what it leaves behind, what the       *)
(* redeem preview and the approval status say, for any target, reserve,    *)
(* gas and balances, and the types of all the parts.                       *)
(***************************************************************************)
EXTENDS WalletCommands_proofs

-----------------------------------------------------------------------------
(* The funding of a buy.                                                   *)

(* Until someone else moves the balance, it is what the buy met first, and *)
(* the plan is made from that; after the funding of an empty account it is *)
(* the target.                                                             *)
TryInv ==
  phase = "try" =>
    /\ refused \in {0, 1}
    /\ ~other => \/ refused = 0 /\ balance = start
                 \/ refused = 1 /\ (start = 0 => balance >= Target)

PlanInv ==
  phase \in {"plan", "fund"} => refused = 1 /\ (~other => balance = start)

FundInv ==
  phase = "fund" /\ ~other =>
    plan.required = Less(Target, start) /\ plan.current = start

RestInv == phase \in {"idle", "loaded"} => refused = 0 /\ ~other

BuyInv == BuyTypeOK /\ TryInv /\ PlanInv /\ FundInv /\ RestInv /\ FundedFromEmpty

LEMMA LessIsNat ==
  ASSUME NEW a \in Nat, NEW b \in Nat
  PROVE  /\ Less(a, b) \in Nat
         /\ b = 0 => Less(a, b) = a
         /\ a >= b => Less(a, b) + b = a
         /\ a <= b => Less(a, b) = 0
         /\ Less(a, b) <= a
BY DEF Less

LEMMA BuyAtRest ==
  ASSUME balance = 0, start = 0, want = 0, refused = 0, plan = NoPlan, other = FALSE,
         phase = "idle"
  PROVE  BuyInv
<1>0. other \in BOOLEAN
  BY Zenon
<1>1. BuyTypeOK
  BY <1>0 DEF BuyTypeOK, NoPlan
<1>2. TryInv /\ PlanInv /\ FundInv /\ RestInv /\ FundedFromEmpty
  BY DEF TryInv, PlanInv, FundInv, RestInv, FundedFromEmpty
<1> QED BY <1>1, <1>2 DEF BuyInv

(* Steps of the other parts. *)
LEMMA BuyUntouched ==
  ASSUME BuyInv, UNCHANGED buyVars,
         \/ phase' = phase
         \/ phase = "idle" /\ phase' = "loaded"
         \/ phase' \notin BuyPhases \cup {"idle", "loaded"}
  PROVE  BuyInv'
<1>1. BuyTypeOK' /\ FundedFromEmpty'
  BY DEF BuyInv, BuyTypeOK, FundedFromEmpty, buyVars
<1>2. TryInv' /\ PlanInv' /\ FundInv'
  BY DEF BuyInv, TryInv, PlanInv, FundInv, buyVars, BuyPhases
<1>3. RestInv'
  BY DEF BuyInv, RestInv, buyVars
<1> QED BY <1>1, <1>2, <1>3 DEF BuyInv

LEMMA BeginBuyKeeps == BuyInv /\ BeginBuy => BuyInv'
<1> SUFFICES ASSUME BuyInv, BeginBuy PROVE BuyInv'
  OBVIOUS
<1>1. /\ phase = "loaded" /\ phase' = "try"
      /\ balance' \in Nat /\ start' = balance' /\ want' \in Nat
      /\ refused' = refused /\ plan' = plan /\ other' = other
  BY BuyAssumption DEF BeginBuy, Go
<1>2. refused = 0 /\ ~other
  BY <1>1 DEF BuyInv, RestInv
<1>3. BuyTypeOK'
  BY <1>1 DEF BuyInv, BuyTypeOK
<1>4. TryInv' /\ PlanInv' /\ FundInv' /\ RestInv' /\ FundedFromEmpty'
  BY <1>1, <1>2 DEF TryInv, PlanInv, FundInv, RestInv, FundedFromEmpty
<1> QED BY <1>3, <1>4 DEF BuyInv

LEMMA TryKeeps == BuyInv /\ Try => BuyInv'
<1> SUFFICES ASSUME BuyInv, Try PROVE BuyInv'
  OBVIOUS
<1>1. /\ phase = "try" /\ refused \in {0, 1}
      /\ UNCHANGED <<balance, start, want, plan, other>>
  BY DEF Try, BuyInv, TryInv
<1>2. CASE balance >= want /\ phase' = "close" /\ refused' = refused
  <2>1. BuyTypeOK'
    BY <1>1, <1>2 DEF BuyInv, BuyTypeOK
  <2>2. TryInv' /\ PlanInv' /\ FundInv' /\ RestInv' /\ FundedFromEmpty'
    BY <1>1, <1>2 DEF TryInv, PlanInv, FundInv, RestInv, FundedFromEmpty
  <2> QED BY <2>1, <2>2 DEF BuyInv
<1>3. CASE /\ balance < want /\ refused' = refused + 1
           /\ phase' = IF refused = 0 THEN "plan" ELSE "close"
  <2>1. BuyTypeOK'
    BY <1>1, <1>3 DEF BuyInv, BuyTypeOK
  <2>2. refused = 0 => TryInv' /\ PlanInv' /\ FundInv' /\ RestInv' /\ FundedFromEmpty'
    BY <1>1, <1>3 DEF BuyInv, TryInv, PlanInv, FundInv, RestInv, FundedFromEmpty
  <2>3. refused = 1 => TryInv' /\ PlanInv' /\ FundInv' /\ RestInv'
    BY <1>1, <1>3 DEF TryInv, PlanInv, FundInv, RestInv
  <2>4. refused = 1 => FundedFromEmpty'
    <3> SUFFICES ASSUME refused = 1, ~other, start = 0, want <= Target PROVE FALSE
      BY <1>1 DEF FundedFromEmpty
    <3>1. balance >= Target
      BY <1>1 DEF BuyInv, TryInv
    <3> QED BY <1>3, <3>1, BuyAssumption DEF BuyInv, BuyTypeOK
  <2> QED BY <1>1, <2>1, <2>2, <2>3, <2>4 DEF BuyInv
<1> QED BY <1>2, <1>3 DEF Try, Go

LEMMA PlanKeeps == BuyInv /\ Plan => BuyInv'
<1> SUFFICES ASSUME BuyInv, Plan PROVE BuyInv'
  OBVIOUS
<1>1. /\ phase = "plan" /\ phase' = "fund"
      /\ plan' = [required |-> Required(balance), current |-> balance]
      /\ UNCHANGED <<balance, start, want, refused, other>>
  BY DEF Plan, Go
<1>2. Required(balance) \in Nat
  BY BuyAssumption, LessIsNat DEF Required, BuyInv, BuyTypeOK
<1>3. BuyTypeOK'
  BY <1>1, <1>2 DEF BuyInv, BuyTypeOK
<1>4. TryInv' /\ PlanInv' /\ RestInv' /\ FundedFromEmpty'
  BY <1>1 DEF BuyInv, TryInv, PlanInv, RestInv, FundedFromEmpty
<1>5. FundInv'
  <2>1. ~other => balance = start
    BY <1>1 DEF BuyInv, PlanInv
  <2> QED BY <1>1, <2>1 DEF FundInv, Required
<1> QED BY <1>3, <1>4, <1>5 DEF BuyInv

(* What the server makes of the plan: an empty account gets the target. *)
LEMMA ShortfallBounds ==
  ASSUME BuyInv, phase = "fund", ~other
  PROVE  /\ Shortfall \in Nat /\ balance = start
         /\ start = 0 => balance + Shortfall >= Target
         /\ Shortfall > 0 => balance + Shortfall <= Target
<1>1. /\ balance = start /\ start \in Nat /\ Target \in Nat
      /\ plan.required = Less(Target, start) /\ plan.current = start
  BY BuyAssumption DEF BuyInv, BuyTypeOK, PlanInv, FundInv
<1>2. /\ Less(Target, start) \in Nat
      /\ start = 0 => Less(Target, start) = Target
      /\ Target >= start => Less(Target, start) + start = Target
      /\ Target <= start => Less(Target, start) = 0
  BY <1>1, LessIsNat
<1> DEFINE need == Less(Target, start)
<1>3. Shortfall = Less(need, start)
  BY <1>1 DEF Shortfall
<1>4. /\ need \in Nat
      /\ start = 0 => need = Target
      /\ Target >= start => need + start = Target
      /\ Target <= start => need = 0
  BY <1>2
<1> HIDE DEF need
<1>5. /\ Shortfall \in Nat /\ Shortfall <= need
      /\ start = 0 => Shortfall = need
  BY <1>1, <1>3, <1>4, LessIsNat
<1> QED BY <1>1, <1>4, <1>5

LEMMA FundKeeps == BuyInv /\ Fund => BuyInv'
<1> SUFFICES ASSUME BuyInv, Fund PROVE BuyInv'
  OBVIOUS
<1>1. /\ phase = "fund" /\ phase' = "try" /\ balance' = balance + Shortfall
      /\ UNCHANGED <<start, want, refused, plan, other>>
  BY DEF Fund, Go
<1>2. Shortfall \in Nat /\ refused = 1
  <2>1. plan.required \in Nat /\ plan.current \in Nat
    BY DEF BuyInv, BuyTypeOK
  <2> QED BY <1>1, <2>1, LessIsNat DEF Shortfall, BuyInv, PlanInv
<1>3. BuyTypeOK'
  BY <1>1, <1>2 DEF BuyInv, BuyTypeOK
<1>4. TryInv'
  BY <1>1, <1>2, ShortfallBounds DEF TryInv
<1>5. PlanInv' /\ FundInv' /\ RestInv' /\ FundedFromEmpty'
  BY <1>1, <1>2 DEF PlanInv, FundInv, RestInv, FundedFromEmpty
<1> QED BY <1>3, <1>4, <1>5 DEF BuyInv

LEMMA BalanceMovesKeeps == BuyInv /\ BalanceMoves => BuyInv'
<1> SUFFICES ASSUME BuyInv, BalanceMoves PROVE BuyInv'
  OBVIOUS
<1>1. /\ other' = TRUE /\ balance' \in Nat /\ phase \in BuyPhases
      /\ UNCHANGED <<phase, start, want, refused, plan>>
  BY BuyAssumption DEF BalanceMoves, configVars
<1>2. BuyTypeOK'
  BY <1>1 DEF BuyInv, BuyTypeOK
<1>3. TryInv' /\ PlanInv' /\ FundInv' /\ RestInv' /\ FundedFromEmpty'
  BY <1>1 DEF BuyInv, TryInv, PlanInv, FundInv, RestInv, FundedFromEmpty, BuyPhases
<1> QED BY <1>2, <1>3 DEF BuyInv

LEMMA BuyInvStep == BuyInv /\ [Next]_vars => BuyInv'
<1> SUFFICES ASSUME BuyInv, [Next]_vars PROVE BuyInv'
  OBVIOUS
<1>1. CASE Start /\ UNCHANGED <<vaultVars, fundsVars, buyVars>>
  BY <1>1, StartPhases, BuyUntouched
<1>2. CASE VaultStep /\ UNCHANGED <<fundsVars, buyVars>>
  <2>1. phase' \notin BuyPhases \cup {"idle", "loaded"}
    BY <1>2, VaultPhasesOnly DEF VaultPhases, TryPhases, BuyPhases
  <2> QED BY <1>2, <2>1, BuyUntouched
<1>3. CASE FundsStep /\ UNCHANGED <<vaultVars, buyVars>>
  <2>1. phase' \notin BuyPhases \cup {"idle", "loaded"}
    BY <1>3, FundsPhasesOnly DEF FundsPhases, WithdrawPhases, RedeemPhases, BuyPhases
  <2> QED BY <1>3, <2>1, BuyUntouched
<1>4. CASE BuyMalformed
  <2>1. phase' = "close" /\ UNCHANGED buyVars
    BY <1>4 DEF BuyMalformed, Raise
  <2> QED BY <2>1, BuyUntouched DEF BuyPhases
<1>5. CASE BeginBuy \/ Try \/ Plan \/ Fund
  BY <1>5, BeginBuyKeeps, TryKeeps, PlanKeeps, FundKeeps
<1>6. CASE Close
  <2>1. /\ balance' = 0 /\ start' = 0 /\ want' = 0 /\ refused' = 0 /\ plan' = NoPlan
        /\ phase' = "idle"
    BY <1>6, CloseResets DEF BuyReset
  <2>2. ~other' /\ other' \in BOOLEAN
    BY <1>6, CloseResets, Zenon DEF BuyReset
  <2>3. BuyTypeOK'
    BY <2>1, <2>2 DEF BuyTypeOK, NoPlan
  <2>4. TryInv' /\ PlanInv' /\ FundInv' /\ RestInv' /\ FundedFromEmpty'
    BY <2>1, <2>2 DEF TryInv, PlanInv, FundInv, RestInv, FundedFromEmpty
  <2> QED BY <2>3, <2>4 DEF BuyInv
<1>7. CASE World
  <2>1. UNCHANGED phase
    BY <1>7, WorldPhases DEF configVars
  <2>2. CASE UNCHANGED buyVars
    BY <2>1, <2>2, BuyUntouched
  <2> QED BY <1>7, <2>2, BalanceMovesKeeps DEF World
<1>8. CASE ApprovalStep /\ UNCHANGED buyVars
  <2>1. phase' \notin BuyPhases \cup {"idle", "loaded"}
    BY <1>8, ApprovalPhasesOnly DEF ApprovalPhases, BuyPhases
  <2> QED BY <1>8, <2>1, BuyUntouched
<1>9. CASE UNCHANGED vars
  BY <1>9, BuyUntouched DEF vars, configVars
<1> QED BY <1>1, <1>2, <1>3, <1>4, <1>5, <1>6, <1>7, <1>8, <1>9 DEF Next, Step, BuyStep

LEMMA InitBuy == Init => BuyInv
<1> SUFFICES ASSUME Init PROVE BuyInv
  OBVIOUS
<1>1. /\ balance = 0 /\ start = 0 /\ want = 0 /\ refused = 0 /\ plan = NoPlan
      /\ phase = "idle"
  BY DEF Init, BuyInit
<1>2. other = FALSE
  BY Zenon DEF Init, BuyInit
<1> QED BY <1>1, <1>2, BuyAtRest

(* A buy of at most the target, refused on an empty account, goes through  *)
(* once the funding of the refusal has been carried out (TradeService.buy  *)
(* and the target of build_vault_to_predict_account_orchestration).        *)
THEOREM FundingServesEmpty == Spec => []FundedFromEmpty
<1>1. BuyInv => FundedFromEmpty
  BY DEF BuyInv
<1> QED BY InitBuy, BuyInvStep, <1>1, PTL DEF Spec

(* Carrying out a funding plan never lifts an account above the target.    *)
THEOREM FundingIsBounded == Spec => FundingStopsAtTarget
<1>1. ASSUME BuyInv, [Next]_vars, phase = "fund", balance' > balance, ~other'
      PROVE  balance' <= Target
  <2>1. CASE Fund
    <3>1. ~other /\ balance' = balance + Shortfall
      BY <1>1, <2>1 DEF Fund
    <3>2. Shortfall > 0
      BY <1>1, <3>1, ShortfallBounds DEF BuyInv, BuyTypeOK
    <3> QED BY <1>1, <3>1, <3>2, ShortfallBounds
  <2>2. ASSUME UNCHANGED balance PROVE FALSE
    BY <1>1, <2>2 DEF BuyInv, BuyTypeOK
  <2>3. CASE BuyMalformed \/ BeginBuy \/ Try \/ Plan
    BY <1>1, <2>2, <2>3 DEF BuyMalformed, BeginBuy, Try, Plan, buyVars
  <2>4. CASE UNCHANGED buyVars
    BY <2>2, <2>4 DEF buyVars
  <2>5. CASE BalanceMoves
    BY <1>1, <2>5 DEF BalanceMoves
  <2>6. CASE Close
    BY <1>1, <2>6, CloseResets
  <2> QED BY <1>1, <2>1, <2>3, <2>4, <2>5, <2>6 DEF Next, Step, World, BuyStep, vars, buyVars
<1>2. BuyInv /\ [Next]_vars => [phase = "fund" /\ balance' > balance /\ ~other' => balance' <= Target]_balance
  BY <1>1
<1> QED BY InitBuy, BuyInvStep, <1>2, PTL DEF Spec, FundingStopsAtTarget

-----------------------------------------------------------------------------
(* Withdrawals and the redeem preview.                                     *)

(* Until someone else moves a balance, what has been read is what is       *)
(* there; a transfer is of an amount the checks have passed.               *)
WithdrawInv ==
  /\ phase \in WithdrawPhases => order.asset \in {"usdt", "bnb"} /\ paid = "no"
  /\ phase = "readUsdt" /\ ~moved => seen.bnb = funds.bnb
  /\ phase \in {"decide", "transfer"} /\ ~moved =>
       seen.bnb = funds.bnb /\ seen.usdt = funds.usdt
  /\ phase = "transfer" => Covered(amount) /\ (order.all => amount = Wanted)

TrialFits ==
  /\ trial = "none" => shares.request = 0
  /\ trial = "ok" => shares.request \in 1..vault.limit /\ ~vault.paused
  /\ trial \in {"maxRedeem", "maxWithdraw"} => shares.request > vault.limit

RedeemInv ==
  /\ phase \in RedeemPhases => verdict = "unjudged" /\ vault.limit <= vault.shares
  /\ phase \in {"readMax", "simulate", "judge"} /\ ~moved => shares.balance = vault.shares
  /\ phase \in {"simulate", "judge"} /\ ~moved => shares.max \in {vault.limit, Unknown}
  /\ phase = "judge" /\ ~moved => TrialFits

FundsRestInv == phase \in {"idle", "loaded"} => paid = "no" /\ verdict = "unjudged"

FundsInv ==
  /\ FundsTypeOK /\ FundsRestInv
  /\ WithdrawInv /\ ReserveRemains
  /\ RedeemInv /\ RedeemableIsSo

LEMMA WithdrawUntouched ==
  ASSUME FundsInv, UNCHANGED <<withdrawVars, moved, setup>>, phase' \notin WithdrawPhases
  PROVE  WithdrawInv' /\ ReserveRemains'
<1>1. WithdrawInv'
  BY DEF WithdrawInv, WithdrawPhases
<1>2. ReserveRemains'
  BY DEF FundsInv, ReserveRemains, withdrawVars
<1> QED BY <1>1, <1>2

LEMMA RedeemUntouched ==
  ASSUME FundsInv, UNCHANGED <<redeemVars, moved>>, phase' \notin RedeemPhases
  PROVE  RedeemInv' /\ RedeemableIsSo'
<1>1. RedeemInv'
  BY DEF RedeemInv, RedeemPhases
<1>2. RedeemableIsSo'
  BY DEF FundsInv, RedeemableIsSo, redeemVars
<1> QED BY <1>1, <1>2

(* Steps of the other parts, and endings. *)
LEMMA FundsUntouched ==
  ASSUME FundsInv, UNCHANGED fundsVars,
         \/ UNCHANGED <<phase, setup>>
         \/ phase = "idle" /\ phase' \in {"idle", "loaded"}
         \/ phase' \notin FundsPhases \cup {"idle", "loaded"} /\ UNCHANGED setup
  PROVE  FundsInv'
<1>1. FundsTypeOK'
  BY DEF FundsInv, FundsTypeOK, fundsVars
<1>2. FundsRestInv'
  BY DEF FundsInv, FundsRestInv, fundsVars
<1>3. WithdrawInv'
  BY DEF FundsInv, WithdrawInv, fundsVars, FundsPhases, WithdrawPhases, Covered, Wanted, Spare, Parsed
<1>4. ReserveRemains'
  BY DEF FundsInv, FundsRestInv, ReserveRemains, fundsVars
<1>5. RedeemInv' /\ RedeemableIsSo'
  BY DEF FundsInv, RedeemInv, RedeemableIsSo, TrialFits, fundsVars, FundsPhases, RedeemPhases
<1> QED BY <1>1, <1>2, <1>3, <1>4, <1>5 DEF FundsInv

LEMMA BeginWithdrawKeeps == FundsInv /\ BeginWithdraw => FundsInv'
<1> SUFFICES ASSUME FundsInv, BeginWithdraw PROVE FundsInv'
  OBVIOUS
<1>1. /\ phase = "loaded" /\ phase' = "readBnb" /\ UNCHANGED <<seen, moved, amount, paid, redeemVars>>
      /\ paid = "no"
      /\ order' \in [asset : {"usdt", "bnb"}, all : BOOLEAN, text : Texts, halves : Halves]
      /\ funds' \in [bnb : Amounts, usdt : Amounts, gas : 0..MaxGas]
  BY DEF BeginWithdraw, Go, FundsInv, FundsRestInv
<1>2. FundsTypeOK'
  <2>1. order' \in [asset : {"none", "usdt", "bnb"}, all : BOOLEAN, text : Texts, halves : Halves]
    BY <1>1
  <2> QED BY <1>1, <2>1 DEF FundsInv, FundsTypeOK, redeemVars
<1>3. WithdrawInv' /\ FundsRestInv' /\ ReserveRemains'
  BY <1>1 DEF WithdrawInv, FundsRestInv, ReserveRemains
<1>4. RedeemInv' /\ RedeemableIsSo'
  BY <1>1, RedeemUntouched DEF RedeemPhases
<1> QED BY <1>2, <1>3, <1>4 DEF FundsInv

LEMMA ReadBnbKeeps == FundsInv /\ ReadBnb => FundsInv'
<1> SUFFICES ASSUME FundsInv, ReadBnb PROVE FundsInv'
  OBVIOUS
<1>1. /\ phase = "readBnb" /\ phase' = "readUsdt"
      /\ seen' = [seen EXCEPT !.bnb = funds.bnb]
      /\ UNCHANGED <<order, funds, moved, amount, paid, redeemVars>>
  BY DEF ReadBnb, Go
<1>2. FundsTypeOK' /\ seen'.bnb = funds.bnb
  BY <1>1 DEF FundsInv, FundsTypeOK, redeemVars
<1>3. WithdrawInv' /\ FundsRestInv' /\ ReserveRemains'
  BY <1>1, <1>2 DEF FundsInv, WithdrawInv, WithdrawPhases, FundsRestInv, ReserveRemains
<1>4. RedeemInv' /\ RedeemableIsSo'
  BY <1>1, RedeemUntouched DEF RedeemPhases
<1> QED BY <1>2, <1>3, <1>4 DEF FundsInv

LEMMA ReadUsdtKeeps == FundsInv /\ ReadUsdt => FundsInv'
<1> SUFFICES ASSUME FundsInv, ReadUsdt PROVE FundsInv'
  OBVIOUS
<1>1. /\ phase = "readUsdt" /\ phase' = "decide"
      /\ seen' = [seen EXCEPT !.usdt = funds.usdt]
      /\ UNCHANGED <<order, funds, moved, amount, paid, redeemVars>>
  BY DEF ReadUsdt, Go
<1>2. FundsTypeOK' /\ seen'.usdt = funds.usdt /\ seen'.bnb = seen.bnb
  BY <1>1 DEF FundsInv, FundsTypeOK, redeemVars
<1>3. WithdrawInv' /\ FundsRestInv' /\ ReserveRemains'
  BY <1>1, <1>2 DEF FundsInv, WithdrawInv, WithdrawPhases, FundsRestInv, ReserveRemains
<1>4. RedeemInv' /\ RedeemableIsSo'
  BY <1>1, RedeemUntouched DEF RedeemPhases
<1> QED BY <1>2, <1>3, <1>4 DEF FundsInv

(* The amounts a withdrawal computes are of the model's range. *)
LEMMA WantedInRange ==
  ASSUME FundsInv, order.asset \in {"usdt", "bnb"}
  PROVE  Wanted \in 0..(MaxBalance + 1)
<1>1. /\ order.halves \in 0..(2 * MaxBalance + 2) /\ order.all \in BOOLEAN
      /\ seen.usdt \in 0..MaxBalance /\ seen.bnb \in 0..MaxBalance
      /\ Headroom \in Nat /\ MaxBalance \in Nat
  BY FundsAssumption DEF FundsInv, FundsTypeOK, Halves, Amounts
<1>2. order.halves \div 2 \in 0..(MaxBalance + 1)
  <2> DEFINE h == order.halves
             q == h \div 2
  <2>1. h \in Nat /\ h <= 2 * MaxBalance + 2
    BY <1>1
  <2> HIDE DEF h
  <2>2. q \in Nat /\ 2 * q <= h
    BY <2>1
  <2> HIDE DEF q
  <2>3. q <= MaxBalance + 1
    BY <1>1, <2>1, <2>2
  <2> QED BY <2>2, <2>3, <1>1 DEF q, h
<1>3. Spare(seen.bnb) \in 0..(MaxBalance + 1)
  BY <1>1 DEF Spare
<1>4. CASE ~order.all
  BY <1>2, <1>4 DEF Wanted, Parsed
<1>5. CASE order.all /\ order.asset = "usdt"
  BY <1>1, <1>5 DEF Wanted
<1>6. CASE order.all /\ order.asset = "bnb"
  BY <1>3, <1>6 DEF Wanted
<1> QED BY <1>1, <1>4, <1>5, <1>6

LEMMA DecideKeeps == FundsInv /\ Decide => FundsInv'
<1> SUFFICES ASSUME FundsInv, Decide PROVE FundsInv'
  OBVIOUS
<1>1. /\ phase = "decide" /\ UNCHANGED <<order, funds, seen, moved, paid, redeemVars>>
      /\ order.asset \in {"usdt", "bnb"} /\ paid = "no"
      /\ UNCHANGED setup
  BY DEF Decide, FundsInv, WithdrawInv, WithdrawPhases, Go, Raise
<1>2. \/ phase' = "close" /\ amount' \in {amount, Wanted}
      \/ phase' = "transfer" /\ amount' = Wanted /\ Covered(Wanted)
  BY DEF Decide, Go, Raise
<1>3. FundsTypeOK'
  BY <1>1, <1>2, WantedInRange DEF FundsInv, FundsTypeOK, redeemVars
<1>4. WithdrawInv'
  <2>1. CASE phase' = "close"
    BY <2>1 DEF WithdrawInv, WithdrawPhases
  <2>2. CASE phase' = "transfer" /\ amount' = Wanted /\ Covered(Wanted)
    <3>1. Covered(Wanted)' <=> Covered(Wanted)
      BY <1>1 DEF Covered, Wanted, Parsed, Spare
    <3>2. Covered(amount)' /\ (order.all => amount = Wanted)'
      BY <1>1, <2>2 DEF Covered, Wanted, Parsed, Spare
    <3> QED BY <1>1, <2>2, <3>2 DEF FundsInv, WithdrawInv
  <2> QED BY <1>2, <2>1, <2>2
<1>5. FundsRestInv' /\ ReserveRemains'
  BY <1>1, <1>2 DEF FundsRestInv, ReserveRemains
<1>6. RedeemInv' /\ RedeemableIsSo'
  BY <1>1, <1>2, RedeemUntouched DEF RedeemPhases
<1> QED BY <1>3, <1>4, <1>5, <1>6 DEF FundsInv

(* What a covered amount leaves, at the balances that were checked.        *)
LEMMA CoveredLeaves ==
  ASSUME FundsInv, phase = "transfer", ~moved
  PROVE  /\ funds.bnb \in Nat /\ funds.usdt \in Nat /\ amount \in Nat
         /\ Headroom \in Nat /\ MaxGas \in Nat /\ MaxGas <= Headroom
         /\ funds.bnb > Headroom
         /\ order.asset = "usdt" => amount <= funds.usdt
         /\ order.asset = "bnb" => amount + Headroom <= funds.bnb
         /\ order.all /\ order.asset = "usdt" => amount = funds.usdt
         /\ order.all /\ order.asset = "bnb" => amount + Headroom = funds.bnb
         /\ order.asset \in {"usdt", "bnb"}
<1>1. /\ funds.bnb \in Nat /\ funds.usdt \in Nat /\ amount \in Nat
      /\ Headroom \in Nat /\ MaxGas \in Nat /\ MaxGas <= Headroom
  BY FundsAssumption DEF FundsInv, FundsTypeOK, Amounts
<1>2. /\ seen.bnb = funds.bnb /\ seen.usdt = funds.usdt
      /\ Covered(amount) /\ (order.all => amount = Wanted)
      /\ order.asset \in {"usdt", "bnb"}
  BY DEF FundsInv, WithdrawInv, WithdrawPhases
<1>3. /\ funds.bnb > Headroom
      /\ order.asset = "usdt" => amount <= funds.usdt
      /\ order.asset = "bnb" => amount + Headroom <= funds.bnb
  BY <1>1, <1>2 DEF Covered
<1>4. ASSUME order.all, order.asset = "usdt" PROVE amount = funds.usdt
  BY <1>2, <1>4 DEF Wanted
<1>5. ASSUME order.all, order.asset = "bnb" PROVE amount + Headroom = funds.bnb
  <2>1. amount = Spare(funds.bnb)
    BY <1>2, <1>5 DEF Wanted
  <2> QED BY <1>1, <1>3, <2>1 DEF Spare
<1> QED BY <1>1, <1>2, <1>3, <1>4, <1>5

LEMMA TransferKeeps == FundsInv /\ Transfer => FundsInv'
<1> SUFFICES ASSUME FundsInv, Transfer PROVE FundsInv'
  OBVIOUS
<1>1. /\ phase = "transfer" /\ phase' = "close" /\ UNCHANGED setup
      /\ UNCHANGED <<order, seen, moved, amount, redeemVars>>
  BY DEF Transfer, Go, Raise
<1>2. PICK g \in 0..MaxGas :
        \/ Payable(amount, g) /\ funds' = Spend(amount, g) /\ paid' = "sent"
        \/ Payable(0, g) /\ funds' = Spend(0, g) /\ paid' = "reverted"
        \/ UNCHANGED <<funds, paid>>
  BY DEF Transfer
<1>3. /\ funds \in [bnb : Amounts, usdt : Amounts, gas : 0..MaxGas]
      /\ g \in Nat /\ g <= MaxGas /\ MaxGas \in Nat /\ MaxBalance \in Nat
      /\ amount \in Nat /\ order.asset \in {"usdt", "bnb"}
  BY <1>1, FundsAssumption DEF FundsInv, FundsTypeOK, WithdrawInv, WithdrawPhases
<1>4. ASSUME NEW n \in Nat, Payable(n, g)
      PROVE  Spend(n, g) \in [bnb : Amounts, usdt : Amounts, gas : 0..MaxGas]
  <2>1. FromBnb(n, g) \in Nat /\ FromUsdt(n) \in Nat /\ FromGas(g) \in Nat
    BY <1>3 DEF FromBnb, FromUsdt, FromGas
  <2> QED BY <1>3, <1>4, <2>1 DEF Payable, Spend, Amounts
<1>5. FundsTypeOK'
  <2>1. funds' \in [bnb : Amounts, usdt : Amounts, gas : 0..MaxGas]
    BY <1>2, <1>3, <1>4
  <2>2. paid' \in {"no", "sent", "reverted"}
    BY <1>2 DEF FundsInv, FundsTypeOK
  <2> QED BY <1>1, <2>1, <2>2 DEF FundsInv, FundsTypeOK, redeemVars
<1>6. WithdrawInv' /\ FundsRestInv'
  BY <1>1 DEF WithdrawInv, WithdrawPhases, FundsRestInv
<1>7. ReserveRemains'
  <2>1. SUFFICES ASSUME paid' = "sent", setup.mode = "eoa", ~moved
                 PROVE  /\ funds'.bnb + MaxGas >= Headroom
                        /\ order.all /\ order.asset = "usdt" => funds'.usdt = 0
                        /\ order.all /\ order.asset = "bnb" => funds'.bnb <= Headroom
    BY <1>1 DEF ReserveRemains
  <2>2. paid = "no"
    BY <1>1 DEF FundsInv, WithdrawInv, WithdrawPhases
  <2>3. funds' = Spend(amount, g)
    BY <1>2, <2>1, <2>2
  <2>4. /\ funds'.bnb = funds.bnb - (IF order.asset = "bnb" THEN amount ELSE 0) - g
        /\ funds'.usdt = funds.usdt - (IF order.asset = "usdt" THEN amount ELSE 0)
    BY <1>1, <1>3, <2>1, <2>3, CoveredLeaves DEF Spend, FromBnb, FromUsdt
  <2> QED BY <1>1, <1>3, <2>1, <2>4, CoveredLeaves
<1>8. RedeemInv' /\ RedeemableIsSo'
  BY <1>1, RedeemUntouched DEF RedeemPhases
<1> QED BY <1>5, <1>6, <1>7, <1>8 DEF FundsInv

LEMMA BeginRedeemKeeps == FundsInv /\ BeginRedeem => FundsInv'
<1> SUFFICES ASSUME FundsInv, BeginRedeem PROVE FundsInv'
  OBVIOUS
<1>1. /\ phase = "loaded" /\ phase' = "readShares" /\ UNCHANGED setup
      /\ vault' \in [shares : Amounts, limit : Amounts, paused : BOOLEAN]
      /\ vault'.limit <= vault'.shares
      /\ \E all \in BOOLEAN : shares' = [shares EXCEPT !.all = all]
      /\ UNCHANGED <<withdrawVars, moved, trial, verdict>>
      /\ verdict = "unjudged"
  BY DEF BeginRedeem, Go, FundsInv, FundsRestInv
<1>2. FundsTypeOK'
  BY <1>1 DEF FundsInv, FundsTypeOK, withdrawVars
<1>3. RedeemInv' /\ RedeemableIsSo' /\ FundsRestInv'
  BY <1>1 DEF RedeemInv, RedeemableIsSo, FundsRestInv
<1>4. WithdrawInv' /\ ReserveRemains'
  BY <1>1, WithdrawUntouched DEF WithdrawPhases
<1> QED BY <1>2, <1>3, <1>4 DEF FundsInv

LEMMA ReadSharesKeeps == FundsInv /\ ReadShares => FundsInv'
<1> SUFFICES ASSUME FundsInv, ReadShares PROVE FundsInv'
  OBVIOUS
<1>1. /\ phase = "readShares" /\ phase' = "readMax" /\ UNCHANGED setup
      /\ shares' = [shares EXCEPT !.balance = vault.shares]
      /\ UNCHANGED <<withdrawVars, moved, vault, trial, verdict>>
      /\ verdict = "unjudged" /\ vault.limit <= vault.shares
  BY DEF ReadShares, Go, FundsInv, RedeemInv, RedeemPhases
<1>2. FundsTypeOK' /\ shares'.balance = vault.shares
  BY <1>1 DEF FundsInv, FundsTypeOK, withdrawVars
<1>3. RedeemInv' /\ RedeemableIsSo' /\ FundsRestInv'
  BY <1>1, <1>2 DEF RedeemInv, RedeemableIsSo, FundsRestInv
<1>4. WithdrawInv' /\ ReserveRemains'
  BY <1>1, WithdrawUntouched DEF WithdrawPhases
<1> QED BY <1>2, <1>3, <1>4 DEF FundsInv

LEMMA ReadMaxKeeps == FundsInv /\ ReadMax => FundsInv'
<1> SUFFICES ASSUME FundsInv, ReadMax PROVE FundsInv'
  OBVIOUS
<1>1. /\ phase = "readMax" /\ phase' = "simulate" /\ UNCHANGED setup
      /\ UNCHANGED <<withdrawVars, moved, vault, trial, verdict>>
      /\ verdict = "unjudged" /\ vault.limit <= vault.shares
      /\ ~moved => shares.balance = vault.shares
  BY DEF ReadMax, Go, FundsInv, RedeemInv, RedeemPhases
<1>2. PICK max \in {vault.limit, Unknown} :
        shares' = [shares EXCEPT !.max = max,
                     !.request = IF shares.all \/ max = Unknown THEN shares.balance ELSE max]
  BY DEF ReadMax
<1>3. /\ shares \in [balance : Amounts, max : Amounts \cup {Unknown}, request : Amounts,
                     all : BOOLEAN]
      /\ vault.limit \in Amounts
  BY DEF FundsInv, FundsTypeOK
<1>4. /\ shares' \in [balance : Amounts, max : Amounts \cup {Unknown}, request : Amounts,
                      all : BOOLEAN]
      /\ shares'.max = max /\ shares'.balance = shares.balance
  BY <1>2, <1>3
<1>5. FundsTypeOK'
  BY <1>1, <1>4 DEF FundsInv, FundsTypeOK, withdrawVars
<1>6. RedeemInv' /\ RedeemableIsSo' /\ FundsRestInv'
  BY <1>1, <1>4 DEF RedeemInv, RedeemableIsSo, FundsRestInv
<1>7. WithdrawInv' /\ ReserveRemains'
  BY <1>1, WithdrawUntouched DEF WithdrawPhases
<1> QED BY <1>5, <1>6, <1>7 DEF FundsInv

LEMMA SimulateKeeps == FundsInv /\ Simulate => FundsInv'
<1> SUFFICES ASSUME FundsInv, Simulate PROVE FundsInv'
  OBVIOUS
<1>1. /\ phase = "simulate" /\ phase' \in {"judge", "close"} /\ UNCHANGED setup
      /\ UNCHANGED <<withdrawVars, moved, vault, shares, verdict>>
      /\ verdict = "unjudged" /\ vault.limit <= vault.shares
      /\ ~moved => shares.balance = vault.shares
      /\ ~moved => shares.max \in {vault.limit, Unknown}
  BY DEF Simulate, Go, Raise, FundsInv, RedeemInv, RedeemPhases
<1>2. trial' \in Trials /\ (phase' = "judge" => TrialFits')
  <2>1. CASE shares.request = 0 /\ trial' = "none"
    BY <1>1, <2>1 DEF TrialFits, Trials
  <2>2. CASE shares.request \in 1..vault.limit /\ ~vault.paused /\ trial' = "ok"
    BY <1>1, <2>2 DEF TrialFits, Trials
  <2>3. CASE shares.request > vault.limit /\ trial' \in {"maxRedeem", "maxWithdraw"}
    BY <1>1, <2>3 DEF TrialFits, Trials
  <2>4. CASE trial' = "other"
    BY <2>4 DEF TrialFits, Trials
  <2>5. CASE trial' = trial /\ phase' = "close"
    BY <2>5 DEF FundsInv, FundsTypeOK
  <2> QED BY <2>1, <2>2, <2>3, <2>4, <2>5 DEF Simulate, Raise
<1>3. FundsTypeOK'
  BY <1>1, <1>2 DEF FundsInv, FundsTypeOK, withdrawVars
<1>4. RedeemInv' /\ RedeemableIsSo' /\ FundsRestInv'
  BY <1>1, <1>2 DEF RedeemInv, RedeemPhases, RedeemableIsSo, FundsRestInv
<1>5. WithdrawInv' /\ ReserveRemains'
  BY <1>1, WithdrawUntouched DEF WithdrawPhases
<1> QED BY <1>3, <1>4, <1>5 DEF FundsInv

(* The reasons, read against a vault that has not moved. *)
LEMMA JudgedRight ==
  ASSUME FundsInv, phase = "judge", ~moved
  PROVE  /\ BlockingReason = "none" => shares.request \in 1..vault.limit /\ ~vault.paused
         /\ shares.request \in 1..vault.limit /\ trial # "other" => BlockingReason = "none"
<1>1. /\ shares.balance = vault.shares /\ vault.limit <= vault.shares
      /\ shares.max \in {vault.limit, Unknown} /\ TrialFits
  BY DEF FundsInv, RedeemInv, RedeemPhases
<1>2. /\ shares.request \in Nat /\ shares.balance \in Nat /\ vault.limit \in Nat
      /\ trial \in Trials
  BY FundsAssumption DEF FundsInv, FundsTypeOK, Amounts
<1>3. ASSUME BlockingReason = "none"
      PROVE  shares.request \in 1..vault.limit /\ ~vault.paused
  <2>1. shares.request # 0 /\ trial \notin {"maxRedeem", "maxWithdraw", "other"}
    BY <1>3 DEF BlockingReason
  <2>2. trial = "ok"
    BY <1>1, <1>2, <2>1 DEF Trials, TrialFits
  <2> QED BY <1>1, <2>2 DEF TrialFits
<1>4. ASSUME shares.request \in 1..vault.limit, trial # "other"
      PROVE  BlockingReason = "none"
  <2>1. shares.balance # 0 /\ shares.request # 0
    BY <1>1, <1>2, <1>4
  <2>2. trial = "ok"
    BY <1>1, <1>2, <1>4 DEF Trials, TrialFits
  <2>3. ~(shares.max # Unknown /\ shares.request > shares.max)
    BY <1>1, <1>2, <1>4
  <2> QED BY <2>1, <2>2, <2>3 DEF BlockingReason
<1> QED BY <1>3, <1>4

LEMMA JudgeKeeps == FundsInv /\ Judge => FundsInv'
<1> SUFFICES ASSUME FundsInv, Judge PROVE FundsInv'
  OBVIOUS
<1>1. /\ phase = "judge" /\ phase' = "close" /\ UNCHANGED setup
      /\ verdict' = BlockingReason
      /\ UNCHANGED <<withdrawVars, moved, vault, shares, trial>>
  BY DEF Judge, Go
<1>2. FundsTypeOK'
  <2>1. trial \in Trials
    BY DEF FundsInv, FundsTypeOK
  <2>2. BlockingReason \in Verdicts
    BY <2>1 DEF BlockingReason, Verdicts, Trials
  <2> QED BY <1>1, <2>2 DEF FundsInv, FundsTypeOK, withdrawVars
<1>3. RedeemableIsSo'
  BY <1>1, JudgedRight DEF RedeemableIsSo
<1>4. RedeemInv' /\ FundsRestInv'
  BY <1>1 DEF RedeemInv, RedeemPhases, FundsRestInv
<1>5. WithdrawInv' /\ ReserveRemains'
  BY <1>1, WithdrawUntouched DEF WithdrawPhases
<1> QED BY <1>2, <1>3, <1>4, <1>5 DEF FundsInv

LEMMA FundsMoveKeeps == FundsInv /\ FundsMove => FundsInv'
<1> SUFFICES ASSUME FundsInv, FundsMove PROVE FundsInv'
  OBVIOUS
<1>1. /\ moved' = TRUE /\ UNCHANGED <<phase, setup, order, seen, amount, paid, shares, trial, verdict>>
  BY DEF FundsMove, configVars
<1>2. moved' \in BOOLEAN
  BY Zenon DEF FundsMove
<1>3. FundsTypeOK'
  <2>1. CASE /\ \E n \in Amounts : funds' \in {[funds EXCEPT !.bnb = n], [funds EXCEPT !.usdt = n]}
             /\ UNCHANGED vault
    BY <1>1, <1>2, <2>1 DEF FundsInv, FundsTypeOK
  <2>2. CASE /\ \E s, l \in Amounts : l <= s /\ vault' = [shares |-> s, limit |-> l, paused |-> vault.paused]
             /\ UNCHANGED funds
    <3>1. vault.paused \in BOOLEAN
      BY DEF FundsInv, FundsTypeOK
    <3>2. vault' \in [shares : Amounts, limit : Amounts, paused : BOOLEAN]
      BY <2>2, <3>1
    <3> QED BY <1>1, <1>2, <2>2, <3>2 DEF FundsInv, FundsTypeOK
  <2> QED BY <2>1, <2>2 DEF FundsMove
<1>4. WithdrawInv'
  BY <1>1 DEF FundsInv, WithdrawInv, Covered, Wanted, Spare, Parsed
<1>5. RedeemInv'
  <2>1. phase \in RedeemPhases => (vault.limit <= vault.shares)'
    BY DEF FundsMove, FundsInv, RedeemInv
  <2> QED BY <1>1, <2>1 DEF FundsInv, RedeemInv
<1>6. FundsRestInv' /\ ReserveRemains' /\ RedeemableIsSo'
  BY <1>1 DEF FundsInv, FundsRestInv, ReserveRemains, RedeemableIsSo
<1> QED BY <1>3, <1>4, <1>5, <1>6 DEF FundsInv

LEMMA FundsAtRest ==
  ASSUME order = NoOrder, funds = NoFunds, seen = NoFunds, moved \in BOOLEAN,
         amount = 0, paid = "no", vault = NoVaultState, shares = NoShares,
         trial = "none", verdict = "unjudged", phase = "idle"
  PROVE  FundsInv
<1>1. FundsTypeOK
  BY FundsAssumption DEF FundsTypeOK, NoOrder, NoFunds, NoVaultState, NoShares, Amounts,
     Halves, Texts, Trials, Verdicts
<1>2. FundsRestInv /\ WithdrawInv /\ ReserveRemains /\ RedeemInv /\ RedeemableIsSo
  BY DEF FundsRestInv, WithdrawInv, ReserveRemains, RedeemInv, RedeemableIsSo,
     WithdrawPhases, RedeemPhases
<1> QED BY <1>1, <1>2 DEF FundsInv

LEMMA InitFunds == Init => FundsInv
<1> SUFFICES ASSUME Init PROVE FundsInv
  OBVIOUS
<1>1. moved \in BOOLEAN
  BY Zenon DEF Init, FundsInit
<1> QED BY <1>1, FundsAtRest DEF Init, FundsInit

LEMMA CloseFunds == Close => FundsInv'
<1> SUFFICES ASSUME Close PROVE FundsInv'
  OBVIOUS
<1>1. /\ order' = NoOrder /\ funds' = NoFunds /\ seen' = NoFunds
      /\ amount' = 0 /\ paid' = "no" /\ vault' = NoVaultState /\ shares' = NoShares
      /\ trial' = "none" /\ verdict' = "unjudged" /\ phase' = "idle"
  BY CloseResets DEF FundsReset
<1>2. moved' \in BOOLEAN
  BY CloseResets, Zenon DEF FundsReset
<1>3. FundsTypeOK'
  BY <1>1, <1>2, FundsAssumption DEF FundsTypeOK, NoOrder, NoFunds, NoVaultState, NoShares,
     Amounts, Halves, Texts, Trials, Verdicts
<1>4. FundsRestInv' /\ WithdrawInv' /\ ReserveRemains' /\ RedeemInv' /\ RedeemableIsSo'
  BY <1>1 DEF FundsRestInv, WithdrawInv, ReserveRemains, RedeemInv, RedeemableIsSo,
     WithdrawPhases, RedeemPhases
<1> QED BY <1>3, <1>4 DEF FundsInv

LEMMA FundsInvStep == FundsInv /\ [Next]_vars => FundsInv'
<1> SUFFICES ASSUME FundsInv, [Next]_vars PROVE FundsInv'
  OBVIOUS
<1>1. CASE Start /\ UNCHANGED <<vaultVars, fundsVars, buyVars>>
  BY <1>1, StartPhases, FundsUntouched
<1>2. CASE VaultStep /\ UNCHANGED <<fundsVars, buyVars>>
  <2>1. phase' \notin FundsPhases \cup {"idle", "loaded"} /\ UNCHANGED setup
    BY <1>2, VaultPhasesOnly
       DEF VaultPhases, TryPhases, FundsPhases, WithdrawPhases, RedeemPhases
  <2> QED BY <1>2, <2>1, FundsUntouched
<1>3. CASE BuyStep /\ UNCHANGED <<vaultVars, fundsVars>>
  <2>1. phase' \notin FundsPhases \cup {"idle", "loaded"} /\ UNCHANGED setup
    BY <1>3, BuyPhasesOnly DEF BuyPhases, FundsPhases, WithdrawPhases, RedeemPhases
  <2> QED BY <1>3, <2>1, FundsUntouched
<1>4. CASE WithdrawRefused \/ ReadRaises \/ RedeemRefused \/ JudgeRaises
  <2>1. phase' = "close" /\ UNCHANGED <<fundsVars, setup>>
    BY <1>4 DEF WithdrawRefused, ReadRaises, RedeemRefused, JudgeRaises, Raise
  <2> QED BY <2>1, FundsUntouched DEF FundsPhases, WithdrawPhases, RedeemPhases
<1>5. CASE BeginWithdraw \/ ReadBnb \/ ReadUsdt \/ Decide \/ Transfer
  BY <1>5, BeginWithdrawKeeps, ReadBnbKeeps, ReadUsdtKeeps, DecideKeeps, TransferKeeps
<1>6. CASE BeginRedeem \/ ReadShares \/ ReadMax \/ Simulate \/ Judge
  BY <1>6, BeginRedeemKeeps, ReadSharesKeeps, ReadMaxKeeps, SimulateKeeps, JudgeKeeps
<1>7. CASE Close
  BY <1>7, CloseFunds
<1>8. CASE World
  <2>1. UNCHANGED <<phase, setup>>
    BY <1>8, WorldPhases DEF configVars
  <2>2. CASE UNCHANGED fundsVars
    BY <2>1, <2>2, FundsUntouched
  <2> QED BY <1>8, <2>2, FundsMoveKeeps DEF World
<1>9. CASE ApprovalStep /\ UNCHANGED fundsVars
  <2>1. phase' \notin FundsPhases \cup {"idle", "loaded"} /\ UNCHANGED setup
    BY <1>9, ApprovalPhasesOnly DEF ApprovalPhases, FundsPhases, WithdrawPhases, RedeemPhases
  <2> QED BY <1>9, <2>1, FundsUntouched
<1>10. CASE UNCHANGED vars
  BY <1>10, FundsUntouched DEF vars, configVars
<1> QED
  BY <1>1, <1>2, <1>3, <1>4, <1>5, <1>6, <1>7, <1>8, <1>9, <1>10 DEF Next, Step, FundsStep

(* A withdrawal from an EOA that passes the checks of withdraw can be      *)
(* paid, gas included, at the balances that were checked.                  *)
THEOREM WithdrawalsAreCovered == Spec => []WithdrawalAffordable
<1>1. FundsInv => WithdrawalAffordable
  <2> SUFFICES ASSUME FundsInv, phase = "transfer", setup.mode = "eoa", ~moved,
                      NEW g \in 0..MaxGas
               PROVE  Payable(amount, g)
    BY DEF WithdrawalAffordable
  <2>1. funds.gas \in Nat
    BY FundsAssumption DEF FundsInv, FundsTypeOK
  <2>2. FromBnb(amount, g) <= funds.bnb /\ FromUsdt(amount) <= funds.usdt
    BY FundsAssumption, CoveredLeaves DEF FromBnb, FromUsdt
  <2> QED BY <2>1, <2>2 DEF Payable, FromGas
<1> QED BY InitFunds, FundsInvStep, <1>1, PTL DEF Spec

(* What a withdrawal leaves: the reserve but for the gas, and with --all   *)
(* nothing else.                                                           *)
THEOREM WithdrawalsLeaveTheReserve == Spec => []ReserveRemains
<1>1. FundsInv => ReserveRemains
  BY DEF FundsInv
<1> QED BY InitFunds, FundsInvStep, <1>1, PTL DEF Spec

(* The redeem preview says redeemable of what the vault would redeem, and  *)
(* of nothing else (_resolve_redeem_blocking_reason).                      *)
THEOREM RedeemableIsRight == Spec => []RedeemableIsSo
<1>1. FundsInv => RedeemableIsSo
  BY DEF FundsInv
<1> QED BY InitFunds, FundsInvStep, <1>1, PTL DEF Spec

-----------------------------------------------------------------------------
(* Approvals.                                                              *)

LEMMA SlotsAreApprovals ==
  /\ Len(Slots) = 10
  /\ \A i \in 1..10 : Slots[i] \in AllApprovals /\ Asked(Slots[i]) = Slots[i]
  /\ \A a \in AllApprovals : \E i \in 1..10 : a = Slots[i]
<1>1. Len(Slots) = 10
  BY DEF Slots
<1>2. ASSUME NEW i \in 1..10
      PROVE  Slots[i] \in AllApprovals /\ Asked(Slots[i]) = Slots[i]
  <2>1. \E g \in Groups, c \in Contracts : Slots[i] = Approval(g, c)
    BY DEF Slots, Groups, Contracts
  <2>2. PICK g \in Groups, c \in Contracts : Slots[i] = Approval(g, c)
    BY <2>1
  <2> QED BY <2>2 DEF AllApprovals, Of, Asked, Approval, Groups
<1>3. ASSUME NEW a \in AllApprovals
      PROVE  \E i \in 1..10 : a = Slots[i]
  <2>1. PICK g \in Groups, c \in Contracts : a = Approval(g, c)
    BY DEF AllApprovals, Of, Groups
  <2>2. CASE g = "standard"
    BY <2>1, <2>2 DEF Slots, Contracts
  <2>3. CASE g = "yield"
    BY <2>1, <2>3 DEF Slots, Contracts
  <2> QED BY <2>2, <2>3 DEF Groups
<1> QED BY <1>1, <1>2, <1>3

LEMMA GroupsAreApprovals ==
  /\ \A g \in Groups : Of(g) \subseteq AllApprovals
  /\ \A granting : (\A g \in Groups : Of(g) \subseteq granting) => AllApprovals \subseteq granting
BY DEF Groups, AllApprovals

(* What has been read or successfully asked for is there unless somebody   *)
(* revokes, and what has been read and is there has been seen unless       *)
(* somebody grants.                                                        *)
ApprovalInv ==
  /\ ApprovalTypeOK
  /\ phase \in {"idle", "loaded"} =>
       snapshot = {} /\ read = 0 /\ done = NothingDone /\ changed = "nothing"
  /\ phase = "reading" => done.good = {}
  /\ phase = "approving" => snapshot = {} /\ read = 0
  /\ changed # "revoked" =>
       snapshot \subseteq granted /\ \A g \in done.good : Of(g) \subseteq granted
  /\ changed = "nothing" =>
       \A i \in 1..read : Slots[i] \in granted => Slots[i] \in snapshot

LEMMA ApprovalUntouched ==
  ASSUME ApprovalInv, UNCHANGED approvalVars,
         \/ phase' = phase \/ phase' \notin ApprovalPhases \cup {"idle", "loaded"}
         \/ phase = "idle" /\ phase' \in {"idle", "loaded"}
  PROVE  ApprovalInv'
BY DEF ApprovalInv, ApprovalTypeOK, approvalVars, ApprovalPhases

LEMMA ApprovalAtRest ==
  /\ Init => ApprovalInv
  /\ ApprovalReset /\ phase' = "idle" => ApprovalInv'
<1>1. NothingDone \in [asked : SUBSET Groups, good : SUBSET Groups] /\ NothingDone.good = {}
  BY DEF NothingDone
<1>2. Init => ApprovalInv
  BY <1>1 DEF Init, ApprovalInit, ApprovalInv, ApprovalTypeOK
<1>3. ApprovalReset /\ phase' = "idle" => ApprovalInv'
  BY <1>1 DEF ApprovalReset, ApprovalInv, ApprovalTypeOK
<1> QED BY <1>2, <1>3

LEMMA BeginningKeeps == ApprovalInv /\ (BeginReading \/ BeginApprove) => ApprovalInv'
<1> SUFFICES ASSUME ApprovalInv, BeginReading \/ BeginApprove PROVE ApprovalInv'
  OBVIOUS
<1>1. /\ phase = "loaded" /\ phase' \in ApprovalPhases /\ granted' \subseteq AllApprovals
      /\ UNCHANGED <<snapshot, read, done, changed>>
  BY ApprovalAssumption DEF BeginReading, BeginApprove, Go, ApprovalPhases
<1>2. snapshot = {} /\ read = 0 /\ done = NothingDone /\ changed = "nothing"
  BY <1>1 DEF ApprovalInv
<1> QED BY <1>1, <1>2 DEF ApprovalInv, ApprovalTypeOK, NothingDone, ApprovalPhases

LEMMA ReadApprovalKeeps == ApprovalInv /\ ReadApproval => ApprovalInv'
<1> SUFFICES ASSUME ApprovalInv, ReadApproval PROVE ApprovalInv'
  OBVIOUS
<1>1. /\ phase = "reading" /\ phase' = phase /\ read \in 0..9 /\ read' = read + 1
      /\ UNCHANGED <<granted, done, changed>>
  BY SlotsAreApprovals DEF ReadApproval, configVars, ApprovalInv, ApprovalTypeOK
<1>2. Slots[read + 1] \in AllApprovals /\ Asked(Slots[read + 1]) = Slots[read + 1]
  BY <1>1, SlotsAreApprovals
<1>3. snapshot' = snapshot \cup (IF Slots[read + 1] \in granted THEN {Slots[read + 1]} ELSE {})
  BY <1>2 DEF ReadApproval
<1>4. ApprovalTypeOK'
  BY <1>1, <1>2, <1>3 DEF ApprovalInv, ApprovalTypeOK
<1>5. changed' # "revoked" =>
        snapshot' \subseteq granted' /\ \A g \in done'.good : Of(g) \subseteq granted'
  BY <1>1, <1>3 DEF ApprovalInv
<1>6. ASSUME changed' = "nothing", NEW i \in 1..read', Slots[i] \in granted'
      PROVE  Slots[i] \in snapshot'
  <2>1. i \in 1..read \/ i = read + 1
    BY <1>1
  <2> QED BY <1>1, <1>3, <1>6, <2>1 DEF ApprovalInv
<1> QED BY <1>1, <1>4, <1>5, <1>6 DEF ApprovalInv

LEMMA SettingKeeps == ApprovalInv /\ (SetApprovals \/ SetApprovalsRaises) => ApprovalInv'
<1> SUFFICES ASSUME ApprovalInv, SetApprovals \/ SetApprovalsRaises PROVE ApprovalInv'
  OBVIOUS
<1>1. /\ phase = "approving" /\ phase' \in {"approving", "close"}
      /\ UNCHANGED <<snapshot, read, changed>>
  BY DEF SetApprovals, SetApprovalsRaises, Go, Raise
<1>2. NextGroup \in Groups /\ Of(NextGroup) \subseteq AllApprovals
  BY GroupsAreApprovals DEF NextGroup, Groups
<1>3. granted \subseteq granted' /\ granted' \subseteq AllApprovals
  BY <1>2 DEF SetApprovals, SetApprovalsRaises, ApprovalInv, ApprovalTypeOK
<1>4. /\ done' \in [asked : SUBSET Groups, good : SUBSET Groups]
      /\ \/ done'.good = done.good
         \/ done'.good = done.good \cup {NextGroup} /\ Of(NextGroup) \subseteq granted'
  BY <1>2 DEF SetApprovals, SetApprovalsRaises, ApprovalInv, ApprovalTypeOK
<1>5. snapshot = {} /\ read = 0
  BY <1>1 DEF ApprovalInv
<1>6. changed' # "revoked" =>
        snapshot' \subseteq granted' /\ \A g \in done'.good : Of(g) \subseteq granted'
  BY <1>1, <1>3, <1>4, <1>5 DEF ApprovalInv
<1> QED BY <1>1, <1>3, <1>4, <1>5, <1>6 DEF ApprovalInv, ApprovalTypeOK

LEMMA ApprovalMovesKeeps == ApprovalInv /\ ApprovalMoves => ApprovalInv'
<1> SUFFICES ASSUME ApprovalInv, ApprovalMoves PROVE ApprovalInv'
  OBVIOUS
<1>1. /\ phase \in ApprovalPhases /\ changed = "nothing"
      /\ UNCHANGED <<phase, snapshot, read, done>>
      /\ granted' \subseteq AllApprovals
      /\ \/ changed' = "granted" /\ granted \subseteq granted'
         \/ changed' = "revoked"
  BY DEF ApprovalMoves, configVars, ApprovalInv, ApprovalTypeOK
<1> QED BY <1>1 DEF ApprovalInv, ApprovalTypeOK, ApprovalPhases

LEMMA ApprovalInvStep == ApprovalInv /\ [Next]_vars => ApprovalInv'
<1> SUFFICES ASSUME ApprovalInv, [Next]_vars PROVE ApprovalInv'
  OBVIOUS
<1>1. CASE Start /\ UNCHANGED approvalVars
  BY <1>1, StartPhases, ApprovalUntouched
<1>2. CASE (VaultStep \/ FundsStep \/ BuyStep) /\ UNCHANGED approvalVars
  <2>1. phase' \notin ApprovalPhases \cup {"idle", "loaded"}
    BY <1>2, VaultPhasesOnly, FundsPhasesOnly, BuyPhasesOnly
       DEF VaultPhases, TryPhases, FundsPhases, WithdrawPhases, RedeemPhases, BuyPhases,
           ApprovalPhases
  <2> QED BY <1>2, <2>1, ApprovalUntouched
<1>3. CASE ReadingRaises \/ ReadingDone \/ ApproveRefused
  <2>1. phase' = "close" /\ UNCHANGED approvalVars
    BY <1>3 DEF ReadingRaises, ReadingDone, ApproveRefused, Go, Raise
  <2> QED BY <2>1, ApprovalUntouched DEF ApprovalPhases
<1>4. CASE BeginReading \/ BeginApprove \/ ReadApproval \/ SetApprovals \/ SetApprovalsRaises
  BY <1>4, BeginningKeeps, ReadApprovalKeeps, SettingKeeps
<1>5. CASE Close
  BY <1>5, CloseResets, ApprovalAtRest
<1>6. CASE World
  <2>1. UNCHANGED phase
    BY <1>6, WorldPhases DEF configVars
  <2>2. CASE UNCHANGED approvalVars
    BY <2>1, <2>2, ApprovalUntouched
  <2> QED BY <1>6, <2>2, ApprovalMovesKeeps DEF World
<1>7. CASE UNCHANGED vars
  BY <1>7, ApprovalUntouched DEF vars, configVars
<1> QED BY <1>1, <1>2, <1>3, <1>4, <1>5, <1>6, <1>7 DEF Next, Step, ApprovalStep

(* The groups that status calls ready are, and those it does not were not, *)
(* unless others change an approval between its ten reads; and an approve  *)
(* that reports two successes has left nothing out (get_approval_snapshot, *)
(* set_all_approvals).                                                     *)
THEOREM ReadinessIsRight == Spec => []ReadyIsSo
<1>1. ApprovalInv => ReadyIsSo
  <2> SUFFICES ASSUME ApprovalInv PROVE ReadyIsSo
    OBVIOUS
  <2>1. ASSUME changed # "revoked", NEW g \in Groups, Ready(g)
        PROVE  Of(g) \subseteq granted
    BY <2>1 DEF ApprovalInv, Ready
  <2>2. ASSUME read = Len(Slots), changed = "nothing", NEW g \in Groups, Of(g) \subseteq granted
        PROVE  Ready(g)
    <3>1. \A i \in 1..10 : Slots[i] \in granted => Slots[i] \in snapshot
      BY <2>2, SlotsAreApprovals DEF ApprovalInv
    <3>2. Of(g) \subseteq AllApprovals
      BY GroupsAreApprovals
    <3> QED BY <2>2, <3>1, <3>2, SlotsAreApprovals DEF Ready
  <2>3. ASSUME done.good = Groups, changed # "revoked"
        PROVE  AllApprovals \subseteq granted
    BY <2>3, GroupsAreApprovals DEF ApprovalInv
  <2> QED BY <2>1, <2>2, <2>3 DEF ReadyIsSo
<1> QED BY ApprovalAtRest, ApprovalInvStep, <1>1, PTL DEF Spec

-----------------------------------------------------------------------------
(* Type correctness, of all the parts together. *)
THEOREM TypeCorrect == Spec => []TypeOK
<1>1. ConfigInv /\ VaultInv /\ ErrorInv /\ AnswerInv /\ BuyInv /\ FundsInv /\ ApprovalInv => TypeOK
  BY DEF TypeOK, ConfigInv, VaultInv, ErrorInv, AnswerInv, BuyInv, FundsInv, ApprovalInv
<1> QED
  BY InitConfig, ConfigStep, InitVault, VaultInvStep, InitErrors, ErrorStep, InitBuy, BuyInvStep,
     InitFunds, FundsInvStep, ApprovalAtRest, ApprovalInvStep, <1>1, PTL DEF Spec
=============================================================================
