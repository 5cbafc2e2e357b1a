------------------------------ MODULE FundsOut ------------------------------
(***************************************************************************)
(* The commands about getting funds out: wallet withdraw and wallet        *)
(* redeem-vault (lib/funding_service.py).                                  *)
(*                                                                         *)
(* Each reads a few balances one after another, decides, and then acts on  *)
(* the chain or asks it what acting would do.  Others may move the         *)
(* balances in between.  Amounts are natural numbers of wei; what is typed *)
(* is an amount in halves of a wei, so that it may have a part that does   *)
(* not count, or no amount at all.                                         *)
(***************************************************************************)
EXTENDS WalletConfig, Naturals

CONSTANTS
  Headroom,     \* MIN_GAS_HEADROOM_WEI
  MaxGas,       \* the most a transfer costs in gas
  MaxBalance    \* bound: no balance is above this

ASSUME FundsAssumption ==
  Headroom \in Nat /\ MaxGas \in Nat /\ MaxBalance \in Nat /\ MaxGas <= Headroom

Amounts == 0..MaxBalance
Halves == 0..(2 * MaxBalance + 2)
(* Text that is no number, and nan or infinity, which Decimal takes.       *)
Texts == {"number", "word", "infinity"}
Unknown == MaxBalance + 1     \* a read that failed and is shown as missing

VARIABLES
  order,   \* what withdraw has been asked
  funds,   \* balances of the funding address, and BNB of the signer of an account
  seen,    \* balances read
  moved,   \* have others changed a balance since the command began
  amount,  \* amount_wei
  paid,    \* did the transfer take place, or was only its gas spent
  vault,   \* the holder's shares, how many the vault lets go, is it paused
  shares,  \* share balance, maxRedeem and requested shares of the preview
  trial,   \* what the simulated redeem did
  verdict  \* blocking reason: none when redeemable

fundsVars == <<order, funds, seen, moved, amount, paid, vault, shares, trial, verdict>>

NoOrder == [asset |-> "none", all |-> FALSE, text |-> "number", halves |-> 0]
NoFunds == [bnb |-> 0, usdt |-> 0, gas |-> 0]
NoVaultState == [shares |-> 0, limit |-> 0, paused |-> FALSE]
NoShares == [balance |-> 0, max |-> Unknown, request |-> 0, all |-> FALSE]

WithdrawPhases == {"readBnb", "readUsdt", "decide", "transfer"}
RedeemPhases == {"readShares", "readMax", "simulate", "judge"}

Trials == {"none", "ok", "maxRedeem", "maxWithdraw", "other"}
Verdicts == {"unjudged", "none", "no-shares", "no-requested-shares",
             "erc4626-max-redeem-blocked", "erc4626-max-withdraw-blocked",
             "redeem-call-blocked", "requested-shares-exceed-max-redeem"}

FundsTypeOK ==
  /\ order \in [asset : {"none", "usdt", "bnb"}, all : BOOLEAN, text : Texts, halves : Halves]
  /\ funds \in [bnb : Amounts, usdt : Amounts, gas : 0..MaxGas]
  /\ seen \in [bnb : Amounts, usdt : Amounts, gas : {0}]
  /\ moved \in BOOLEAN
  /\ amount \in 0..(MaxBalance + 1)
  /\ paid \in {"no", "sent", "reverted"}
  /\ vault \in [shares : Amounts, limit : Amounts, paused : BOOLEAN]
  /\ shares \in [balance : Amounts, max : Amounts \cup {Unknown}, request : Amounts,
                 all : BOOLEAN]
  /\ trial \in Trials /\ verdict \in Verdicts

FundsReset ==
  /\ order' = NoOrder /\ funds' = NoFunds /\ seen' = NoFunds /\ moved' = FALSE
  /\ amount' = 0 /\ paid' = "no"
  /\ vault' = NoVaultState /\ shares' = NoShares /\ trial' = "none" /\ verdict' = "unjudged"

FundsInit ==
  /\ order = NoOrder /\ funds = NoFunds /\ seen = NoFunds /\ moved = FALSE
  /\ amount = 0 /\ paid = "no"
  /\ vault = NoVaultState /\ shares = NoShares /\ trial = "none" /\ verdict = "unjudged"

redeemVars == <<vault, shares, trial, verdict>>
withdrawVars == <<order, funds, seen, amount, paid>>

-----------------------------------------------------------------------------
(* withdraw.                                                               *)

(* Not in this mode, no SDK, no such asset, no checksum address. *)
WithdrawRefused ==
  /\ phase = "loaded"
  /\ \/ Raise("ConfigError", "close")
     \/ setup.mode # "mandated-vault" /\ SdkError # "none" /\ Raise(SdkError, "close")
  /\ UNCHANGED fundsVars

BeginWithdraw ==
  /\ phase = "loaded" /\ setup.mode # "mandated-vault" /\ SdkError = "none"
  /\ order' \in [asset : {"usdt", "bnb"}, all : BOOLEAN, text : Texts, halves : Halves]
  /\ order'.all => order'.text = "number"
  /\ order'.all \/ order'.text # "number" => order'.halves = 0
  /\ funds' \in [bnb : Amounts, usdt : Amounts, gas : 0..MaxGas]
  /\ Go("readBnb")
  /\ UNCHANGED <<seen, moved, amount, paid, redeemVars>>

ReadBnb ==
  /\ phase = "readBnb"
  /\ seen' = [seen EXCEPT !.bnb = funds.bnb]
  /\ Go("readUsdt")
  /\ UNCHANGED <<order, funds, moved, amount, paid, redeemVars>>

ReadUsdt ==
  /\ phase = "readUsdt"
  /\ seen' = [seen EXCEPT !.usdt = funds.usdt]
  /\ Go("decide")
  /\ UNCHANGED <<order, funds, moved, amount, paid, redeemVars>>

(* Any read of the chain may fail. *)
ReadRaises ==
  /\ phase \in {"readBnb", "readUsdt", "readShares"}
  /\ Raise("ChainError", "close")
  /\ UNCHANGED fundsVars

(* What the reserve leaves of the BNB. *)
Spare(balance) == IF balance > Headroom THEN balance - Headroom ELSE 0

(* _parse_amount_to_wei: the decimals beyond a wei are cut off. *)
Parsed(halves) == halves \div 2

WantedKeepsReserve ==
  IF ~order.all THEN Parsed(order.halves)
  ELSE Spare(IF order.asset = "usdt" THEN seen.usdt ELSE seen.bnb)

Wanted == CASE ~order.all -> Parsed(order.halves)
            [] order.all /\ order.asset = "usdt" -> seen.usdt
            [] order.all /\ order.asset = "bnb" -> Spare(seen.bnb)

CoveredOnePast(n) ==
  /\ n > 0 /\ seen.bnb > Headroom
  /\ IF order.asset = "usdt" THEN n <= seen.usdt ELSE n <= seen.bnb - Headroom + 1

Covered(n) ==
  /\ n > 0 /\ seen.bnb > Headroom
  /\ IF order.asset = "usdt" THEN n <= seen.usdt ELSE n <= seen.bnb - Headroom

Decide ==
  /\ phase = "decide"
  /\ CASE order.text = "word" -> Raise("ConfigError", "close") /\ amount' = amount
       [] order.text = "infinity" -> Raise("ArithmeticError", "close") /\ amount' = amount
       [] OTHER -> /\ amount' = Wanted
                   /\ IF Covered(Wanted) THEN Go("transfer") ELSE Raise("ConfigError", "close")
  /\ UNCHANGED <<order, funds, seen, moved, paid, redeemVars>>

(* _transfer_usdt and _transfer_bnb.  An account's transfer is a call of   *)
(* its kernel, whose gas the signer pays; the balance is spent only where  *)
(* the chain finds it.  A receipt that says reverted is not looked at.     *)
FromUsdt(n) == IF order.asset = "usdt" THEN n ELSE 0
FromGas(g) == IF setup.mode = "eoa" THEN 0 ELSE g
FromBnb(n, g) ==
  (IF order.asset = "bnb" THEN n ELSE 0) + (IF setup.mode = "eoa" THEN g ELSE 0)

Spend(n, g) ==
  [bnb |-> funds.bnb - FromBnb(n, g), usdt |-> funds.usdt - FromUsdt(n), gas |-> funds.gas - FromGas(g)]

Payable(n, g) ==
  FromBnb(n, g) <= funds.bnb /\ FromUsdt(n) <= funds.usdt /\ FromGas(g) <= funds.gas

Transfer ==
  /\ phase = "transfer"
  /\ \E g \in 0..MaxGas :
       \/ Payable(amount, g) /\ funds' = Spend(amount, g) /\ paid' = "sent" /\ Go("close")
       \/ Payable(0, g) /\ funds' = Spend(0, g) /\ paid' = "reverted" /\ Go("close")
       \/ /\ ~Payable(amount, g)
          /\ Raise("ChainError", "close")
          /\ UNCHANGED <<funds, paid>>
  /\ UNCHANGED <<order, seen, moved, amount, redeemVars>>

-----------------------------------------------------------------------------
(* preview_vault_redeem.                                                   *)

(* --confirm is turned down; an address may not parse; nobody to redeem for. *)
RedeemRefused ==
  /\ phase = "loaded"
  /\ \/ Raise("ConfigError", "close")
     \/ Raise("ValueError", "close")
  /\ UNCHANGED fundsVars

BeginRedeem ==
  /\ phase = "loaded"
  /\ vault' \in [shares : Amounts, limit : Amounts, paused : BOOLEAN]
  /\ vault'.limit <= vault'.shares
  /\ \E all \in BOOLEAN : shares' = [shares EXCEPT !.all = all]
  /\ Go("readShares")
  /\ UNCHANGED <<withdrawVars, moved, trial, verdict>>

ReadShares ==
  /\ phase = "readShares"
  /\ shares' = [shares EXCEPT !.balance = vault.shares]
  /\ Go("readMax")
  /\ UNCHANGED <<withdrawVars, moved, vault, trial, verdict>>

(* _safe_contract_call: a failed read is a missing value. *)
ReadMax ==
  /\ phase = "readMax"
  /\ \E max \in {vault.limit, Unknown} :
       shares' = [shares EXCEPT !.max = max,
                    !.request = IF shares.all \/ max = Unknown THEN shares.balance ELSE max]
  /\ Go("simulate")
  /\ UNCHANGED <<withdrawVars, moved, vault, trial, verdict>>

(* What a call of redeem does, and _decode_custom_error of its error.  A   *)
(* call may fail for other reasons, a pause or the connection; digits of   *)
(* error data that are odd in number end the command instead.              *)
Simulate ==
  /\ phase = "simulate"
  /\ \/ shares.request = 0 /\ trial' = "none" /\ Go("judge")
     \/ /\ shares.request \in 1..vault.limit /\ ~vault.paused
        /\ trial' = "ok" /\ Go("judge")
     \/ /\ shares.request > vault.limit
        /\ trial' \in {"maxRedeem", "maxWithdraw"} /\ Go("judge")
     \/ /\ shares.request > 0
        /\ \/ trial' = "other" /\ Go("judge")
           \/ trial' = trial /\ Raise("ValueError", "close")
  /\ UNCHANGED <<withdrawVars, moved, vault, shares, verdict>>

(* _resolve_redeem_blocking_reason, first reason first. *)
BlockingReasonKnown ==
  CASE shares.balance = 0 -> "no-shares"
    [] shares.balance > 0 /\ shares.request = 0 -> "no-requested-shares"
    [] shares.request > 0 /\ trial = "maxRedeem" -> "erc4626-max-redeem-blocked"
    [] shares.request > 0 /\ trial = "maxWithdraw" -> "erc4626-max-withdraw-blocked"
    [] OTHER -> "none"

BlockingReason ==
  IF shares.balance = 0 THEN "no-shares"
  ELSE IF shares.request = 0 THEN "no-requested-shares"
  ELSE CASE trial = "maxRedeem" -> "erc4626-max-redeem-blocked"
         [] trial = "maxWithdraw" -> "erc4626-max-withdraw-blocked"
         [] trial = "other" -> "redeem-call-blocked"
         [] trial \in {"ok", "none"} ->
              IF shares.max # Unknown /\ shares.request > shares.max
                THEN "requested-shares-exceed-max-redeem" ELSE "none"

Judge ==
  /\ phase = "judge" /\ ~RolesUnreadable
  /\ verdict' = BlockingReason
  /\ Go("close")
  /\ UNCHANGED <<withdrawVars, moved, vault, shares, trial>>

(* The preview ends with the roles of its holder. *)
JudgeRaises ==
  /\ phase = "judge" /\ RolesUnreadable
  /\ Raise("ValueError", "close")
  /\ UNCHANGED fundsVars

-----------------------------------------------------------------------------
(* Others move balances, once while a command runs. *)
FundsMove ==
  /\ ~moved /\ moved' = TRUE
  /\ \/ /\ phase \in WithdrawPhases
        /\ \E n \in Amounts : funds' \in {[funds EXCEPT !.bnb = n], [funds EXCEPT !.usdt = n]}
        /\ UNCHANGED vault
     \/ /\ phase \in RedeemPhases \ {"judge"}
        /\ \E s, l \in Amounts : l <= s /\ vault' = [shares |-> s, limit |-> l, paused |-> vault.paused]
        /\ UNCHANGED funds
  /\ UNCHANGED <<configVars, order, seen, amount, paid, shares, trial, verdict>>

FundsStep ==
  \/ WithdrawRefused \/ BeginWithdraw \/ ReadBnb \/ ReadUsdt \/ ReadRaises
  \/ Decide \/ Transfer
  \/ RedeemRefused \/ BeginRedeem \/ ReadShares \/ ReadMax \/ Simulate \/ Judge \/ JudgeRaises

-----------------------------------------------------------------------------
(* A withdrawal from an EOA that passes the checks can be paid, gas        *)
(* included, at the balances that were checked.                            *)
WithdrawalAffordable ==
  phase = "transfer" /\ setup.mode = "eoa" /\ ~moved =>
    \A g \in 0..MaxGas : Payable(amount, g)

(* A withdrawal leaves no less than the reserve of gas and no dust of      *)
(* --all behind: all USDT is gone, or exactly the reserve remains.         *)
ReserveRemains ==
  paid = "sent" /\ setup.mode = "eoa" /\ ~moved =>
    /\ funds.bnb + MaxGas >= Headroom
    /\ order.all /\ order.asset = "usdt" => funds.usdt = 0
    /\ order.all /\ order.asset = "bnb" => funds.bnb <= Headroom

(* redeemableNow is said of shares the vault would redeem, and of all of   *)
(* them, unless the trial failed for a reason that is not the vault's      *)
(* limits.                                                                 *)
RedeemableIsSo ==
  verdict # "unjudged" /\ ~moved =>
    /\ verdict = "none" => shares.request \in 1..vault.limit /\ ~vault.paused
    /\ shares.request \in 1..vault.limit /\ trial # "other" => verdict = "none"
=============================================================================
