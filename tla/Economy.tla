------------------------------- MODULE Economy -------------------------------
(***************************************************************************)
(* The asset economy as a whole: gifts, grants and adjustments, a          *)
(* prediction market and a store purchase move the same balances, each in  *)
(* transactions of its own, in any order.                                  *)
(***************************************************************************)
EXTENDS PredictionMarkets, StorePurchases

economyVars == <<ledgerVars, marketVars, storeVars>>

EconomyInit ==
    /\ \E opening \in [Accounts -> Nat] : AssetLedgerInit(opening)
    /\ MarketInit
    /\ StoreInit

EconomyNext ==
    \/ LedgerNext /\ UNCHANGED <<marketVars, storeVars>>
    \/ MarketNext /\ UNCHANGED storeVars
    \/ StoreNext /\ UNCHANGED marketVars

EconomySpec == EconomyInit /\ [][EconomyNext]_economyVars

\* Type correctness of every part: no balance is overdrawn.
EconomyTypeOK == LedgerTypeOK /\ MarketTypeOK /\ StoreTypeOK

\* What a user's positions paid, less what was staked on them.
wonBy(u) ==
    LET mine == {i \in DOMAIN positions : positions[i].user = u}
    IN  SumFunctionOnSet([i \in mine |-> positions[i].payout - positions[i].stake], mine)

\* Gifts and positions move B_LUCK only.
luck(a, n) == IF a[2] = "B_LUCK" THEN n ELSE 0

bought(a) == IF a = order.account THEN netDelivered * PurchaseAmount ELSE 0

(***************************************************************************)
(* The tables explain the balances: what an account can spend is what was  *)
(* granted to it, plus gifts received less gifts sent, less stakes plus    *)
(* payouts, plus what the store delivered less what it took back.  No      *)
(* interleaving of requests loses or repeats a movement.                   *)
(***************************************************************************)
BalanceIsExplained ==
    \A a \in Accounts :
        balances[a].available =
            adjusted[a] + luck(a, giftedTo(a[1])) + luck(a, wonBy(a[1])) + bought(a)
==============================================================================
