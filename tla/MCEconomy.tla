------------------------------ MODULE MCEconomy ------------------------------
(***************************************************************************)
(* The asset economy for TLC: a prediction market, a store purchase, gifts *)
(* and adjustments on the same balances; and, on balances of its own, the  *)
(* hosted prize engine.  Each initial state picks a round that stays within*)
(* one part, so the state spaces add up instead of multiplying.            *)
(***************************************************************************)
EXTENDS Economy, TenantRewards

CONSTANTS
    Opening,    \* opening balance of every B_LUCK account
    Rounds,     \* which rounds the run covers
    BigPrize, SmallPrize

MCTenantPrizes == [p \in {BigPrize, SmallPrize} |-> IF p = BigPrize THEN 2 ELSE 1]

VARIABLE round

mcVars == <<ledgerVars, marketVars, storeVars, rewardVars, round>>

MCInit ==
    /\ AssetLedgerInit([a \in Accounts |-> IF a[2] = "B_LUCK" THEN Opening ELSE 0])
    /\ MarketInit
    /\ StoreInit
    /\ TenantRewardsInit
    /\ round \in Rounds
    /\ (round = "windows") = (envelope.strategy # "none")
    /\ round # "billing" => billing.hardCap = 0
    /\ round # "keys" => agents = Agents

rewards == round \in {"keys", "windows", "billing"}

aCall == CHOOSE q \in Calls : TRUE

(***************************************************************************)
(* What a round covers: "stakes" the positions of a manual market,         *)
(* "oracle" the oracle's market with one position, its workers and appeals,*)
(* "store" the purchase, beside gifts that may take its keys and manual    *)
(* debits, "ledger" the ledger's own operations.  Gifts also run beside    *)
(* the first position of a manual market.  Reward calls: "keys" has        *)
(* repeated keys, new agents and a project that is suspended, "windows" a  *)
(* reward envelope, "billing" a hard cap that is set, changed, cleared,    *)
(* reached and alerted, around one call fewer than the other rounds have.  *)
(* The calls are interchangeable: another than aCall starts only while     *)
(* aCall is under way.                                                     *)
(***************************************************************************)
withinRound ==
    /\ round = "stakes" => market'.manual \/ market'.status = "none"
    /\ round = "oracle" => ~market'.manual /\ Len(positions') <= 1
    /\ round # "windows" => window' = 0
    /\ round # "billing" => UNCHANGED clerk
    /\ round = "billing" => made' < MaxCalls
    /\ round \in {"windows", "billing"} =>
        /\ project'.status = "active"
        /\ \A q \in Calls : call'[q].pc \notin {"idle", "usage"} => call'[q].key = NoKey
    /\ (call[aCall].pc = "idle" /\ made' > made) => call'[aCall] # call[aCall]

\* Which variables a round leaves alone.
rest(part) ==
    /\ part # "market" => UNCHANGED marketVars
    /\ part # "store" => UNCHANGED storeVars
    /\ part # "rewards" => UNCHANGED rewardVars
    /\ UNCHANGED round

MCNext ==
    /\ \/ round \in {"stakes", "oracle"} /\ MarketNext /\ rest("market")
       \/ round = "store" /\ StoreNext /\ rest("store")
       \/ round = "ledger" /\ LedgerNext /\ rest("ledger")
       \/ /\ round = "store" \/ (round = "stakes" /\ Len(positions) = 1)
          /\ \E from, to \in Users, n \in GiftAmounts, key \in GiftKeys :
                transferAssetGift(key, from, to, n)
          /\ rest("ledger")
       \/ /\ round = "store"
          /\ \E a \in Accounts, n \in GiftAmounts : createAdminEconomyAdjustment(a, n)
          /\ rest("ledger")
       \/ rewards /\ TenantRewardsNext /\ rest("rewards") /\ UNCHANGED ledgerVars
    /\ withinRound

(***************************************************************************)
(* The dispatcher's timer starts a cycle again and again, a cycle runs to  *)
(* its end, and time passes.  That an oracle answers in the end is the     *)
(* bound on the polls that do not resolve the market.                      *)
(***************************************************************************)
MCSpec ==
    /\ MCInit
    /\ [][MCNext]_mcVars
    /\ \A k \in Workers :
        WF_mcVars(round = "oracle" /\ workerCycle(k) /\ rest("market"))

(***************************************************************************)
(* No balance of an account, no prize pool and no stock falls below zero,  *)
(* and every row keeps its type (EconomyTypeOK, TenantRewardsTypeOK).      *)
(***************************************************************************)
RowsTypeOK == EconomyTypeOK /\ TenantRewardsTypeOK
==============================================================================
