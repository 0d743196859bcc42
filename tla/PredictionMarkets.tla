-------------------------- MODULE PredictionMarkets --------------------------
(***************************************************************************)
(* A pari-mutuel prediction market: positions that lock B_LUCK, settlement *)
(* by an administrator or by the oracle worker, cancellation, and the      *)
(* appeals that let an administrator step in for the oracle.               *)
(*                                                                         *)
(* Every operation on positions or on the market's status locks the market *)
(* row, so each is one step.  The oracle worker is not: it selects due     *)
(* markets, asks the oracle, and applies the answer in a transaction of    *)
(* its own that reads the market again only when it settles.               *)
(***************************************************************************)
EXTENDS AssetLedger, Sequences

CONSTANTS
    Outcomes,
    Stakes,             \* stakes users may place
    Vigs,               \* the fee in basis points
    Workers,            \* processes running the oracle dispatcher
    Reasons,            \* why an oracle's answer may open an appeal
    NoReason,
    MaxPositions,       \* bound on positions
    MaxPolls            \* bound on oracle polls that do not resolve the market

\* The whole of a pool in basis points.
BasisPoints == 10000

ASSUME PredictionMarketsAssumption ==
    /\ Stakes \subseteq Nat \ {0}
    /\ Vigs \subseteq 0..BasisPoints
    /\ "oracle_fetch_failed" \in Reasons
    /\ NoReason \notin Reasons
    /\ MaxPositions \in Nat
    /\ MaxPolls \in Nat

VARIABLES
    market,     \* prediction_markets row: status, provider, pool, vig, fee taken
    clock,      \* where now lies between opensAt, locksAt and resolvesAt
    positions,  \* prediction_positions, in the order of their ids
    binding,    \* prediction_market_oracles.status
    appeals,    \* prediction_market_appeals.status by reason
    oracle,     \* what each worker is doing with the market
    ack,        \* the appeal an administrator is acknowledging
    polls       \* polls that did not resolve the market so far

marketVars == <<market, clock, positions, binding, appeals, oracle, ack, polls>>

Moments == <<"draft", "open", "locked", "due">>

Final == {"resolved", "cancelled"}

Resting == [phase |-> "idle", outcome |-> "none"]

MarketInit ==
    /\ market = [status |-> "none", manual |-> FALSE, pool |-> 0, vig |-> 0, fee |-> 0]
    /\ clock \in {1, 2}
    /\ positions = <<>>
    /\ binding = "none"
    /\ appeals = [r \in Reasons |-> "none"]
    /\ oracle = [k \in Workers |-> Resting]
    /\ ack = NoReason
    /\ polls = 0

-----------------------------------------------------------------------------
\* Time passes for an existing market; it is created before it locks.
timePasses ==
    /\ market.status # "none"
    /\ clock < Len(Moments)
    /\ clock' = clock + 1
    /\ UNCHANGED <<ledgerVars, market, positions, binding, appeals, oracle, ack, polls>>

createPredictionMarket(manual, vig) ==
    /\ market.status = "none"
    /\ market' = [market EXCEPT !.status = Moments[clock], !.manual = manual, !.vig = vig]
    /\ binding' = IF manual THEN "manual_only" ELSE "active"
    /\ UNCHANGED <<ledgerVars, clock, positions, appeals, oracle, ack, polls>>

\* Mutant: the status follows the clock alone.
effectiveStatusByClock ==
    IF Moments[clock] = "due" THEN "locked" ELSE Moments[clock]

\* The stored status stays what it was at creation until the market is final.
getEffectivePredictionMarketStatus ==
    IF market.status \in Final THEN market.status
    ELSE IF Moments[clock] = "due" THEN "locked" ELSE Moments[clock]

openPositions == {i \in DOMAIN positions : positions[i].status = "open"}

stakeOf(is) == SumFunctionOnSet([i \in DOMAIN positions |-> positions[i].stake], is)

placePredictionPosition(u, outcome, stake) ==
    /\ market.status # "none"
    /\ getEffectivePredictionMarketStatus = "open"
    /\ Len(positions) < MaxPositions
    /\ canDebit(balances[Luck(u)], stake)
    /\ balances' = [balances EXCEPT ![Luck(u)] = lockAsset(@, stake)]
    /\ positions' = Append(positions, [user |-> u, outcome |-> outcome, stake |-> stake,
                                       status |-> "open", payout |-> 0])
    /\ market' = [market EXCEPT !.pool = @ + stake]
    /\ UNCHANGED <<keys, giftTransfers, giftEnergy, frozen, adjusted, adjustments, days>>
    /\ UNCHANGED <<clock, binding, appeals, oracle, ack, polls>>

\* Mutant: the market's pool keeps the stake of a sold position.
totalPoolAfterUnchanged(stake) == market.pool

totalPoolAfter(stake) == market.pool - stake

sellPredictionPosition(i) ==
    LET u == positions[i].user
        stake == positions[i].stake IN
    /\ getEffectivePredictionMarketStatus = "open"
    /\ positions[i].status = "open"
    /\ totalPoolAfter(stake) >= 0
    /\ canUnlock(balances[Luck(u)], stake)
    /\ balances' = [balances EXCEPT ![Luck(u)] = unlockAsset(@, stake)]
    /\ positions' = [positions EXCEPT ![i].status = "sold", ![i].payout = stake]
    /\ market' = [market EXCEPT !.pool = totalPoolAfter(stake)]
    /\ UNCHANGED <<keys, giftTransfers, giftEnergy, frozen, adjusted, adjustments, days>>
    /\ UNCHANGED <<clock, binding, appeals, oracle, ack, polls>>

-----------------------------------------------------------------------------
(***************************************************************************)
(* The settlement of open positions.  Shares of the payout pool are        *)
(* rounded down; the cents left over go one by one to the winners in the   *)
(* order of their remainders, largest first, then by id.                   *)
(***************************************************************************)
winners(outcome) == {i \in openPositions : positions[i].outcome = outcome}

feeAmount(outcome) ==
    IF winners(outcome) = {} THEN 0
    ELSE (stakeOf(openPositions) * market.vig) \div BasisPoints

payoutPool(outcome) == stakeOf(openPositions) - feeAmount(outcome)

winningPool(outcome) == stakeOf(winners(outcome))

exactPayout(i, outcome) == positions[i].stake * payoutPool(outcome)

roundedDown(i, outcome) == exactPayout(i, outcome) \div winningPool(outcome)

remainder(i, outcome) == exactPayout(i, outcome) % winningPool(outcome)

centsRemaining(outcome) ==
    payoutPool(outcome)
        - SumFunctionOnSet([i \in winners(outcome) |-> roundedDown(i, outcome)], winners(outcome))

ahead(i, outcome) ==
    {j \in winners(outcome) : \/ remainder(j, outcome) > remainder(i, outcome)
                              \/ remainder(j, outcome) = remainder(i, outcome) /\ j < i}

extraCents(i, outcome) ==
    LET W == Cardinality(winners(outcome))
        last == centsRemaining(outcome) % W
    IN  centsRemaining(outcome) \div W + IF Cardinality(ahead(i, outcome)) < last THEN 1 ELSE 0

\* Mutant: the cents that rounding leaves over are given to nobody.
payoutOfRoundedDown(i, outcome) ==
    IF winners(outcome) = {} THEN positions[i].stake
    ELSE IF positions[i].outcome # outcome THEN 0
    ELSE roundedDown(i, outcome)

payoutOf(i, outcome) ==
    IF winners(outcome) = {} THEN positions[i].stake
    ELSE IF positions[i].outcome # outcome THEN 0
    ELSE roundedDown(i, outcome) + extraCents(i, outcome)

resultOf(i, outcome) ==
    IF winners(outcome) = {} THEN "refunded"
    ELSE IF positions[i].outcome = outcome THEN "won" ELSE "lost"

holdersOf(is) == {positions[i].user : i \in is}

positionsOf(u) == {i \in openPositions : positions[i].user = u}

resolvePredictionMarketAppealsForMarket ==
    appeals' = [r \in Reasons |->
                    IF appeals[r] \in {"open", "acknowledged"} THEN "resolved" ELSE appeals[r]]

(***************************************************************************)
(* One transaction settles each holder's aggregate, credits the fee to the *)
(* house, closes the positions, the market and the binding, and resolves   *)
(* the appeals.                                                            *)
(***************************************************************************)
settlePredictionMarket(outcome) ==
    /\ getEffectivePredictionMarketStatus = "locked"
    /\ \A u \in holdersOf(openPositions) : canUnlock(balances[Luck(u)], stakeOf(positionsOf(u)))
    /\ balances' =
        [a \in Accounts |->
            IF a[2] = "B_LUCK" /\ a[1] \in holdersOf(openPositions)
            THEN settleLockedAsset(balances[a], stakeOf(positionsOf(a[1])),
                     SumFunctionOnSet([i \in positionsOf(a[1]) |-> payoutOf(i, outcome)], positionsOf(a[1])))
            ELSE balances[a]]
    /\ positions' =
        [i \in DOMAIN positions |->
            IF i \in openPositions
            THEN [positions[i] EXCEPT !.status = resultOf(i, outcome),
                                      !.payout = payoutOf(i, outcome)]
            ELSE positions[i]]
    /\ market' = [market EXCEPT !.status = "resolved", !.fee = feeAmount(outcome)]
    /\ binding' = "resolved"
    /\ resolvePredictionMarketAppealsForMarket
    /\ UNCHANGED <<keys, giftTransfers, giftEnergy, frozen, adjusted, adjustments, days>>

hasOpenPredictionMarketAppeal == \E r \in Reasons : appeals[r] \in {"open", "acknowledged"}

\* An administrator may settle an oracle's market only while an appeal is open.
adminSettles(outcome) ==
    /\ market.status # "none"
    /\ market.manual \/ hasOpenPredictionMarketAppeal
    /\ settlePredictionMarket(outcome)
    /\ UNCHANGED <<clock, oracle, ack, polls>>

cancelPredictionMarket ==
    /\ market.status \notin Final \cup {"none"}
    /\ \A u \in holdersOf(openPositions) : canUnlock(balances[Luck(u)], stakeOf(positionsOf(u)))
    /\ balances' =
        [a \in Accounts |->
            IF a[2] = "B_LUCK" /\ a[1] \in holdersOf(openPositions)
            THEN unlockAsset(balances[a], stakeOf(positionsOf(a[1])))
            ELSE balances[a]]
    /\ positions' =
        [i \in DOMAIN positions |->
            IF i \in openPositions
            THEN [positions[i] EXCEPT !.status = "refunded", !.payout = positions[i].stake]
            ELSE positions[i]]
    /\ market' = [market EXCEPT !.status = "cancelled"]
    /\ binding' = "cancelled"
    /\ resolvePredictionMarketAppealsForMarket
    /\ UNCHANGED <<keys, giftTransfers, giftEnergy, frozen, adjusted, adjustments, days>>
    /\ UNCHANGED <<clock, oracle, ack, polls>>

-----------------------------------------------------------------------------
(***************************************************************************)
(* Appeals.  The acknowledgement reads the appeal without a lock and then  *)
(* sets it to acknowledged whatever it has become.                         *)
(***************************************************************************)
queuePredictionMarketAppeal(r) == appeals' = [appeals EXCEPT ![r] = "open"]

acknowledgeReads(r) ==
    /\ ack = NoReason
    /\ appeals[r] \in {"open", "acknowledged"}
    /\ ack' = r
    /\ UNCHANGED <<ledgerVars, market, clock, positions, binding, appeals, oracle, polls>>

acknowledgePredictionMarketAppeal ==
    /\ ack # NoReason
    /\ appeals' = [appeals EXCEPT ![ack] = "acknowledged"]
    /\ ack' = NoReason
    /\ UNCHANGED <<ledgerVars, market, clock, positions, binding, oracle, polls>>

-----------------------------------------------------------------------------
(***************************************************************************)
(* One cycle of the oracle worker over this market.                        *)
(***************************************************************************)
\* Mutant: a binding under appeal is not polled again.
polledBindingsNotAppealed == {"active", "pending"}

polledBindings == {"active", "pending", "appealed"}

selectDueMarket(k) ==
    /\ oracle[k].phase = "idle"
    /\ market.status \in {"draft", "open", "locked"}
    /\ binding \in polledBindings
    /\ Moments[clock] = "due"
    /\ oracle' = [oracle EXCEPT ![k].phase = "polling"]
    /\ UNCHANGED <<ledgerVars, market, clock, positions, binding, appeals, ack, polls>>

\* The oracle has no answer yet.
applyOracleEvaluationStatus(k) ==
    /\ oracle[k].phase = "polling"
    /\ polls < MaxPolls
    /\ binding' = "pending"
    /\ oracle' = [oracle EXCEPT ![k] = Resting]
    /\ polls' = polls + 1
    /\ UNCHANGED <<ledgerVars, market, clock, positions, appeals, ack>>

\* The oracle's answer, or the failure to get one, opens an appeal.
evaluationAppeals(k, r) ==
    /\ oracle[k].phase = "polling"
    /\ polls < MaxPolls
    /\ binding' = "appealed"
    /\ queuePredictionMarketAppeal(r)
    /\ oracle' = [oracle EXCEPT ![k] = Resting]
    /\ polls' = polls + 1
    /\ UNCHANGED <<ledgerVars, market, clock, positions, ack>>

evaluationResolves(k, outcome) ==
    /\ oracle[k].phase = "polling"
    /\ oracle' = [oracle EXCEPT ![k] = [phase |-> "settling", outcome |-> outcome]]
    /\ UNCHANGED <<ledgerVars, market, clock, positions, binding, appeals, ack, polls>>

workerSettles(k) ==
    /\ oracle[k].phase = "settling"
    /\ settlePredictionMarket(oracle[k].outcome)
    /\ oracle' = [oracle EXCEPT ![k] = Resting]
    /\ UNCHANGED <<clock, ack, polls>>

\* The settlement throws, because the market is final by now, and the handler
\* of the cycle reports a failed poll.
workerSettlementFails(k) ==
    /\ oracle[k].phase = "settling"
    /\ getEffectivePredictionMarketStatus \in Final
    /\ binding' = "appealed"
    /\ queuePredictionMarketAppeal("oracle_fetch_failed")
    /\ oracle' = [oracle EXCEPT ![k] = Resting]
    /\ UNCHANGED <<ledgerVars, market, clock, positions, ack, polls>>

\* A worker process stops; nothing of its cycle is stored.
workerStops(k) ==
    /\ oracle[k].phase # "idle"
    /\ polls < MaxPolls
    /\ polls' = polls + 1
    /\ oracle' = [oracle EXCEPT ![k] = Resting]
    /\ UNCHANGED <<ledgerVars, market, clock, positions, binding, appeals, ack>>

workerCycle(k) ==
    \/ selectDueMarket(k)
    \/ applyOracleEvaluationStatus(k)
    \/ \E r \in Reasons : evaluationAppeals(k, r)
    \/ \E o \in Outcomes : evaluationResolves(k, o)
    \/ workerSettles(k)
    \/ workerSettlementFails(k)

MarketNext ==
    \/ timePasses
    \/ \E manual \in BOOLEAN, vig \in Vigs : createPredictionMarket(manual, vig)
    \/ \E u \in Users, o \in Outcomes, n \in Stakes : placePredictionPosition(u, o, n)
    \/ \E i \in DOMAIN positions : sellPredictionPosition(i)
    \/ \E o \in Outcomes : adminSettles(o)
    \/ cancelPredictionMarket
    \/ \E r \in Reasons : acknowledgeReads(r)
    \/ acknowledgePredictionMarketAppeal
    \/ \E k \in Workers : workerCycle(k) \/ workerStops(k)

-----------------------------------------------------------------------------
Position == [user : Users, outcome : Outcomes, stake : Stakes, payout : Nat,
             status : {"open", "sold", "won", "lost", "refunded"}]

MarketTypeOK ==
    /\ market \in [status : {"none", "draft", "open"} \cup Final, manual : BOOLEAN,
                   pool : Nat, vig : Vigs \cup {0}, fee : Nat]
    /\ clock \in DOMAIN Moments
    /\ positions \in Seq(Position)
    /\ binding \in {"none", "manual_only", "active", "pending", "appealed"} \cup Final
    /\ appeals \in [Reasons -> {"none", "open", "acknowledged", "resolved"}]
    /\ oracle \in [Workers -> [phase : {"idle", "polling", "settling"},
                              outcome : Outcomes \cup {"none"}]]
    /\ ack \in Reasons \cup {NoReason}

(***************************************************************************)
(* What users have locked is exactly their open stakes, and until it is    *)
(* final the market's pool is exactly the open stakes of all of them:      *)
(* placing, selling, settling and cancelling keep the balance rows, the    *)
(* positions and the market's running total in step.                       *)
(***************************************************************************)
StakesAreLocked ==
    /\ \A u \in Users : balances[Luck(u)].locked = stakeOf(positionsOf(u))
    /\ market.status \notin Final => market.pool = stakeOf(openPositions)

(***************************************************************************)
(* A settled market pays out its whole pool: payouts of the positions that *)
(* were not sold and the house's fee add up to the pool, to the cent, and  *)
(* of two winners the one with the larger stake never receives less.       *)
(***************************************************************************)
SettlementPaysPool ==
    market.status = "resolved" =>
        LET settled == {i \in DOMAIN positions : positions[i].status # "sold"}
            won == {i \in DOMAIN positions : positions[i].status = "won"}
        IN  /\ SumFunctionOnSet([i \in settled |-> positions[i].payout], settled) + market.fee = market.pool
            /\ \A i, j \in won :
                    positions[i].stake > positions[j].stake
                        => positions[i].payout >= positions[j].payout

(***************************************************************************)
(* A final market stays as it was settled: neither a second settlement,    *)
(* by the worker or an administrator, nor a cancellation, a sale or a late *)
(* oracle answer changes its result, a position or what was paid.          *)
(***************************************************************************)
FinalIsFinal ==
    [][market.status \in Final => UNCHANGED <<market, positions>>]_<<market, positions>>

(***************************************************************************)
(* Once an oracle's market is due it ends, settled or cancelled: failed    *)
(* polls, appeals that nobody takes up and workers that stop delay it only.*)
(***************************************************************************)
MarketEnds ==
    (market.status # "none" /\ ~market.manual /\ Moments[clock] = "due")
        ~> market.status \in Final
=============================================================================
