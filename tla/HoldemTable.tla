---------------------------- MODULE HoldemTable ------------------------------
(***************************************************************************)
(* One hold'em table and the money at it (holdem/service.ts,               *)
(* wallet-settlement.ts, persistHoldemTransition): cash and casual tables, *)
(* where a player's stack is locked in the wallet, tournaments, whose      *)
(* buy-ins go to the prize pool, the bots of casual tables, which play for *)
(* the house, and the worker that acts for seats whose time is up.         *)
(*                                                                         *)
(* Every request and every pass of the worker is one transaction under the *)
(* lock of the table's row, so each is one action.                         *)
(***************************************************************************)
EXTENDS HoldemEngine

CONSTANTS
    Players,            \* users who may sit down
    Bot,                \* the user of a bot's seat
    MinBuyIn,
    MaxBuyIn,
    Funds,              \* what each player brings
    RakePolicy,         \* rakeBps, cap and noFlopNoDrop of a cash table
    StartingStack,      \* of a tournament
    RequestedPlaces,    \* payout places asked for, 0 for none
    MaxHands            \* bound on hands dealt

ASSUME HoldemAssumption ==
    /\ MinBuyIn \in 1..MaxBuyIn
    /\ MaxBuyIn \in Nat /\ Funds \in Nat /\ StartingStack \in Nat \ {0}
    /\ RequestedPlaces \in 0..9 /\ MaxHands \in Nat
    /\ IsFiniteSet(Players) /\ Bot \notin Players /\ NoPlayer \notin Players \cup {Bot}
    /\ RakePolicy.rakeBps \in 0..10000 /\ RakePolicy.cap \in Nat

VARIABLES
    table,              \* the table's row
    seats,              \* its seats' rows
    purse,              \* each player's free and locked balance
    bankroll,           \* the house's, since the table opened
    prizePool,          \* the tournament money in the house's prize pool
    vanished            \* auxiliary: chips that bots removed during a hand had put in,
                        \* and chips of pots that only folded seats had a share in

holdemVars == <<table, seats, purse, bankroll, prizePool, vanished>>

noTable ==
    [kind |-> "none", status |-> "waiting", hands |-> 0, board |-> 0, dealer |-> Nil,
     pending |-> Nil, currentBet |-> 0, lastFullRaise |-> 0, acted |-> {},
     event |-> "none", buyIn |-> 0, places |-> 0, standing |-> [u \in Players |-> Nil]]

HoldemInit ==
    /\ table = noTable
    /\ seats = [i \in SeatNos |-> noSeat]
    /\ purse = [u \in Players |-> [free |-> Funds, locked |-> 0]]
    /\ bankroll = 0
    /\ prizePool = 0
    /\ vanished = 0

\* What a transaction loads, and what it leaves behind.
loadTableState ==
    [t |-> table, s |-> seats, w |-> purse, house |-> bankroll, pool |-> prizePool,
     gone |-> vanished, pots |-> {}]

persisted(e) ==
    /\ table' = e.t
    /\ seats' = e.s
    /\ purse' = e.w
    /\ bankroll' = e.house
    /\ prizePool' = e.pool
    /\ vanished' = e.gone

seatsOf(e, u) == {i \in SeatNos : e.s[i].user = u}
humans(e) == {i \in seated(e) : e.s[i].user # Bot}
bots(e) == seatsOf(e, Bot)
isTournamentTable(e) == e.t.kind = "tournament"

(***************************************************************************)
(* The clock of the seat to act.  A seat that is still, or again, to act   *)
(* keeps the deadline it had.                                              *)
(***************************************************************************)
onTurn(e, i) == e.t.status = "active" /\ e.t.pending = i /\ e.s[i].status = "active"

\* A clock that is in one of the states of starts is started.
clocksAre(e, starts) ==
    [e EXCEPT !.s = [i \in SeatNos |->
        [e.s[i] EXCEPT !.clock = IF ~onTurn(e, i) THEN "none"
                                 ELSE IF @ \in starts THEN "running" ELSE @]]]

\* Mutant: every save of the table starts the clock again.
restartsClock(e) == clocksAre(e, {"none", "running", "expired"})

syncHoldemTurnDeadlines(e) == clocksAre(e, {"none"})

isHoldemTurnExpired(e) == e.t.pending # Nil /\ e.s[e.t.pending].clock = "expired"

(***************************************************************************)
(* Presence.  "fresh": heartbeat within the grace period.  "graceOver" and *)
(* "leaseOver": a deadline has passed and nobody has noticed yet.  "away": *)
(* sat out for it.  "gone": the lease's end was noticed.                   *)
(***************************************************************************)
applySeatPresenceTouch(e, u) ==
    [e EXCEPT !.s = [i \in SeatNos |->
        LET x == e.s[i]
        IN  IF x.user # u THEN x
            ELSE [x EXCEPT !.presence = "fresh", !.cashOut = FALSE,
                           !.sitOut = IF @ = "presence" /\ x.stack > 0 THEN "no" ELSE @]]]

(***************************************************************************)
(* Tournaments.  A player who registered has standing 0 until a finishing  *)
(* place is known.                                                         *)
(***************************************************************************)
registered(e) == {u \in Players : e.t.standing[u] # Nil}

resolveTournamentPayoutPlaces(count, requested) ==
    LET default == IF count <= 2 THEN 1 ELSE IF count <= 5 THEN 2 ELSE 3
    IN  IF count <= 1 THEN 1
        ELSE Max({1, Min({count, 3, IF requested = 0 THEN default ELSE requested})})

syncTournamentStandings(e) ==
    LET places == resolveTournamentPayoutPlaces(Cardinality(registered(e)), e.t.places)
    IN  [e EXCEPT !.t = [e.t EXCEPT !.places = places]]

\* Gives a player a standing.
stands(e, u, n) ==
    [e EXCEPT !.t = [e.t EXCEPT !.standing = [e.t.standing EXCEPT ![u] = n]]]

removeTournamentStanding(e, u) ==
    LET left == stands(e, u, Nil)
    IN  IF registered(left) = {} THEN [left EXCEPT !.t = [left.t EXCEPT !.places = 0]]
        ELSE syncTournamentStandings(left)

\* What each of the paid places gets; the last one takes what is left.
distributeTournamentPayouts(total, places) ==
    LET ratio == CASE places = 1 -> <<10000>>
                   [] places = 2 -> <<6500, 3500>>
                   [] places = 3 -> <<5000, 3000, 2000>>
        part(p) == (total * ratio[p]) \div 10000
    IN  [p \in 1..places |->
            IF p < places THEN part(p) ELSE total - SumFunctionOnSet([q \in 1..(places - 1) |-> part(q)], 1..(places - 1))]

empties(e, S) == [e EXCEPT !.s = [i \in SeatNos |-> IF i \in S THEN noSeat ELSE e.s[i]]]

\* Places of the seats that went broke, the one with the fewest chips before
\* the last action lowest; the table closes when one seat has chips left.
settleTournamentAfterHand(before, e) ==
    LET busted == {i \in seated(e) : e.s[i].stack = 0}
        alive == seated(e) \ busted
        ahead(j, i) == \/ before.s[j].stack < before.s[i].stack
                       \/ before.s[j].stack = before.s[i].stack /\ j < i
        place(i) == Cardinality(seated(e)) - Cardinality({j \in busted : ahead(j, i)})
        over == Cardinality(alive) = 1
        placeOf(u) ==
            LET mine == seatsOf(e, u)
            IN  IF mine \cap busted # {} THEN place(Min(mine))
                ELSE IF over /\ mine # {} THEN 1
                ELSE e.t.standing[u]
        placed == [e.t EXCEPT !.standing = [u \in Players |-> placeOf(u)]]
        paid == distributeTournamentPayouts(e.t.buyIn * Cardinality(registered(e)), e.t.places)
        prize == [u \in Players |-> IF placeOf(u) \in DOMAIN paid THEN paid[placeOf(u)] ELSE 0]
    IN  IF busted = {} THEN {e}
        ELSE IF alive = {} THEN {}
        ELSE IF ~over THEN {[empties(e, busted) EXCEPT !.t = placed]}
        ELSE {clearTableAfterCashout(
                [empties(e, SeatNos) EXCEPT
                    !.t = [placed EXCEPT !.event = "completed"],
                    !.w = [u \in Players |-> [e.w[u] EXCEPT !.free = e.w[u].free + prize[u]]],
                    !.pool = e.pool - SumFunctionOnSet(prize, Players)])}

(***************************************************************************)
(* Seats that leave.                                                       *)
(***************************************************************************)
totalOf(e, S) == SumFunctionOnSet([i \in S |-> e.s[i].total], S)
stacksOf(e, S) == SumFunctionOnSet([i \in S |-> e.s[i].stack], S)

removeBotSeats(e, S) ==
    IF S = {} THEN e
    ELSE clearTableAfterCashout([empties(e, S) EXCEPT !.gone = e.gone + totalOf(e, S)])

removeSeatAndCashOut(e, S) ==
    LET cashedOut(u) == stacksOf(e, seatsOf(e, u) \cap S)
    IN  clearTableAfterCashout(
            [empties(e, S) EXCEPT
                !.w = [u \in Players |-> [free |-> e.w[u].free + cashedOut(u),
                                          locked |-> e.w[u].locked - cashedOut(u)]]])

settlePendingSeatCashOuts(e) ==
    LET broke == {i \in bots(e) : e.s[i].stack = 0}
        due == {i \in humans(e) : e.s[i].cashOut /\ canUserLeaveTable(e, i)}
    IN  removeSeatAndCashOut(removeBotSeats(e, broke), due)

botsLeaveWithLastHuman(e) == IF humans(e) = {} THEN removeBotSeats(e, bots(e)) ELSE e

(***************************************************************************)
(* The end of every transaction that moved the hand on.                    *)
(***************************************************************************)
syncSettledLockedBalances(before, e, rake) ==
    LET delta(S) == SumFunctionOnSet([i \in S |-> e.s[i].stack - before.s[i].stack], S)
    IN  [e EXCEPT !.w = [u \in Players |->
                            [e.w[u] EXCEPT !.locked = e.w[u].locked + delta(seatsOf(e, u))]],
                  !.house = e.house + delta(bots(e)) + rake]

persistHoldemTransition(before, e) ==
    LET raked == e.t.kind = "cash" /\ e.t.status = "waiting"
        net == IF raked THEN applyRakeToSettledState(e, RakePolicy) ELSE e
        rake == IF raked THEN totalRakeAmount(e, RakePolicy) ELSE 0
        settled == IF ~isTournamentTable(e)
                   THEN {settlePendingSeatCashOuts(syncSettledLockedBalances(before, net, rake))}
                   ELSE IF e.t.status = "waiting" THEN settleTournamentAfterHand(before, e)
                   ELSE {e}
    IN  {[syncHoldemTurnDeadlines(botsLeaveWithLastHuman(x)) EXCEPT !.pots = {}] : x \in settled}

transition(before, hands) == UNION {persistHoldemTransition(before, e) : e \in hands}

(***************************************************************************)
(* Sitting down and leaving.                                               *)
(***************************************************************************)
freshSeat(u, stack) == [noSeat EXCEPT !.user = u, !.stack = stack, !.presence = "fresh"]

openSeats(e) == SeatNos \ seated(e)

hasInWallet(e, u, purseOf) == [e EXCEPT !.w = [e.w EXCEPT ![u] = purseOf]]

applyBuyInToWallet(e, u, amount) ==
    hasInWallet(e, u, [free |-> e.w[u].free - amount, locked |-> e.w[u].locked + amount])

\* Between a player and the prize pool.
applyTournamentWithdrawableDelta(e, u, delta) ==
    LET moved == hasInWallet(e, u, [e.w[u] EXCEPT !.free = e.w[u].free + delta])
    IN  [moved EXCEPT !.pool = e.pool - delta]

\* The player takes the seat.
takes(e, i, x) == [e EXCEPT !.s = [e.s EXCEPT ![i] = x]]

sitsDown(e, u, i, amount) ==
    IF isTournamentTable(e)
    THEN syncTournamentStandings(
            stands(takes(applyTournamentWithdrawableDelta(e, u, -amount), i,
                         freshSeat(u, StartingStack)), u, 0))
    ELSE takes(applyBuyInToWallet(e, u, amount), i, freshSeat(u, amount))

\* Bots sit in the lowest open seats with chips nobody paid for.
seatHoldemBots(e, count, amount) ==
    LET isNext(i) == Cardinality({j \in openSeats(e) : j < i}) < count
    IN  [e EXCEPT !.s = [i \in SeatNos |->
            IF i \in openSeats(e) /\ isNext(i) THEN freshSeat(Bot, amount) ELSE e.s[i]]]

createHoldemTable(u, kind, amount, botCount) ==
    LET e == loadTableState
        row == IF kind # "tournament" THEN [e.t EXCEPT !.kind = kind]
               ELSE [e.t EXCEPT !.kind = kind, !.event = "registering", !.buyIn = amount,
                                !.places = RequestedPlaces]
        opened == [e EXCEPT !.t = row]
    IN  /\ table.kind = "none"
        /\ botCount > 0 => kind = "casual"
        /\ botCount <= SeatCount - 1
        /\ purse[u].free >= amount
        /\ persisted(seatHoldemBots(sitsDown(opened, u, 0, amount), botCount, amount))

joinHoldemTable(u, amount) ==
    LET e == loadTableState
        joined == sitsDown(e, u, Min(openSeats(e)), amount)
    IN  /\ table.kind # "none"
        /\ seatsOf(e, u) = {}
        /\ isTournamentTable(e) => table.event = "registering" /\ amount = table.buyIn
        /\ openSeats(e) # {}
        /\ purse[u].free >= amount
        /\ persisted(IF isTournamentTable(e) THEN syncHoldemTurnDeadlines(joined) ELSE joined)

addHoldemBots(u, count, amount) ==
    LET e == loadTableState
    IN  /\ seatsOf(e, u) # {}
        /\ table.kind = "casual"
        /\ table.status = "waiting"
        /\ count <= Cardinality(openSeats(e))
        /\ persisted(syncHoldemTurnDeadlines(seatHoldemBots(e, count, amount)))

removeTournamentSeatAndRefund(e, u) ==
    removeTournamentStanding(
        empties(applyTournamentWithdrawableDelta(e, u, e.t.buyIn), seatsOf(e, u)), u)

leaveHoldemTable(u) ==
    LET e == loadTableState
    IN  /\ seatsOf(e, u) # {}
        /\ IF isTournamentTable(e)
           THEN /\ table.event = "registering"
                /\ persisted(syncHoldemTurnDeadlines(removeTournamentSeatAndRefund(e, u)))
           ELSE /\ \A i \in seatsOf(e, u) : canUserLeaveTable(e, i)
                /\ LET left == removeSeatAndCashOut(e, seatsOf(e, u))
                   IN  persisted([botsLeaveWithLastHuman(left) EXCEPT !.t = left.t])

(***************************************************************************)
(* Playing.  Starting a hand does not go through persistHoldemTransition,  *)
(* even when the blinds put everyone all in and settle it at once.         *)
(***************************************************************************)
startHoldemTableHand(u) ==
    LET e == loadTableState
        running == IF table.event = "registering"
                   THEN syncTournamentStandings([e EXCEPT !.t = [e.t EXCEPT !.event = "running"]])
                   ELSE e
    IN  /\ seatsOf(e, u) # {}
        /\ table.status = "waiting"
        /\ table.event # "completed"
        /\ table.hands < MaxHands
        /\ Cardinality(listEligibleSeats(e)) >= resolveMinimumRequiredPlayers(e)
        /\ listEligibleSeats(e) \cap humans(e) # {}
        /\ \E dealt \in startHoldemHand(running) :
            LET touched == [applySeatPresenceTouch(dealt, u) EXCEPT !.pots = {}]
                booked == IF isTournamentTable(e) THEN touched
                          ELSE syncSettledLockedBalances(e, touched, 0)
            IN  persisted(syncHoldemTurnDeadlines(booked))

processExpiredHoldemTurn(e) ==
    actOnHoldemSeat(e, e.t.pending, resolveHoldemTimeoutAction(e, e.t.pending))

\* The worker's pass, or any player's move that comes too late.
processExpiredHoldemTurnForTable ==
    LET e == loadTableState
    IN  /\ isHoldemTurnExpired(e)
        /\ \E x \in transition(e, processExpiredHoldemTurn(e)) : persisted(x)

actOnHoldem(u, move) ==
    LET e == loadTableState
        played == UNION {actOnHoldemSeat(e, i, move) : i \in seatsOf(e, u)}
    IN  /\ ~isHoldemTurnExpired(e)
        /\ \E x \in transition(e, {applySeatPresenceTouch(y, u) : y \in played}) : persisted(x)

\* What a bot may decide; how strong its cards are is left open.
resolveAutomatedHoldemBotAction(e, i) ==
    LET call == toCall(e, i)
        atMost(n) == Min({n, maximumRaiseTo(e, i)})
        pressed == 5 * call >= e.s[i].stack + call \/ e.s[i].stack <= 2 * call
        raises == {atMost(minimumRaiseTo(e)), atMost(minimumRaiseTo(e) + e.t.currentBet)}
        wanted == IF call = 0
                  THEN [action : {"check"}, to : {0}]
                       \cup [action : {"bet"}, to : {atMost(2 * BigBlind), atMost(3 * BigBlind)}]
                  ELSE [action : {"fold", "call"}, to : {0}]
                       \cup [action : {"raise"}, to : raises]
                       \cup IF pressed THEN [action : {"all_in"}, to : {maximumRaiseTo(e, i)}]
                            ELSE {}
    IN  wanted \cap resolveHoldemActionAvailability(e, i)

runAutomatedHoldemBotTurns ==
    LET e == loadTableState
    IN  /\ table.status = "active"
        /\ table.pending \in bots(e)
        /\ ~isHoldemTurnExpired(e)
        /\ \E move \in resolveAutomatedHoldemBotAction(e, table.pending) :
            \E x \in transition(e, actOnHoldemSeat(e, table.pending, move)) : persisted(x)

(***************************************************************************)
(* Presence: the worker, heartbeats, sitting out and in, and time.         *)
(***************************************************************************)
presenceNoticed(e) ==
    LET noticed(x) ==
            CASE x.user \in {NoPlayer, Bot} -> x
              [] x.presence = "graceOver" -> [x EXCEPT !.presence = "away", !.sitOut = "presence"]
              [] x.presence = "leaseOver" -> [x EXCEPT !.presence = "gone", !.sitOut = "presence",
                                                       !.cashOut = ~isTournamentTable(e)]
              [] OTHER -> x
    IN  [e EXCEPT !.s = [i \in SeatNos |-> noticed(e.s[i])]]

expiredHoldemPresence(e) ==
    LET seen == presenceNoticed(e)
        due == ~isTournamentTable(e)
               /\ \E i \in humans(seen) : seen.s[i].cashOut /\ canUserLeaveTable(seen, i)
        settled == IF isTournamentTable(e) THEN seen ELSE settlePendingSeatCashOuts(seen)
    IN  IF seen = e /\ ~due THEN e ELSE syncHoldemTurnDeadlines(botsLeaveWithLastHuman(settled))

\* The worker's pass, or the one a player's call begins with, in a
\* transaction of its own: a seat may run out again before the call goes on.
processExpiredHoldemPresenceForTable ==
    LET e == loadTableState
    IN  expiredHoldemPresence(e) # e /\ persisted(expiredHoldemPresence(e))

touchHoldemSeatPresence(u) ==
    LET e == loadTableState
    IN  /\ seatsOf(e, u) # {}
        /\ persisted(syncHoldemTurnDeadlines(applySeatPresenceTouch(e, u)))

setHoldemSeatMode(u, out) ==
    LET e == loadTableState
        back == applySeatPresenceTouch(e, u)
        sat(i) == IF out THEN takes(e, i, [e.s[i] EXCEPT !.sitOut = "manual", !.cashOut = FALSE])
                  ELSE takes(back, i, [back.s[i] EXCEPT !.sitOut = "no"])
    IN  \E i \in seatsOf(e, u) :
            /\ ~out => e.s[i].stack > 0
            /\ out = (e.s[i].sitOut = "no")
            /\ persisted(syncHoldemTurnDeadlines(sat(i)))

passes(i, x) == seats' = [seats EXCEPT ![i] = x] /\ UNCHANGED <<table, purse, bankroll, prizePool, vanished>>

turnTimeRunsOut(i) ==
    /\ seats[i].clock = "running"
    /\ passes(i, [seats[i] EXCEPT !.clock = "expired"])

graceRunsOut(i) ==
    /\ seats[i].presence = "fresh" /\ seats[i].user \in Players
    /\ passes(i, [seats[i] EXCEPT !.presence = "graceOver"])

leaseRunsOut(i) ==
    /\ seats[i].presence \in {"graceOver", "away"}
    /\ passes(i, [seats[i] EXCEPT !.presence = "leaseOver"])

\* Any other move is refused.
offeredMoves ==
    UNION {resolveHoldemActionAvailability(loadTableState, i) : i \in SeatNos}

HoldemNext ==
    \/ \E u \in Players :
        \/ \E kind \in {"cash", "casual", "tournament"}, a \in MinBuyIn..MaxBuyIn, n \in 0..SeatCount :
            createHoldemTable(u, kind, a, n)
        \/ \E a \in MinBuyIn..MaxBuyIn : joinHoldemTable(u, a)
        \/ \E a \in MinBuyIn..MaxBuyIn, n \in 1..SeatCount : addHoldemBots(u, n, a)
        \/ leaveHoldemTable(u)
        \/ startHoldemTableHand(u)
        \/ \E move \in offeredMoves : actOnHoldem(u, move)
        \/ touchHoldemSeatPresence(u)
        \/ \E out \in BOOLEAN : setHoldemSeatMode(u, out)
    \/ runAutomatedHoldemBotTurns
    \/ processExpiredHoldemTurnForTable
    \/ processExpiredHoldemPresenceForTable
    \/ \E i \in SeatNos : turnTimeRunsOut(i) \/ graceRunsOut(i) \/ leaseRunsOut(i)

HoldemSpec == HoldemInit /\ [][HoldemNext]_holdemVars

(***************************************************************************)
(* Types of the rows, with no stack, bet or balance below zero; and a hand *)
(* that goes on waits for a seat that can act and whose clock was started  *)
(* (resolveTerminalAndStreetProgression, syncHoldemTurnDeadlines).         *)
(***************************************************************************)
HoldemTypeOK ==
    /\ table.kind \in {"none", "cash", "casual", "tournament"}
    /\ table.status \in {"waiting", "active"}
    /\ table.event \in {"none", "registering", "running", "completed"}
    /\ table.board \in {0, 3, 4, 5}
    /\ table.acted \subseteq SeatNos
    /\ table.hands \in 0..MaxHands
    /\ \A i \in SeatNos :
        /\ seats[i].stack \in Nat /\ seats[i].committed \in Nat /\ seats[i].total \in Nat
        /\ seats[i].status \in {"waiting", "active", "folded", "all_in"}
    /\ \A u \in Players : purse[u].free \in Nat /\ purse[u].locked \in Nat
    /\ prizePool \in Nat
    /\ (table.status = "active") =>
        table.pending \in listActionableSeats(loadTableState) /\ seats[table.pending].clock # "none"

(***************************************************************************)
(* Money neither appears nor disappears at a table, whoever raises, folds, *)
(* times out, splits a pot with an odd cent or leaves: balances, house and *)
(* pot add up, but for the chips of bots that settlePendingSeatCashOuts    *)
(* removed all in and of the pots that their removal left without a seat   *)
(* that may win them (settleShowdown).  What is locked for a player is the *)
(* player's stack; a tournament's pool holds every buy-in until all of it  *)
(* is paid out, and its chips are the ones it started with.                *)
(***************************************************************************)
moneyOfPlayers ==
    SumFunctionOnSet([u \in Players |-> purse[u].free + purse[u].locked], Players)
chipsAt(i) == seats[i].stack + seats[i].total

TableMoneyKept ==
    LET e == loadTableState
        entries == IF table.event = "completed" THEN 0 ELSE Cardinality(registered(e))
        inPot == IF isTournamentTable(e) THEN 0 ELSE totalOf(e, SeatNos)
    IN  /\ moneyOfPlayers + bankroll + prizePool + inPot + vanished
              = Funds * Cardinality(Players)
        /\ \A u \in Players :
            purse[u].locked = IF isTournamentTable(e) THEN 0 ELSE stacksOf(e, seatsOf(e, u))
        /\ isTournamentTable(e) =>
            /\ prizePool = table.buyIn * entries
            /\ stacksOf(e, SeatNos) + totalOf(e, SeatNos) = StartingStack * entries

(***************************************************************************)
(* A hand can bring a seat from each opponent at most what the seat itself *)
(* brought to the hand: an all-in wins the pots it matched and no more     *)
(* (buildPendingPotViews, settleShowdown), also when the hand ends by      *)
(* folds or when nobody can act any more.  A hand a bot was removed from   *)
(* is excepted: whoever folds to the bet of a bot that has gone leaves     *)
(* chips that nobody matched.                                              *)
(***************************************************************************)
NobodyWinsUnmatched ==
    [][LET e == loadTableState
           plays(i) == IF table.status = "active" THEN isSeatInHand(seats[i])
                       ELSE i \in listEligibleSeats(e)
           others(i) == {j \in SeatNos \ {i} : plays(j)}
           least(i, j) == Min({chipsAt(i), chipsAt(j)})
           ends == table'.status = "waiting" /\ (table.status = "active" \/ table'.hands # table.hands)
       IN  ends /\ vanished = 0 => \A i \in SeatNos : seats'[i].user = seats[i].user /\ plays(i) =>
                seats'[i].stack - chipsAt(i)
                    <= SumFunctionOnSet([j \in others(i) |-> least(i, j)], others(i))]_holdemVars

(***************************************************************************)
(* Every hand ends although players may stop answering at any moment and   *)
(* others keep sending heartbeats, sitting out and in, joining and         *)
(* leaving: the clock of the seat to act runs out, and the worker checks   *)
(* or folds for it (processExpiredHoldemTurnForTable).  A hand a bot was   *)
(* removed from is excepted: its last player cannot fold.                  *)
(***************************************************************************)
HandsEnd == (table.status = "active") ~> (table.status = "waiting" \/ vanished > 0)

(***************************************************************************)
(* Between hands, what players lost to bots is what the house won.  The    *)
(* test 'settles casual bot hands against the house bankroll instead of    *)
(* minting player locked balance' says so of a hand.                       *)
(***************************************************************************)
BotHandsAgainstHouse ==
    table.status = "waiting" =>
        moneyOfPlayers + bankroll + prizePool = Funds * Cardinality(Players)
=============================================================================
