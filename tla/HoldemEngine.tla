---------------------------- MODULE HoldemEngine -----------------------------
(***************************************************************************)
(* The rules of a hold'em hand (holdem/engine.ts): who is dealt in, whose  *)
(* turn it is, what a seat may do, when a street or the hand is over, and  *)
(* who gets which chips of which pot.                                      *)
(*                                                                         *)
(* The engine works on a state loaded from the database; here it is a      *)
(* record e whose fields t and s are the table and its seats, and whose    *)
(* field pots holds the pots of the hand that has just been settled.  An   *)
(* operator returns the state the code leaves behind, or the set of them   *)
(* where the cards decide.  A throw has no result.  Cards are abstracted   *)
(* to the number on the board and, at the showdown, a rank of each hand.   *)
(***************************************************************************)
EXTENDS Integers, FiniteSets, FiniteSetsExt

CONSTANTS
    NoPlayer,           \* the user of an empty seat
    SeatCount,          \* maxSeats
    SmallBlind,
    BigBlind

ASSUME HoldemBlinds == SmallBlind \in 1..BigBlind /\ BigBlind \in Nat /\ SeatCount \in Nat \ {0, 1}

SeatNos == 0..(SeatCount - 1)
Nil == -1

noSeat ==
    [user |-> NoPlayer, stack |-> 0, committed |-> 0, total |-> 0, status |-> "waiting",
     clock |-> "none", presence |-> "gone", sitOut |-> "no", cashOut |-> FALSE]

seated(e) == {i \in SeatNos : e.s[i].user # NoPlayer}
isSeatInHand(x) == x.status \in {"active", "all_in", "folded"}
listNonFoldedSeats(e) == {i \in seated(e) : e.s[i].status \in {"active", "all_in"}}
listActionableSeats(e) == {i \in seated(e) : e.s[i].status = "active" /\ e.s[i].stack > 0}
listEligibleSeats(e) == {i \in seated(e) : e.s[i].sitOut = "no" /\ e.s[i].stack > 0}

resolveMinimumRequiredPlayers(e) == IF e.t.kind = "casual" THEN 1 ELSE 2
isSoloHoldemState(e) == e.t.kind = "casual" /\ Cardinality(listEligibleSeats(e)) = 1

\* The seat of S to the left of a seat, round the table.
nextSeatIndex(S, from) ==
    LET after == {i \in S : i > from}
    IN  IF after # {} THEN Min(after) ELSE IF S # {} THEN Min(S) ELSE Nil

\* Mutant: a seat may put in more than it has.
postInFull(x, amount) ==
    [x EXCEPT !.stack = @ - amount, !.committed = @ + amount, !.total = @ + amount]

postFromStack(x, amount) ==
    LET transfer == Min({x.stack, amount})
    IN  [x EXCEPT !.stack = @ - transfer,
                  !.committed = @ + transfer,
                  !.total = @ + transfer,
                  !.status = IF transfer = x.stack THEN "all_in" ELSE @]

(***************************************************************************)
(* Pots: one for each amount that some seat has put in and no seat less.   *)
(***************************************************************************)
contributed(e) == {e.s[i].total : i \in seated(e)} \ {0}

\* Mutant: pots when a seat may win what it did not match.
potsWithoutLevels(e) ==
    {[level |-> level,
      amount |-> SumFunctionOnSet([i \in seated(e) |-> e.s[i].total], seated(e)),
      eligible |-> listNonFoldedSeats(e)] :
        level \in {l \in contributed(e) : \A m \in contributed(e) : l >= m}}

buildPendingPotViews(e) ==
    LET pot(level) ==
            LET below == Max({0} \cup {l \in contributed(e) : l < level})
                involved == {i \in seated(e) : e.s[i].total >= level}
            IN  [level |-> level,
                 amount |-> (level - below) * Cardinality(involved),
                 eligible |-> {i \in involved : e.s[i].status # "folded"}]
    IN  {pot(level) : level \in contributed(e)}

sortSeatIndexesLeftOfDealer(e, i) == (i - e.t.dealer + SeatCount) % SeatCount

\* Mutant: the division without the odd cents.
evenShare(e, amount, winners, i) ==
    IF i \in winners THEN amount \div Cardinality(winners) ELSE 0

\* A winner's part of an amount: the odd cents go round from the dealer.
distributeAmountAcrossSeatIndexes(e, amount, winners, i) ==
    LET ahead == {j \in winners :
                    sortSeatIndexesLeftOfDealer(e, j) < sortSeatIndexesLeftOfDealer(e, i)}
        n == Cardinality(winners)
    IN  IF i \notin winners THEN 0
        ELSE (amount \div n) + (IF Cardinality(ahead) < amount % n THEN 1 ELSE 0)

amountOf(pots) == SumFunctionOnSet([p \in pots |-> p.amount], pots)

settleTableToWaiting(e, pots) ==
    LET share(p, i) == distributeAmountAcrossSeatIndexes(e, p.amount, p.winners, i)
        won == [i \in SeatNos |-> SumFunctionOnSet([p \in pots |-> share(p, i)], pots)]
        lost == {p \in pots : p.winners = {}}
    IN  [e EXCEPT !.t = [e.t EXCEPT !.status = "waiting", !.pending = Nil,
                                    !.currentBet = 0, !.acted = {}],
                  !.pots = pots,
                  !.gone = e.gone + amountOf(lost),
                  !.s = [i \in SeatNos |->
                            [e.s[i] EXCEPT !.stack = e.s[i].stack + won[i], !.committed = 0,
                                           !.total = 0, !.status = "waiting"]]]

withWinners(p, winners) == [level |-> p.level, amount |-> p.amount, winners |-> winners]

settleByFold(e) ==
    {settleTableToWaiting(e, {withWinners(p, {i}) : p \in buildPendingPotViews(e)}) :
        i \in listNonFoldedSeats(e)}

\* rank compares the best hands; equal ranks split a pot.
settleShowdown(e) ==
    LET shown == listNonFoldedSeats(e)
        best(p, rank) == {i \in p.eligible : \A j \in p.eligible : rank[i] >= rank[j]}
    IN  {settleTableToWaiting([e EXCEPT !.t = [e.t EXCEPT !.board = 5]],
                              {withWinners(p, best(p, rank)) : p \in buildPendingPotViews(e)}) :
            rank \in IF shown = {} THEN {} ELSE [shown -> 1..Cardinality(shown)]}

(***************************************************************************)
(* Streets.  The loop of resolveTerminalAndStreetProgression deals on      *)
(* while no seat can act: it ends after one street or at the showdown.     *)
(***************************************************************************)
hasRoundCompleted(e) ==
    \A i \in listActionableSeats(e) : i \in e.t.acted /\ e.s[i].committed = e.t.currentBet

resetStreetCommitments(e) ==
    [e EXCEPT !.t = [e.t EXCEPT !.currentBet = 0, !.lastFullRaise = BigBlind, !.acted = {}],
              !.s = [i \in SeatNos |->
                        LET x == e.s[i]
                        IN  [x EXCEPT !.committed = 0,
                                      !.status = IF x.status = "active" /\ x.stack = 0
                                                 THEN "all_in" ELSE x.status]]]

\* The seat that is to act next.
waitsFor(e, i) == [e EXCEPT !.t = [e.t EXCEPT !.pending = i]]

nextStreet(board) == IF board = 0 THEN 3 ELSE board + 1

dealNextStreet(e) ==
    LET reset == resetStreetCommitments(e)
        dealt == [reset EXCEPT !.t = [reset.t EXCEPT !.board = nextStreet(e.t.board)]]
    IN  waitsFor(dealt, nextSeatIndex(listActionableSeats(e), e.t.dealer))

resolveTerminalAndStreetProgression(e) ==
    IF ~isSoloHoldemState(e) /\ Cardinality(listNonFoldedSeats(e)) <= 1 THEN settleByFold(e)
    ELSE IF ~hasRoundCompleted(e) THEN {e}
    ELSE IF e.t.board = 5 \/ listActionableSeats(e) = {} THEN settleShowdown(e)
    ELSE {dealNextStreet(e)}

(***************************************************************************)
(* The start of a hand.                                                    *)
(***************************************************************************)
resolveNextDealerSeatIndex(e) ==
    IF e.t.dealer = Nil THEN Min(listEligibleSeats(e))
    ELSE nextSeatIndex(listEligibleSeats(e), e.t.dealer)

resolveBlindSeats(e, dealer) ==
    LET in == listEligibleSeats(e)
        left == nextSeatIndex(in, dealer)
    IN  CASE Cardinality(in) = 1 -> [small |-> Nil, big |-> Nil]
          [] Cardinality(in) = 2 -> [small |-> dealer, big |-> left]
          [] OTHER -> [small |-> left, big |-> nextSeatIndex(in, left)]

startHoldemHand(e) ==
    LET in == listEligibleSeats(e)
        dealer == resolveNextDealerSeatIndex(e)
        blind == resolveBlindSeats(e, dealer)
        dealt(i) == [e.s[i] EXCEPT !.committed = 0, !.total = 0,
                                   !.status = IF i \in in THEN "active" ELSE "waiting"]
        posted == [i \in SeatNos |->
                    CASE i = blind.small -> postFromStack(dealt(i), SmallBlind)
                      [] i = blind.big -> postFromStack(dealt(i), BigBlind)
                      [] OTHER -> dealt(i)]
        opened == [e EXCEPT
                    !.s = posted,
                    !.t = [e.t EXCEPT !.status = "active",
                                      !.hands = e.t.hands + 1,
                                      !.board = 0,
                                      !.dealer = dealer,
                                      !.acted = {},
                                      !.currentBet = Max({posted[i].committed : i \in SeatNos}),
                                      !.lastFullRaise = BigBlind]]
        first == nextSeatIndex(listActionableSeats(opened),
                               IF blind.big = Nil THEN dealer ELSE blind.big)
    IN  resolveTerminalAndStreetProgression(waitsFor(opened, first))

(***************************************************************************)
(* A seat's turn.                                                          *)
(***************************************************************************)
toCall(e, i) == Max({0, e.t.currentBet - e.s[i].committed})
maximumRaiseTo(e, i) == e.s[i].committed + e.s[i].stack
minimumRaiseTo(e) == IF e.t.currentBet > 0 THEN e.t.currentBet + e.t.lastFullRaise ELSE BigBlind

\* What a seat may do, with the total a bet, a raise or an all-in brings it to.
resolveHoldemActionAvailability(e, i) ==
    LET passive == IF toCall(e, i) > 0 THEN {"fold", "call"} ELSE {"check"}
        opens == IF e.t.currentBet = 0 THEN "bet" ELSE "raise"
    IN  IF ~(e.t.status = "active" /\ e.t.pending = i /\ e.s[i].status = "active") THEN {}
        ELSE [action : passive, to : {0}]
             \cup IF isSoloHoldemState(e) \/ e.s[i].stack = 0 THEN {}
                  ELSE [action : {opens}, to : minimumRaiseTo(e)..maximumRaiseTo(e, i)]
                       \cup [action : {"all_in"}, to : {maximumRaiseTo(e, i)}]

applyPassiveSeatAction(e, i, move) ==
    LET x == e.s[i]
        after == CASE move.action = "fold" -> [x EXCEPT !.status = "folded"]
                   [] move.action = "check" -> x
                   [] move.action = "call" -> postFromStack(x, toCall(e, i))
        acted == IF move.action = "fold" THEN e.t.acted ELSE e.t.acted \cup {i}
    IN  [e EXCEPT !.s = [e.s EXCEPT ![i] = after], !.t = [e.t EXCEPT !.acted = acted]]

applyBetOrRaise(e, i, move) ==
    LET bet == e.t.currentBet
        size == move.to - bet
        full == IF bet = 0 THEN move.to >= BigBlind ELSE size >= e.t.lastFullRaise
        after == postFromStack(e.s[i], move.to - e.s[i].committed)
        bets == [e.t EXCEPT !.currentBet = Max({bet, move.to}),
                            !.lastFullRaise = IF full THEN size ELSE e.t.lastFullRaise,
                            !.acted = IF after.status = "active" THEN {i} ELSE {}]
    IN  [e EXCEPT !.s = [e.s EXCEPT ![i] = after], !.t = bets]

\* The hand after a seat's move; a move that is not available throws.
actOnHoldemSeat(e, i, move) ==
    LET moved == IF move.action \in {"fold", "check", "call"}
                 THEN applyPassiveSeatAction(e, i, move)
                 ELSE applyBetOrRaise(e, i, move)
        next == nextSeatIndex(listActionableSeats(moved), i)
    IN  IF move \notin resolveHoldemActionAvailability(e, i) THEN {}
        ELSE resolveTerminalAndStreetProgression(waitsFor(moved, next))

\* The move made for a seat whose time is up.
resolveHoldemTimeoutAction(e, i) ==
    [action |-> IF toCall(e, i) > 0 THEN "fold" ELSE "check", to |-> 0]

(***************************************************************************)
(* The rake of a settled hand, taken pot by pot from the lowest up.        *)
(***************************************************************************)
totalRakeAmount(e, policy) ==
    IF policy.noFlopNoDrop /\ e.t.board < 3 THEN 0
    ELSE Min({(amountOf(e.pots) * policy.rakeBps) \div 10000, policy.cap})

applyRakeToSettledState(e, policy) ==
    LET rake == totalRakeAmount(e, policy)
        lower(p) == amountOf({q \in e.pots : q.level < p.level /\ q.winners # {}})
        potRake == [p \in e.pots |-> Min({p.amount, Max({0, rake - lower(p)})})]
        share(p, i) == distributeAmountAcrossSeatIndexes(e, potRake[p], p.winners, i)
        seatRake == [i \in SeatNos |-> SumFunctionOnSet([p \in e.pots |-> share(p, i)], e.pots)]
    IN  [e EXCEPT !.s = [i \in SeatNos |->
                            [e.s[i] EXCEPT !.stack = e.s[i].stack - seatRake[i]]]]

canUserLeaveTable(e, i) == ~(e.t.status = "active" /\ isSeatInHand(e.s[i]))

clearTableAfterCashout(e) ==
    IF seated(e) # {} THEN e
    ELSE [e EXCEPT !.t = [e.t EXCEPT !.status = "waiting", !.board = 0, !.pending = Nil,
                                     !.currentBet = 0, !.lastFullRaise = 0, !.acted = {}]]
==============================================================================
