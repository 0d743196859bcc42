------------------------------- MODULE MCGames -------------------------------
(***************************************************************************)
(* Hold'em and blackjack for TLC.  Each initial state picks one round, so  *)
(* the state spaces add up.                                                *)
(*                                                                         *)
(* Hold'em players keep to the seat of their number, and one bot at most   *)
(* plays.  "cash": one hand of three players with stacks of 3 and 5, and   *)
(* "tournament": two hands, while everybody is present.  "presence": two   *)
(* players who come and go during a hand.  "casual": two players who may   *)
(* sit out, the first with more chips than the second, and a bot.          *)
(*                                                                         *)
(* Blackjack: "rules" is one game in the standard mode with every move and *)
(* hands of up to three cards.  The other rounds play the mode of their    *)
(* name: the player has 12 on the deal or a natural, and stands.           *)
(***************************************************************************)
EXTENDS Games

CONSTANT Rounds     \* which rounds the run covers

VARIABLE round

mcVars == <<holdemVars, blackjackVars, round>>

CashRake == [rakeBps |-> 2500, cap |-> 2, noFlopNoDrop |-> TRUE]

tableOf ==
    [cash |-> "cash", presence |-> "cash", casual |-> "casual", tournament |-> "tournament"]

HoldemRounds == DOMAIN tableOf

withinHoldemRound ==
    LET small == round \in {"presence", "casual"}
        buyIns(i) == CASE round = "presence" \/ (round = "casual" /\ i = 1) -> {MinBuyIn}
                       [] round = "casual" /\ i = 0 -> {MaxBuyIn}
                       [] OTHER -> {MinBuyIn, MaxBuyIn}
        buysIn(i) == seats[i].user = NoPlayer /\ seats'[i].user # NoPlayer
    IN  /\ table'.kind = tableOf[round]
        /\ round # "tournament" => table'.hands <= 1
        /\ \A i \in SeatNos :
            /\ seats'[i].user \in {NoPlayer, i + 1} \cup (IF round = "casual" THEN {Bot} ELSE {})
            /\ round # "presence" => seats'[i].presence \in {"fresh", "gone"}
            /\ ~small => seats'[i].sitOut = "no"
            /\ buysIn(i) => seats'[i].stack \in buyIns(i)
        /\ Cardinality({i \in SeatNos : seats'[i].user = Bot}) <= 1
        /\ small => purse'[3].locked = 0

-----------------------------------------------------------------------------
Shoe == {<<6, 6>>, <<1, 1>>, <<1, 10>>} \X {<<1, 6>>, <<1, 10>>}

bounds ==
    [rules |-> [games |-> 1, starts |-> 1, faults |-> 0],
     deferred_double |-> [games |-> 2, starts |-> 3, faults |-> 1],
     snowball |-> [games |-> 2, starts |-> 2, faults |-> 0],
     dual_bet |-> [games |-> 4, starts |-> 2, faults |-> 0]]

\* Requests are alike, so the second starts only beside the first.
withinBlackjackRound ==
    LET mode == IF round = "rules" THEN "standard" ELSE round
        goesOn == {k \in DOMAIN games' : games'[k].status = "active"}
    IN  /\ Len(games') <= bounds[round].games
        /\ begun' <= bounds[round].starts
        /\ faults' <= bounds[round].faults
        /\ preference'.type \in {"standard", mode}
        /\ \A r \in StartRequests : starts'[r].pc # "idle" => starts'[r].snapshot.type = mode
        /\ at(2, "idle") /\ starts'[2].pc # "idle" => ~at(1, "idle")
        /\ \A k \in goesOn : \A i \in DOMAIN games'[k].hands : Len(games'[k].hands[i].cards) <= 3
        /\ round # "rules" =>
            /\ \A k \in DOMAIN games' : games'[k].total = games'[k].stake
            /\ \A k \in goesOn : games'[k].hands[1].cards = <<6, 6>>

-----------------------------------------------------------------------------
(***************************************************************************)
(* Weak fairness of the worker's pass over the table and of the turn's     *)
(* clock, written out: either the action is disabled again and again, or   *)
(* it is taken again and again.  Players and bots need not act.            *)
(***************************************************************************)
turnIsOver ==
    /\ isHoldemTurnExpired(loadTableState)
    /\ transition(loadTableState, processExpiredHoldemTurn(loadTableState)) # {}

clockRuns == \E i \in SeatNos : seats[i].clock = "running"

turnDeadlineRuns == \E k \in activeGames(books) : games[k].clock = "running"

MCFairness ==
    /\ []<>~turnIsOver \/ []<><<processExpiredHoldemTurnForTable>>_holdemVars
    /\ []<>~clockRuns \/ []<><<\E i \in SeatNos : turnTimeRunsOut(i)>>_holdemVars
    /\ []<>(expiredGames = {}) \/ []<><<processExpiredBlackjackTurnForUser>>_blackjackVars
    /\ []<>~turnDeadlineRuns
       \/ []<><<\E k \in DOMAIN games : turnDeadlinePasses(k)>>_blackjackVars

MCInit == HoldemInit /\ BlackjackInit /\ round \in Rounds

MCNext ==
    /\ UNCHANGED round
    /\ \/ /\ round \in HoldemRounds
          /\ HoldemNext /\ withinHoldemRound
          /\ UNCHANGED blackjackVars
       \/ /\ round \notin HoldemRounds
          /\ BlackjackNext /\ withinBlackjackRound
          /\ UNCHANGED holdemVars

MCSpec == MCInit /\ [][MCNext]_mcVars /\ MCFairness

(***************************************************************************)
(* Hands and games end although players stop answering: the timeout        *)
(* workers (runHoldemTimeoutCycle, runBlackjackTimeoutCycle) act for them. *)
(***************************************************************************)
PlayEnds == HandsEnd /\ GamesEnd
=============================================================================
