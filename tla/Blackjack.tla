----------------------------- MODULE Blackjack ------------------------------
(***************************************************************************)
(* The blackjack games of one user (blackjack/, and startBlackjackWithMode *)
(* of play-mode/wrappers.ts): dealing, the player's moves, splits, turn    *)
(* deadlines, settlement against the prize pool, and the play modes.       *)
(*                                                                         *)
(* A move, a timeout and the start of a game are each one transaction      *)
(* under the lock of the user's row.  A start request is a chain of such   *)
(* transactions: it reads the snapshot of its mode, releases held-back     *)
(* payouts, opens a session, starts the game, and settles the preference   *)
(* or cancels the session.  Anything can happen in between.                *)
(*                                                                         *)
(* Cards: a rank is a number from 1, the ace, to 13; a deal is one of      *)
(* Deals, and a card drawn later may be any rank of Ranks (the shuffled    *)
(* deck has each four times).                                              *)
(***************************************************************************)
EXTENDS PlayModes

CONSTANTS
    Ranks,              \* the ranks drawn
    Deals,              \* the first cards dealt, of the player and of the dealer
    Stakes,             \* the stakes asked for, within minStake and maxStake
    StartRequests,      \* requests that start games
    Wallet, Pool,       \* what the user and the prize pool begin with
    PoolReserve,        \* pool_system.min_reserve
    WinPct, PushPct, NaturalPct,    \* the payout multipliers, in percent
    DealerHitsSoft17, DoubleDownAllowed, SplitAcesAllowed, HitSplitAcesAllowed,
    ResplitAllowed, SplitTenValueCardsAllowed,
    MaxSplitHands,
    MaxGames,           \* bound on games
    MaxStarts,          \* bound on start requests
    MaxFaults           \* bound on failed statements and lost requests

ASSUME BlackjackAssumption ==
    /\ Ranks \subseteq 1..13 /\ Stakes \subseteq Nat \ {0}
    /\ Deals \subseteq (Ranks \X Ranks) \X (Ranks \X Ranks)
    /\ {Wallet, Pool, PoolReserve, WinPct, PushPct, NaturalPct} \subseteq Nat
    /\ WinPct <= NaturalPct
    /\ MaxSplitHands \in 2..8
    /\ {MaxGames, MaxStarts, MaxFaults} \subseteq Nat

VARIABLES
    games,              \* blackjack_games, in the order of their ids
    funds,              \* the withdrawable balance
    bank,               \* the prize pool
    starts,             \* where each start request is
    begun, faults       \* counters for the bounds

bookVars == <<preference, sessions, deferred, games, funds, bank>>
blackjackVars == <<bookVars, starts, begun, faults>>

NoStart == [pc |-> "idle", snapshot |-> createDefaultPlayModeSnapshot("standard"),
            settled |-> createDefaultPlayModeSnapshot("standard"), session |-> 0, stake |-> 0]

BlackjackInit ==
    /\ PlayModesInit
    /\ games = <<>>
    /\ funds = Wallet
    /\ bank = Pool
    /\ starts = [r \in StartRequests |-> NoStart]
    /\ begun = 0
    /\ faults = 0

\* The rows a transaction reads, and what its commit leaves.
books ==
    [preference |-> preference, sessions |-> sessions, deferred |-> deferred,
     games |-> games, funds |-> funds, bank |-> bank]

committed(b) ==
    /\ preference' = b.preference
    /\ sessions' = b.sessions
    /\ deferred' = b.deferred
    /\ games' = b.games
    /\ funds' = b.funds
    /\ bank' = b.bank

-----------------------------------------------------------------------------
(***************************************************************************)
(* Scores.  Aces count 11 and come down to 1, one after the other, while   *)
(* the total is over 21.                                                   *)
(***************************************************************************)
rankValue(rank) == IF rank = 1 THEN 11 ELSE IF rank > 10 THEN 10 ELSE rank

scoreOf(high, aces, count) ==
    LET enough == {n \in 0..aces : high - 10 * n <= 21}
        lowered == IF enough = {} THEN aces ELSE Min(enough)
        total == high - 10 * lowered
    IN  [total |-> total, soft |-> lowered < aces,
         blackjack |-> count = 2 /\ total = 21, bust |-> total > 21]

scoreBlackjackCards(cards) ==
    scoreOf(SumFunctionOnSet([i \in DOMAIN cards |-> rankValue(cards[i])], DOMAIN cards),
            Cardinality({i \in DOMAIN cards : cards[i] = 1}),
            Len(cards))

handTotal(hand) == scoreBlackjackCards(hand.cards).total

canSplitCards(cards) ==
    /\ Len(cards) = 2
    /\ IF cards[1] = cards[2]
       THEN cards[1] = 1 => SplitAcesAllowed
       ELSE SplitTenValueCardsAllowed /\ \A i \in 1..2 : rankValue(cards[i]) = 10

isRestrictedSplitAceHand(hand) == hand.splitFromAces /\ ~HitSplitAcesAllowed

canSplitHand(g, hand, balance) ==
    /\ handTotal(hand) < 21
    /\ canSplitCards(hand.cards)
    /\ balance >= hand.stake
    /\ Len(g.hands) < MaxSplitHands
    /\ Len(g.hands) > 1 => ResplitAllowed

getAvailableActions(g, balance) ==
    LET hand == g.hands[g.turn]
        free == ~isRestrictedSplitAceHand(hand)
    IN  IF g.status # "active" \/ g.turn = 0 THEN {}
        ELSE IF handTotal(hand) >= 21 THEN {}
        ELSE {"stand"}
            \cup (IF free THEN {"hit"} ELSE {})
            \cup (IF free /\ DoubleDownAllowed /\ Len(hand.cards) = 2 /\ balance >= hand.stake
                  THEN {"double"} ELSE {})
            \cup (IF canSplitHand(g, hand, balance) THEN {"split"} ELSE {})

-----------------------------------------------------------------------------
(***************************************************************************)
(* A hand is over when it is bust, counts 21, or comes from split aces     *)
(* that may neither be hit nor split again.                                *)
(***************************************************************************)
resolvable(g, hand, balance) ==
    \/ handTotal(hand) >= 21
    \/ isRestrictedSplitAceHand(hand) /\ ~canSplitHand(g, hand, balance)

endState(hand) == IF handTotal(hand) > 21 THEN "bust" ELSE "stood"

\* The turn goes to the first hand from number first on that is not over, 0 if none.
advanceResolvableHands(g, first, balance) ==
    LET open == {i \in first..Len(g.hands) : ~resolvable(g, g.hands[i], balance)}
        next == IF open = {} THEN 0 ELSE Min(open)
        over(i) == i >= first /\ (next = 0 \/ i < next)
        state(i) == CASE i = next -> "active"
                      [] over(i) -> endState(g.hands[i])
                      [] OTHER -> g.hands[i].state
    IN  [g EXCEPT
            !.turn = next,
            !.hands = [i \in DOMAIN g.hands |-> [g.hands[i] EXCEPT !.state = state(i)]]]

\* The hand on turn ends, whatever its cards.
advancePlayerHand(g, balance) ==
    advanceResolvableHands([g EXCEPT !.hands[g.turn].state = endState(g.hands[g.turn])],
                           g.turn + 1, balance)

shouldDealerHit(cards) ==
    LET score == scoreBlackjackCards(cards)
    IN  score.total < 17 \/ (score.total = 17 /\ score.soft /\ DealerHitsSoft17)

\* The hands the dealer may end with; the total is at least 17 after ten draws.
playDealerHand(cards) ==
    LET drawn[n \in 0..10] ==
            IF n = 0 THEN {cards}
            ELSE LET before == drawn[n - 1]
                     open == {c \in before : shouldDealerHit(c)}
                 IN  (before \ open) \cup {Append(c, r) : c \in open, r \in Ranks}
    IN  drawn[10]

dealerTotals ==
    [cards \in {d[2] : d \in Deals} |->
        {scoreBlackjackCards(c).total : c \in playDealerHand(cards)}]

(***************************************************************************)
(* A payout is the exact product of a stake in cents and a multiplier in   *)
(* percent, so it counts hundredths of a cent; sums of payouts are exact   *)
(* too.  What is stored, a payout and either balance after it, is rounded  *)
(* to cents by itself, halves away from zero.                              *)
(***************************************************************************)
payout(amount, pct) == amount * pct

toMoneyString(x) == IF x >= 0 THEN (x + 50) \div 100 ELSE -((50 - x) \div 100)

handOutcome(hand, dealer) ==
    CASE handTotal(hand) > 21 -> "bust"
      [] dealer > 21 \/ handTotal(hand) > dealer -> "win"
      [] handTotal(hand) < dealer -> "lose"
      [] OTHER -> "push"

resolveRegularHandPayoutAmount(hand, dealer) ==
    CASE handOutcome(hand, dealer) = "win" -> payout(hand.stake, WinPct)
      [] handOutcome(hand, dealer) = "push" -> payout(hand.stake, PushPct)
      [] OTHER -> 0

resolveAggregateSettledStatus(g, dealer, paid) ==
    LET outcomes == {handOutcome(g.hands[i], dealer) : i \in DOMAIN g.hands}
    IN  IF Len(g.hands) = 1
        THEN CASE outcomes = {"bust"} -> "player_bust"
               [] dealer > 21 -> "dealer_bust"
               [] outcomes = {"win"} -> "player_win"
               [] outcomes = {"lose"} -> "dealer_win"
               [] OTHER -> "push"
        ELSE CASE outcomes = {"bust"} -> "player_bust"
               [] dealer > 21 /\ outcomes = {"win"} -> "dealer_bust"
               [] paid = 0 -> "dealer_win"
               [] paid = 100 * g.total -> "push"
               [] paid > 100 * g.total -> "player_win"
               [] OTHER -> "dealer_win"

resolveBlackjackPlayModeOutcome(status) ==
    CASE status \in {"player_blackjack", "dealer_bust", "player_win"} -> "win"
      [] status = "push" -> "push"
      [] OTHER -> "lose"

(***************************************************************************)
(* Settlement of game k, which has become g: the payout, the profit the    *)
(* mode holds back, the session, and for the legs of a dual bet the parent *)
(* session once no leg is left.  The cards of a settled game are dropped.  *)
(***************************************************************************)
\* The parent is settled with its first leg.
finalizesWithFirstLeg(b, parent) ==
    LET snapshot == resolveSettledPlayMode(b.sessions[parent].snapshot)
    IN  saveUserPlayModeState(settlePlayModeSession(b, parent, snapshot), snapshot)

maybeFinalizeGroupedBlackjackPlayMode(b, parent) ==
    LET children == {i \in DOMAIN b.sessions : b.sessions[i].parent = parent}
        snapshot == resolveSettledPlayMode(b.sessions[parent].snapshot)
    IN  IF \E i \in children : b.sessions[i].status = "active"
        THEN b
        ELSE saveUserPlayModeState(settlePlayModeSession(b, parent, snapshot), snapshot)

persistSettledBlackjackPlayMode(b, k, session) ==
    LET g == b.games[k]
        profit == IF g.payout > g.total THEN g.payout - g.total ELSE 0
        after == applySettledPlayModePayoutPolicy(b, resolveSettledPlayMode(g.mode),
                    resolveBlackjackPlayModeOutcome(g.status), profit)
        settled == settlePlayModeSession(after.books, session, after.snapshot)
        parent == b.sessions[session].parent
    IN  IF session = 0 THEN saveUserPlayModeState(after.books, after.snapshot)
        ELSE IF parent = 0 THEN saveUserPlayModeState(settled, after.snapshot)
        ELSE maybeFinalizeGroupedBlackjackPlayMode(settled, parent)

applyPayoutCredit(b, k, g, status, paid) ==
    [b EXCEPT !.games[k] = [g EXCEPT !.status = status, !.payout = toMoneyString(paid),
                                     !.turn = 0, !.clock = "none", !.hands = <<>>,
                                     !.dealer = <<>>],
              !.funds = toMoneyString(100 * @ + paid),
              !.bank = toMoneyString(100 * @ - paid)]

settleGameByStatus(b, k, status, session) ==
    LET g == b.games[k]
        paid == CASE status = "player_blackjack" -> payout(g.stake, NaturalPct)
                  [] status = "push" -> payout(g.total, PushPct)
                  [] OTHER -> 0
    IN  persistSettledBlackjackPlayMode(applyPayoutCredit(b, k, g, status, paid), k, session)

settleResolvedHands(b, k, g) ==
    LET paid(dealer) == SumFunctionOnSet(
            [i \in DOMAIN g.hands |-> resolveRegularHandPayoutAmount(g.hands[i], dealer)],
            DOMAIN g.hands)
    IN  {persistSettledBlackjackPlayMode(
            applyPayoutCredit(b, k, g, resolveAggregateSettledStatus(g, dealer, paid(dealer)),
                              paid(dealer)),
            k, loadActivePlayModeSession(b, k)) : dealer \in dealerTotals[g.dealer]}

\* A game goes on with a fresh clock, or is settled when no hand is left.
finalizeBlackjackProgress(b, k, g) ==
    IF g.turn = 0
    THEN settleResolvedHands(b, k, g)
    ELSE {[b EXCEPT !.games[k] = [g EXCEPT !.clock = "running"]]}

-----------------------------------------------------------------------------
(***************************************************************************)
(* Money for a stake: the pool must keep its reserve whatever this game    *)
(* may still win.                                                          *)
(***************************************************************************)
ensurePoolCanCover(b, stake, maximumPayout) ==
    100 * (b.bank + stake - PoolReserve) >= maximumPayout

\* A check that looks at the raised stake only.
coversRaiseOnly(g, raise) == payout(raise, WinPct)

maximumRaisedPayout(g, raise) == payout(g.total + raise, WinPct)

applyStakeDebit(b, stake) == [b EXCEPT !.funds = @ - stake, !.bank = @ + stake]

activeGames(b) == {k \in DOMAIN b.games : b.games[k].status = "active"}

(***************************************************************************)
(* One game is dealt for a session.  A group is the parent session of a    *)
(* dual bet, 0 without one.  The legs of a group have the same created_at; *)
(* the row read back is the one inserted last, as a backward scan of       *)
(* blackjack_games_user_created_idx returns it.                            *)
(***************************************************************************)
canStart(b, stake, group) ==
    /\ \A k \in activeGames(b) : group # 0 /\ b.games[k].group = group
    /\ b.funds >= stake
    /\ ensurePoolCanCover(b, stake, payout(stake, NaturalPct))

resolveInitialOutcome(player, dealer) ==
    CASE player.blackjack /\ dealer.blackjack -> "push"
      [] player.blackjack -> "player_blackjack"
      [] dealer.blackjack -> "dealer_blackjack"
      [] OTHER -> "active"

dealt(b, session, snapshot, stake, group, player, dealer) ==
    LET k == Len(b.games) + 1
        g == [status |-> "active", stake |-> stake, total |-> stake, payout |-> 0,
              hands |-> <<[cards |-> player, stake |-> stake, state |-> "active",
                           splitFromAces |-> FALSE]>>,
              turn |-> 1, dealer |-> dealer, clock |-> "running", group |-> group,
              mode |-> snapshot]
        opened == applyStakeDebit([b EXCEPT !.games = Append(@, g), !.sessions[session].game = k], stake)
        status == resolveInitialOutcome(scoreBlackjackCards(player), scoreBlackjackCards(dealer))
    IN  IF status = "active" THEN opened ELSE settleGameByStatus(opened, k, status, session)

startResolvedBlackjackInTransaction(b, session, snapshot, stake, group) ==
    IF canStart(b, stake, group)
    THEN {dealt(b, session, snapshot, stake, group, d[1], d[2]) : d \in Deals}
    ELSE {}

\* The parent session, its two children and their games.
openDualBet(b, snapshot, stake) ==
    LET parent == Len(b.sessions) + 1
        opened == startPlayModeSession(startPlayModeSession(startPlayModeSession(
                    b, snapshot, 0), snapshot, parent), snapshot, parent)
        leg(c, n) == startResolvedBlackjackInTransaction(c, parent + n, snapshot, stake, parent)
    IN  UNION {leg(c, 2) : c \in leg(opened, 1)}

-----------------------------------------------------------------------------
(***************************************************************************)
(* A start request.                                                        *)
(***************************************************************************)
at(r, pc) == starts[r].pc = pc
goes(r, s) == starts' = [starts EXCEPT ![r] = s] /\ UNCHANGED <<begun, faults>>
ends(r) == goes(r, NoStart)

\* preparePlayModeExecution; without a mode the stored one is played.
startBlackjackWithMode(r, mode, stake) ==
    LET snapshot == loadPlayModeSnapshotForMode(books, mode)
    IN  /\ at(r, "idle")
        /\ begun < MaxStarts
        /\ committed(saveUserPlayModeState(books, snapshot))
        /\ starts' = [starts EXCEPT ![r] =
                        [NoStart EXCEPT !.pc = "refresh", !.snapshot = snapshot,
                                        !.stake = stake]]
        /\ begun' = begun + 1
        /\ UNCHANGED faults

refreshSnapshotAfterPendingRelease(r) ==
    LET s == starts[r].snapshot
        released == s.type = "deferred_double" /\ s.pending > 0 /\ deferred[s.type] > 0
        cleared == [s EXCEPT !.pending = 0]
        pc == IF s.type = "dual_bet" THEN "dual" ELSE "session"
    IN  /\ at(r, "refresh")
        /\ IF released
           THEN /\ committed(saveUserPlayModeState(
                        releasePendingDeferredPayoutsForMode(books, s.type), cleared))
                /\ goes(r, [starts[r] EXCEPT !.pc = pc, !.snapshot = cleared])
           ELSE goes(r, [starts[r] EXCEPT !.pc = pc]) /\ UNCHANGED bookVars

startDualBet(r) ==
    /\ at(r, "dual")
    /\ Len(games) + 2 <= MaxGames
    /\ LET results == openDualBet(books, starts[r].snapshot, starts[r].stake)
       IN  IF results = {} THEN UNCHANGED bookVars ELSE \E b \in results : committed(b)
    /\ ends(r)

opensSession(r) ==
    /\ at(r, "session")
    /\ committed(startPlayModeSession(books, starts[r].snapshot, 0))
    /\ goes(r, [starts[r] EXCEPT !.pc = "start", !.session = Len(sessions) + 1])

\* A game settled on the deal goes on to persistSettledPreference.
startResolvedBlackjack(r) ==
    LET s == starts[r]
        results == startResolvedBlackjackInTransaction(books, s.session, s.snapshot, s.stake, 0)
    IN  /\ at(r, "start")
        /\ Len(games) < MaxGames
        /\ \/ results = {} /\ UNCHANGED bookVars /\ goes(r, [s EXCEPT !.pc = "cancel"])
           \/ \E b \in results :
                /\ committed(b)
                /\ goes(r, IF b.games[Len(b.games)].status = "active" THEN NoStart
                           ELSE [s EXCEPT !.pc = "prefer", !.settled = b.preference])

persistSettledPreference(r) ==
    /\ at(r, "prefer")
    /\ committed(saveUserPlayModeState(books, starts[r].settled))
    /\ ends(r)

\* The session gets the snapshot from before the game.
cancelsSession(r) ==
    /\ at(r, "cancel")
    /\ committed(cancelPlayModeSession(books, starts[r].session, starts[r].snapshot))
    /\ ends(r)

\* A statement inside the request's try block fails, or the request is lost.
statementFails(r) ==
    /\ starts[r].pc \in {"start", "prefer"}
    /\ faults < MaxFaults
    /\ starts' = [starts EXCEPT ![r].pc = "cancel"]
    /\ faults' = faults + 1
    /\ UNCHANGED <<bookVars, begun>>

requestLost(r) ==
    /\ ~at(r, "idle")
    /\ faults < MaxFaults
    /\ starts' = [starts EXCEPT ![r] = NoStart]
    /\ faults' = faults + 1
    /\ UNCHANGED <<bookVars, begun>>

setUserPlayModePreference(mode) ==
    /\ mode # preference.type
    /\ committed(saveUserPlayModeState(books, loadPlayModeSnapshotForMode(books, mode)))
    /\ UNCHANGED <<starts, begun, faults>>

-----------------------------------------------------------------------------
(***************************************************************************)
(* The player's moves and the turn's clock.                                *)
(***************************************************************************)
stood(b, k) == finalizeBlackjackProgress(b, k, advancePlayerHand(b.games[k], b.funds))

hit(b, k) ==
    LET g(card) == [b.games[k] EXCEPT !.hands[b.games[k].turn].cards = Append(@, card)]
        drawn == {g(card) : card \in Ranks}
    IN  UNION {finalizeBlackjackProgress(b, k, advanceResolvableHands(x, x.turn, b.funds)) :
                    x \in drawn}

\* The stake on the hand is raised by as much again.
raised(b, k) ==
    LET stake == b.games[k].hands[b.games[k].turn].stake
    IN  applyStakeDebit([b EXCEPT !.games[k].total = @ + stake], stake)

coveredRaise(b, k) ==
    LET g == b.games[k]
        stake == g.hands[g.turn].stake
    IN  ensurePoolCanCover(b, stake, maximumRaisedPayout(g, stake))

doubled(b, k) ==
    LET c == raised(b, k)
        i == c.games[k].turn
        g(card) == [c.games[k] EXCEPT !.hands[i].stake = 2 * @, !.hands[i].cards = Append(@, card)]
    IN  UNION {finalizeBlackjackProgress(c, k, advancePlayerHand(g(card), c.funds)) : card \in Ranks}

\* The second hand follows the first and waits.
split(b, k) ==
    LET c == raised(b, k)
        i == c.games[k].turn
        hand == c.games[k].hands[i]
        half(n, card) == [hand EXCEPT !.cards = <<hand.cards[n], card>>,
                                      !.state = IF n = 1 THEN "active" ELSE "waiting",
                                      !.splitFromAces = hand.cards = <<1, 1>>]
        g(x) == [c.games[k] EXCEPT !.hands =
                    SubSeq(@, 1, i - 1) \o <<half(1, x[1]), half(2, x[2])>>
                        \o SubSeq(@, i + 1, Len(@))]
    IN  UNION {finalizeBlackjackProgress(c, k, advanceResolvableHands(g(x), i, c.funds)) :
                    x \in Ranks \X Ranks}

Actions == {"hit", "stand", "double", "split"}

\* What a move makes of the rows: nothing when it is refused.
moved(b, k, action) ==
    CASE action = "stand" -> stood(b, k)
      [] action = "hit" -> hit(b, k)
      [] action = "double" -> IF coveredRaise(b, k) THEN doubled(b, k) ELSE {}
      [] action = "split" -> IF coveredRaise(b, k) THEN split(b, k) ELSE {}

\* A move that comes after the deadline stands instead.
actOnBlackjack(k, action) ==
    /\ k \in activeGames(books)
    /\ IF games[k].clock = "expired"
       THEN \E b \in stood(books, k) : committed(b)
       ELSE /\ action \in getAvailableActions(games[k], funds)
            /\ \E b \in moved(books, k, action) : committed(b)
    /\ UNCHANGED <<starts, begun, faults>>

expiredGames == {k \in activeGames(books) : games[k].clock = "expired"}

\* The worker, and getBlackjackOverview.
processExpiredBlackjackTurnForUser ==
    /\ expiredGames # {}
    /\ \E b \in stood(books, Min(expiredGames)) : committed(b)
    /\ UNCHANGED <<starts, begun, faults>>

turnDeadlinePasses(k) ==
    /\ k \in activeGames(books)
    /\ games[k].clock = "running"
    /\ games' = [games EXCEPT ![k].clock = "expired"]
    /\ UNCHANGED <<preference, sessions, deferred, funds, bank, starts, begun, faults>>

BlackjackNext ==
    \/ \E r \in StartRequests :
        \/ \E mode \in Modes, stake \in Stakes : startBlackjackWithMode(r, mode, stake)
        \/ refreshSnapshotAfterPendingRelease(r)
        \/ startDualBet(r)
        \/ opensSession(r)
        \/ startResolvedBlackjack(r)
        \/ persistSettledPreference(r)
        \/ cancelsSession(r)
        \/ statementFails(r)
        \/ requestLost(r)
    \/ \E mode \in Modes : setUserPlayModePreference(mode)
    \/ \E k \in DOMAIN games, action \in Actions : actOnBlackjack(k, action)
    \/ processExpiredBlackjackTurnForUser
    \/ \E k \in DOMAIN games : turnDeadlinePasses(k)

BlackjackSpec == BlackjackInit /\ [][BlackjackNext]_blackjackVars

(***************************************************************************)
(* Types of the rows, no balance below zero; an active game waits for a    *)
(* hand that may still move, and its deadline was set.                     *)
(***************************************************************************)
BlackjackTypeOK ==
    /\ PlayModesTypeOK
    /\ funds \in Nat /\ bank \in Int
    /\ \A k \in DOMAIN games :
        /\ games[k].status \in {"active", "push", "player_blackjack", "dealer_blackjack",
                                "player_bust", "dealer_bust", "player_win", "dealer_win"}
        /\ games[k].status = "active" =>
            /\ games[k].turn \in DOMAIN games[k].hands
            /\ handTotal(games[k].hands[games[k].turn]) < 21
            /\ games[k].clock # "none"
            /\ Len(games[k].hands) <= MaxSplitHands
            /\ \A i \in DOMAIN games[k].hands :
                (games[k].hands[i].state = "active") = (i = games[k].turn)

stakesOf(hands) == SumFunctionOnSet([i \in DOMAIN hands |-> hands[i].stake], DOMAIN hands)
heldBack == SumFunctionOnSet(deferred, Modes)
wagered == SumFunctionOnSet([k \in DOMAIN games |-> games[k].total], DOMAIN games)
paidOut == SumFunctionOnSet([k \in DOMAIN games |-> games[k].payout], DOMAIN games)

paidGames == {k \in DOMAIN games : games[k].payout > 0}

(***************************************************************************)
(* The wallet has what the games won and lost, less what a mode holds      *)
(* back, to the cent.  The prize pool has the rest, except that wallet and *)
(* pool are rounded apart (applyPayoutCredit, applyHouseBalanceDelta): a   *)
(* payout that ends on half a cent leaves one cent too much between them,  *)
(* and nothing leaves more, or less.  The stakes of the hands of a game    *)
(* add up to what was taken for it, however often it was doubled and       *)
(* split; and while only the standard mode is played the pool keeps its    *)
(* reserve, whatever the cards (ensurePoolCanCover).  That check looks at  *)
(* the payouts of wins only, and nothing keeps a configuration from paying *)
(* more for a push.                                                        *)
(***************************************************************************)
BlackjackMoneyKept ==
    /\ funds = Wallet - wagered + paidOut - heldBack
    /\ funds + bank - (Wallet + Pool) \in 0..Cardinality(paidGames)
    /\ \A k \in activeGames(books) : games[k].total = stakesOf(games[k].hands)
    /\ (/\ PushPct <= WinPct /\ PoolReserve <= Pool
        /\ \A k \in DOMAIN games : games[k].mode.type = "standard") => bank >= PoolReserve

(***************************************************************************)
(* Requests that fail or are lost between their transactions do not cut a  *)
(* game from its session: an active game has one session that refers to    *)
(* it, active, and the parent of a dual bet is settled when no leg is      *)
(* active any more.                                                        *)
(***************************************************************************)
SessionFollowsGame ==
    /\ \A k \in activeGames(books) :
        LET own == {i \in DOMAIN sessions : sessions[i].game = k}
        IN  /\ Cardinality(own) = 1
            /\ \A i \in own : sessions[i].status = "active" /\ sessions[i].mode = games[k].mode.type
    /\ \A p \in {sessions[i].parent : i \in DOMAIN sessions} \ {0} :
        (sessions[p].status = "active") =
            (\E i \in DOMAIN sessions : sessions[i].parent = p /\ sessions[i].status = "active")

(***************************************************************************)
(* Every game ends although the player stops moving: the deadline passes   *)
(* and the worker stands for the hand (processExpiredBlackjackTurnForUser).*)
(* No other game starts meanwhile, so again and again none is open.        *)
(***************************************************************************)
GamesEnd == []<>(activeGames(books) = {})
=============================================================================
