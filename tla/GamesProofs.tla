----------------------------- MODULE GamesProofs -----------------------------
(***************************************************************************)
(* Theorems about Games for any stakes, decks, tables and numbers of       *)
(* players and requests: money is kept, and a session follows its game.    *)
(***************************************************************************)
EXTENDS Games, HoldemProofs, SequenceTheorems

-----------------------------------------------------------------------------
(* Lists *)

LEMMA ListFacts ==
    ASSUME NEW S, NEW s \in Seq(S)
    PROVE  /\ Len(s) \in Nat /\ DOMAIN s = 1..Len(s)
           /\ \A i \in DOMAIN s : i \in Nat /\ i > 0 /\ s[i] \in S
           /\ IsFiniteSet(DOMAIN s)
<1>1. Len(s) \in Nat /\ DOMAIN s = 1..Len(s)
  OBVIOUS
<1>2. IsFiniteSet(1..Len(s))
  BY <1>1, FS_Interval
<1> QED
  BY <1>1, <1>2

\* A function on the positions of a list is a list.
LEMMA ListOf ==
    ASSUME NEW S, NEW n \in Nat, NEW f, f = [i \in 1..n |-> f[i]], \A i \in 1..n : f[i] \in S
    PROVE  f \in Seq(S) /\ Len(f) = n /\ DOMAIN f = 1..n
<1>1. f \in [1..n -> S]
  OBVIOUS
<1>2. f \in Seq(S)
  BY <1>1
<1> QED
  BY <1>1, <1>2

LEMMA ListUpdate ==
    ASSUME NEW S, NEW s \in Seq(S), NEW i \in DOMAIN s, NEW x \in S
    PROVE  LET t == [s EXCEPT ![i] = x]
           IN  /\ t \in Seq(S) /\ Len(t) = Len(s) /\ DOMAIN t = DOMAIN s /\ t[i] = x
               /\ \A j \in DOMAIN s \ {i} : t[j] = s[j]
OBVIOUS

LEMMA ListAppend ==
    ASSUME NEW S, NEW s \in Seq(S), NEW x \in S
    PROVE  LET t == Append(s, x)
           IN  /\ t \in Seq(S) /\ Len(t) = Len(s) + 1
               /\ DOMAIN t = DOMAIN s \cup {Len(s) + 1}
               /\ t[Len(s) + 1] = x /\ Len(s) + 1 \notin DOMAIN s
               /\ \A j \in DOMAIN s : t[j] = s[j]
<1> DEFINE t == Append(s, x)
<1>1. t \in Seq(S) /\ Len(t) = Len(s) + 1 /\ Len(s) \in Nat
  OBVIOUS
<1>2. DOMAIN s = 1..Len(s) /\ DOMAIN t = 1..(Len(s) + 1)
  BY <1>1
<1>3. t[Len(s) + 1] = x /\ \A j \in DOMAIN s : t[j] = s[j]
  BY <1>2
<1> QED
  BY <1>1, <1>2, <1>3

-----------------------------------------------------------------------------
(***************************************************************************)
(* The rows of a user's games, as a transaction leaves them: no balance    *)
(* below zero, what was won and lost accounted for, sessions that follow   *)
(* their games, and a pool that can pay what is still to be won.           *)
(***************************************************************************)
Snapshots == [type : Modes, pending : Nat]

SessionRows == [mode : Modes, status : {"active", "settled", "cancelled"},
                parent : Nat, game : Nat, snapshot : Snapshots]

Hands == [cards : Seq(Ranks), stake : Nat, state : {"active", "waiting", "stood", "bust"},
          splitFromAces : BOOLEAN]

GameStatuses == {"active", "push", "player_blackjack", "dealer_blackjack",
                 "player_bust", "dealer_bust", "player_win", "dealer_win"}

GameRows == [status : GameStatuses, stake : Nat, total : Nat, payout : Nat,
             hands : Seq(Hands), turn : Nat, dealer : Seq(Ranks),
             clock : {"none", "running", "expired"}, group : Nat, mode : Snapshots]

Rows == [preference : Snapshots, sessions : Seq(SessionRows), deferred : [Modes -> Nat],
         games : Seq(GameRows), funds : Nat, bank : Int]

active(rows) == {k \in DOMAIN rows : rows[k].status = "active"}

heldOf(held) == SumFunctionOnSet(held, Modes)
totalsOf(rows) == SumFunctionOnSet([k \in DOMAIN rows |-> rows[k].total], DOMAIN rows)
payoutsOf(rows) == SumFunctionOnSet([k \in DOMAIN rows |-> rows[k].payout], DOMAIN rows)

paidIn(rows) == {k \in DOMAIN rows : rows[k].payout > 0}

\* Each payout leaves at most a cent between wallet and pool.
Balanced(b) ==
    /\ b.funds + heldOf(b.deferred) = Wallet - totalsOf(b.games) + payoutsOf(b.games)
    /\ b.funds + b.bank - (Wallet + Pool) \in 0..Cardinality(paidIn(b.games))

\* A session refers to a game and a parent that exist, and no two to the same game.
References(rows, played) ==
    /\ \A i \in DOMAIN rows :
        /\ rows[i].snapshot.type = rows[i].mode
        /\ rows[i].game \in 0..Len(played)
        /\ rows[i].parent \in 0..(i - 1)
        /\ rows[i].parent # 0 =>
            rows[rows[i].parent].parent = 0 /\ rows[rows[i].parent].game = 0
    /\ \A i, j \in DOMAIN rows : i # j /\ rows[i].game = rows[j].game => rows[i].game = 0

follows(s, k, g) == s.game = k /\ s.status = "active" /\ s.mode = g.mode.type

Followed(rows, played) ==
    \A k \in active(played) : \E i \in DOMAIN rows : follows(rows[i], k, played[k])

isParent(rows, p) == \E i \in DOMAIN rows : rows[i].parent = p

Families(rows) ==
    \A p \in DOMAIN rows :
        isParent(rows, p) =>
            (rows[p].status = "active" <=>
                \E i \in DOMAIN rows : rows[i].parent = p /\ rows[i].status = "active")

Linked(rows, played) == References(rows, played) /\ Followed(rows, played) /\ Families(rows)

onlyStandard(played) == \A k \in DOMAIN played : played[k].mode.type = "standard"

\* The condition under which the pool keeps its reserve.
Prudent(played) == PushPct <= WinPct /\ PoolReserve <= Pool /\ onlyStandard(played)

Reserved(played, left) ==
    Prudent(played) =>
        /\ left >= PoolReserve
        /\ \A j, k \in active(played) : j = k
        /\ \A k \in active(played) :
            100 * (left - PoolReserve) >= payout(played[k].total, WinPct)

Unpaid(played) == \A k \in active(played) : played[k].payout = 0

NothingHeld(played, held) == onlyStandard(played) => \A m \in Modes : held[m] = 0

SoundGames(b) ==
    /\ b \in Rows
    /\ Balanced(b)
    /\ Linked(b.sessions, b.games)
    /\ Unpaid(b.games)
    /\ NothingHeld(b.games, b.deferred)
    /\ Reserved(b.games, b.bank)

\* The turn is at the one hand that may still move, and the hands' stakes were paid.
waitsForHand(g) ==
    /\ g.turn \in DOMAIN g.hands
    /\ handTotal(g.hands[g.turn]) < 21
    /\ \A i \in DOMAIN g.hands : g.hands[i].state = "active" <=> i = g.turn

InPlay(g) ==
    /\ waitsForHand(g)
    /\ g.clock # "none"
    /\ Len(g.hands) <= MaxSplitHands
    /\ g.total = stakesOf(g.hands)

HandsOK(played) == \A k \in active(played) : InPlay(played[k])

(***************************************************************************)
(* A start request knows the session it opened: nobody else settles it,    *)
(* and it has no active game when the request cancels it.                  *)
(***************************************************************************)
RequestStates ==
    [pc : {"idle", "refresh", "dual", "session", "start", "prefer", "cancel"},
     snapshot : Snapshots, settled : Snapshots, session : Nat, stake : Nat]

OwnsSession(s, rows) ==
    LET i == s.session
    IN  /\ i \in DOMAIN rows
        /\ rows[i].mode = s.snapshot.type
        /\ rows[i].parent = 0
        /\ ~isParent(rows, i)

RequestOK(s, rows, played) ==
    /\ s.pc = "dual" => s.snapshot.type = "dual_bet"
    /\ s.pc \in {"start", "prefer", "cancel"} => OwnsSession(s, rows)
    /\ s.pc = "start" => rows[s.session].game = 0 /\ rows[s.session].status = "active"
    /\ s.pc \in {"prefer", "cancel"} => rows[s.session].game \notin active(played)

holdsSession(r) == starts[r].pc \in {"start", "prefer", "cancel"}

RequestsOK ==
    /\ starts \in [StartRequests -> RequestStates]
    /\ \A r \in StartRequests : RequestOK(starts[r], sessions, games)
    /\ \A q, r \in StartRequests :
        q # r /\ holdsSession(q) /\ holdsSession(r) => starts[q].session # starts[r].session

GamesInv == SoundGames(books) /\ HandsOK(games) /\ RequestsOK

-----------------------------------------------------------------------------
(* Scores and payouts *)

LEMMA RankValues ==
    ASSUME NEW rank \in Ranks
    PROVE  rankValue(rank) \in 1..11 /\ (rankValue(rank) = 11 => rank = 1)
BY BlackjackAssumption DEF rankValue

LEMMA ScoreIsInt ==
    ASSUME NEW cards \in Seq(Ranks)
    PROVE  scoreBlackjackCards(cards).total \in Int
<1> DEFINE value == [i \in DOMAIN cards |-> rankValue(cards[i])]
           high == SumFunctionOnSet(value, DOMAIN cards)
           aces == Cardinality({i \in DOMAIN cards : cards[i] = 1})
           enough == {n \in 0..aces : high - 10 * n <= 21}
           lowered == IF enough = {} THEN aces ELSE Min(enough)
<1>1. IsFiniteSet(DOMAIN cards)
  BY ListFacts
<1>2. high \in Int
  <2>1. \A i \in DOMAIN cards : value[i] \in Int
    BY ListFacts, RankValues
  <2> QED
    BY <1>1, <2>1, SumIsInt
<1>3. aces \in Nat
  BY <1>1, FS_Subset, FS_CardinalityType
<1>4. lowered \in Nat
  <2> HIDE DEF aces, high
  <2>1. enough \in SUBSET Nat
    BY <1>3
  <2>2. enough # {} => Min(enough) \in enough
    <3> HIDE DEF enough
    <3> QED
      BY <2>1, MinOfNaturals
  <2> QED
    BY <1>3, <2>1, <2>2
<1>5. scoreBlackjackCards(cards).total = high - 10 * lowered
  BY DEF scoreBlackjackCards, scoreOf
<1> HIDE DEF high, lowered
<1> QED
  BY <1>2, <1>4, <1>5

LEMMA HandTotalIsInt ==
    ASSUME NEW hand \in Hands
    PROVE  handTotal(hand) \in Int
BY ScoreIsInt DEF handTotal, Hands

LEMMA PairFacts ==
    ASSUME NEW cards \in Ranks \X Ranks
    PROVE  /\ cards \in Seq(Ranks) /\ Len(cards) = 2 /\ DOMAIN cards = {1, 2}
           /\ cards = <<cards[1], cards[2]>>
<1>1. PICK x \in Ranks, y \in Ranks : cards = <<x, y>>
  OBVIOUS
<1>2. <<x, y>> \in Seq(Ranks) /\ Len(<<x, y>>) = 2 /\ <<x, y>>[1] = x /\ <<x, y>>[2] = y
  OBVIOUS
<1>3. DOMAIN <<x, y>> = {1, 2}
  OBVIOUS
<1> QED
  BY <1>1, <1>2, <1>3, Zenon

\* Two cards are never too much, and a natural exactly when they count 21.
LEMMA FirstCards ==
    ASSUME NEW cards \in Ranks \X Ranks
    PROVE  /\ scoreBlackjackCards(cards).total <= 21
           /\ scoreBlackjackCards(cards).blackjack <=> scoreBlackjackCards(cards).total = 21
<1> DEFINE value == [i \in DOMAIN cards |-> rankValue(cards[i])]
           high == SumFunctionOnSet(value, DOMAIN cards)
           ones == {i \in DOMAIN cards : cards[i] = 1}
           aces == Cardinality(ones)
           enough == {n \in 0..aces : high - 10 * n <= 21}
           lowered == IF enough = {} THEN aces ELSE Min(enough)
<1>1. IsFiniteSet(DOMAIN cards) /\ DOMAIN cards = {1, 2} /\ cards[1] \in Ranks /\ cards[2] \in Ranks
  BY PairFacts, ListFacts
<1>2. high = rankValue(cards[1]) + rankValue(cards[2])
  <2>1. \A i \in DOMAIN cards : value[i] \in Int
    BY <1>1, RankValues
  <2>2. high = value[1] + SumFunctionOnSet(value, DOMAIN cards \ {1})
    BY <1>1, <2>1, SumWithout
  <2>3. DOMAIN cards \ {1} = {} \cup {2}
    BY <1>1
  <2>4. SumFunctionOnSet(value, {} \cup {2}) = value[2] + SumFunctionOnSet(value, {})
    BY <1>1, <2>1, SumWith, FS_EmptySet
  <2>5. SumFunctionOnSet(value, {}) = 0
    BY SumOfNone
  <2>6. value[1] = rankValue(cards[1]) /\ value[2] = rankValue(cards[2]) /\ value[2] \in Int
    BY <1>1, <2>1
  <2> HIDE DEF value
  <2> QED
    BY <2>2, <2>3, <2>4, <2>5, <2>6
<1>3. aces \in Nat
  BY <1>1, FS_Subset, FS_CardinalityType
<1>4. high \in Int /\ (high > 21 => high = 22 /\ aces >= 1)
  <2>1. high > 21 => high = 22 /\ cards[1] = 1
    <3> HIDE DEF high
    <3> QED
      BY <1>1, <1>2, RankValues
  <2>2. cards[1] = 1 => ones # {}
    BY <1>1
  <2>3. ones # {} => aces # 0
    BY <1>1, FS_Subset, FS_EmptySet
  <2>4. high \in Int
    <3> HIDE DEF high
    <3> QED
      BY <1>1, <1>2, RankValues
  <2> HIDE DEF aces, high, ones
  <2> QED
    BY <1>3, <2>1, <2>2, <2>3, <2>4
<1>5. enough \in SUBSET Nat /\ enough # {}
  <2> HIDE DEF aces, high
  <2>1. 0 \in enough \/ 1 \in enough
    BY <1>3, <1>4
  <2> QED
    BY <2>1
<1>6. lowered \in enough
  <2> HIDE DEF enough
  <2> QED
    BY <1>5, MinOfNaturals
<1>7. scoreBlackjackCards(cards).total = high - 10 * lowered
  BY DEF scoreBlackjackCards, scoreOf
<1>8. scoreBlackjackCards(cards).blackjack
        <=> Len(cards) = 2 /\ scoreBlackjackCards(cards).total = 21
  BY DEF scoreBlackjackCards, scoreOf
<1>9. Len(cards) = 2
  BY PairFacts
<1> QED
  BY <1>6, <1>7, <1>8, <1>9

LEMMA PayoutFacts ==
    ASSUME NEW a \in Nat, NEW p \in Nat
    PROVE  payout(a, p) \in Nat
BY DEF payout

LEMMA LargerMultiplier ==
    ASSUME NEW a \in Nat, NEW p \in Nat, NEW q \in Nat, p <= q
    PROVE  payout(a, p) <= payout(a, q)
<1>1. q - p \in Nat /\ a * (q - p) = a * q - a * p
  OBVIOUS
<1>2. \A x, y \in Nat : x * y \in Nat
  OBVIOUS
<1>3. a * p <= a * q
  BY <1>1, <1>2
<1> QED
  BY <1>3 DEF payout

(***************************************************************************)
(* Rounding to cents.  A balance counts cents, so what is added to it is   *)
(* rounded like the payout itself; what is taken from it may be a cent     *)
(* less, never more, and leaves at least what was left before rounding.    *)
(***************************************************************************)
LEMMA RoundedCredit ==
    ASSUME NEW f \in Nat, NEW paid \in Nat
    PROVE  /\ toMoneyString(paid) \in Nat
           /\ toMoneyString(100 * f + paid) = f + toMoneyString(paid)
BY DEF toMoneyString

LEMMA RoundedPool ==
    ASSUME NEW m \in Int, NEW paid \in Nat
    PROVE  LET left == toMoneyString(100 * m - paid)
           IN  /\ left \in Int
               /\ left + toMoneyString(paid) - m \in {0, 1}
               /\ toMoneyString(paid) = 0 => left = m
BY DEF toMoneyString

LEMMA RoundedAbove ==
    ASSUME NEW m \in Int, NEW paid \in Nat, NEW kept \in Nat, paid <= 100 * (m - kept)
    PROVE  toMoneyString(100 * m - paid) >= kept
BY DEF toMoneyString

LEMMA Multipliers ==
    /\ WinPct \in Nat /\ PushPct \in Nat /\ NaturalPct \in Nat /\ WinPct <= NaturalPct
    /\ Wallet \in Nat /\ Pool \in Nat /\ PoolReserve \in Nat
BY BlackjackAssumption

LEMMA HandPayout ==
    ASSUME NEW hand \in Hands, NEW dealer
    PROVE  LET paid == resolveRegularHandPayoutAmount(hand, dealer)
           IN  /\ paid \in Nat
               /\ PushPct <= WinPct => paid <= hand.stake * WinPct
<1> DEFINE paid == resolveRegularHandPayoutAmount(hand, dealer)
           win == payout(hand.stake, WinPct)
           push == payout(hand.stake, PushPct)
<1>1. paid \in {0, win, push}
  BY DEF resolveRegularHandPayoutAmount
<1>2. hand.stake \in Nat
  BY DEF Hands
<1>3. win \in Nat /\ push \in Nat
  BY <1>2, Multipliers, PayoutFacts
<1>4. PushPct <= WinPct => push <= win
  BY <1>2, Multipliers, LargerMultiplier
<1>5. win = hand.stake * WinPct
  BY DEF payout
<1> HIDE DEF paid, win, push
<1>6. paid \in Nat /\ (PushPct <= WinPct => paid <= win)
  BY <1>1, <1>3, <1>4
<1> QED
  BY <1>5, <1>6 DEF paid

LEMMA StakesAreNat ==
    ASSUME NEW hands \in Seq(Hands)
    PROVE  stakesOf(hands) \in Nat
<1> DEFINE f == [i \in DOMAIN hands |-> hands[i].stake]
<1>0. IsFiniteSet(DOMAIN hands) /\ \A i \in DOMAIN hands : hands[i] \in Hands
  BY ListFacts
<1>1. \A i \in DOMAIN hands : f[i] \in Nat
  BY <1>0 DEF Hands
<1> HIDE DEF f
<1>2. SumFunctionOnSet(f, DOMAIN hands) \in Nat
  BY <1>0, <1>1, SumIsNat
<1> QED
  BY <1>2 DEF f, stakesOf

(***************************************************************************)
(* The hands of a game win at most what was checked when the stakes were   *)
(* taken.                                                                  *)
(***************************************************************************)
LEMMA SettledPayout ==
    ASSUME NEW hands \in Seq(Hands), NEW dealer
    PROVE  LET paid == SumFunctionOnSet(
                    [i \in DOMAIN hands |-> resolveRegularHandPayoutAmount(hands[i], dealer)],
                    DOMAIN hands)
           IN  /\ paid \in Nat
               /\ PushPct <= WinPct => paid <= payout(stakesOf(hands), WinPct)
<1> DEFINE D == DOMAIN hands
           r == [i \in D |-> resolveRegularHandPayoutAmount(hands[i], dealer)]
           f == [i \in D |-> hands[i].stake]
           most == [i \in D |-> f[i] * WinPct]
<1>1. IsFiniteSet(D) /\ \A i \in D : hands[i] \in Hands
  BY ListFacts
<1>2. \A i \in D : r[i] \in Nat /\ (PushPct <= WinPct => r[i] <= f[i] * WinPct)
  BY <1>1, HandPayout
<1>3. \A i \in D : f[i] \in Nat
  BY <1>1 DEF Hands
<1>4. \A i \in D : most[i] = f[i] * WinPct
  OBVIOUS
<1>5. SumFunctionOnSet(f, D) = stakesOf(hands)
  BY DEF stakesOf
<1> HIDE DEF r, f, most, D
<1>6. WinPct \in Nat
  BY Multipliers
<1>7. SumFunctionOnSet(r, D) \in Nat
  BY <1>1, <1>2, SumIsNat
<1>8. SumFunctionOnSet(most, D) = SumFunctionOnSet(f, D) * WinPct
  <2>1. \A i \in D : f[i] \in Int /\ most[i] = f[i] * WinPct
    BY <1>3, <1>4
  <2> QED
    BY <1>1, <1>6, <2>1, SumOfMultiples
<1>9. ASSUME PushPct <= WinPct
      PROVE  SumFunctionOnSet(r, D) <= payout(SumFunctionOnSet(f, D), WinPct)
  <2>0. \A x \in Nat : x * WinPct \in Int
    BY <1>6
  <2>1. \A i \in D : r[i] \in Int /\ most[i] \in Int /\ r[i] <= most[i]
    BY <1>2, <1>3, <1>4, <1>9, <2>0
  <2>2. SumFunctionOnSet(r, D) <= SumFunctionOnSet(most, D)
    BY <1>1, <2>1, SumAtMost
  <2> QED
    BY <1>8, <2>2 DEF payout
<1> QED
  BY <1>5, <1>7, <1>9 DEF r, D

-----------------------------------------------------------------------------
(* Hands *)

LEMMA GameFields ==
    ASSUME NEW g \in GameRows
    PROVE  /\ g.status \in GameStatuses /\ g.stake \in Nat /\ g.total \in Nat /\ g.payout \in Nat
           /\ g.hands \in Seq(Hands) /\ g.turn \in Nat /\ g.dealer \in Seq(Ranks)
           /\ g.clock \in {"none", "running", "expired"} /\ g.group \in Nat
           /\ g.mode \in Snapshots
BY DEF GameRows

LEMMA HandFields ==
    ASSUME NEW hand \in Hands
    PROVE  /\ hand.cards \in Seq(Ranks) /\ hand.stake \in Nat /\ hand.splitFromAces \in BOOLEAN
           /\ hand.state \in {"active", "waiting", "stood", "bust"}
BY DEF Hands

\* What the moves do not change of a game.
sameGame(a, g) ==
    /\ a.status = g.status /\ a.payout = g.payout /\ a.mode = g.mode /\ a.group = g.group
    /\ a.stake = g.stake

withHands(g, turn, hands) == [g EXCEPT !.turn = turn, !.hands = hands]

LEMMA HandsReplaced ==
    ASSUME NEW g \in GameRows, NEW turn \in Nat, NEW hands \in Seq(Hands)
    PROVE  LET a == withHands(g, turn, hands)
           IN  /\ a \in GameRows /\ sameGame(a, g) /\ a.total = g.total
               /\ a.turn = turn /\ a.hands = hands /\ a.clock = g.clock
BY DEF GameRows, sameGame, withHands

LEMMA HandEnds ==
    ASSUME NEW hand
    PROVE  endState(hand) \in {"stood", "bust"}
BY DEF endState

\* The stakes on the hands depend on nothing else.
LEMMA SameStakes ==
    ASSUME NEW s \in Seq(Hands), NEW t \in Seq(Hands), Len(s) = Len(t),
           \A i \in DOMAIN s : t[i].stake = s[i].stake
    PROVE  stakesOf(t) = stakesOf(s)
<1>1. DOMAIN s = DOMAIN t /\ IsFiniteSet(DOMAIN s)
  BY ListFacts
<1> DEFINE f == [i \in DOMAIN s |-> s[i].stake]
           e == [i \in DOMAIN t |-> t[i].stake]
<1>2. f = e
  BY <1>1
<1> HIDE DEF f, e
<1>3. SumFunctionOnSet(f, DOMAIN s) = SumFunctionOnSet(e, DOMAIN t)
  BY <1>1, <1>2
<1> QED
  BY <1>3 DEF stakesOf, f, e

LEMMA Advanced ==
    ASSUME NEW g \in GameRows, NEW first \in Nat \ {0}, NEW balance,
           \A i \in DOMAIN g.hands \ {first} : g.hands[i].state # "active"
    PROVE  LET a == advanceResolvableHands(g, first, balance)
           IN  /\ a \in GameRows /\ sameGame(a, g) /\ a.total = g.total /\ a.clock = g.clock
               /\ Len(a.hands) = Len(g.hands) /\ stakesOf(a.hands) = stakesOf(g.hands)
               /\ a.turn # 0 => waitsForHand(a)
<1> DEFINE a == advanceResolvableHands(g, first, balance)
           D == DOMAIN g.hands
           open == {i \in first..Len(g.hands) : ~resolvable(g, g.hands[i], balance)}
           next == IF open = {} THEN 0 ELSE Min(open)
           over(i) == i >= first /\ (next = 0 \/ i < next)
           state(i) == CASE i = next -> "active"
                         [] over(i) -> endState(g.hands[i])
                         [] OTHER -> g.hands[i].state
           hands == [i \in D |-> [g.hands[i] EXCEPT !.state = state(i)]]
<1>1. a = withHands(g, next, hands)
  BY DEF advanceResolvableHands, withHands
<1>2. /\ g.hands \in Seq(Hands) /\ Len(g.hands) \in Nat /\ D = 1..Len(g.hands)
      /\ \A i \in D : g.hands[i] \in Hands
  BY GameFields, ListFacts
<1>3. next \in Nat /\ (next # 0 => next \in open)
  <2>1. open \in SUBSET Nat /\ 0 \notin open
    BY <1>2
  <2> HIDE DEF open
  <2>2. open # {} => Min(open) \in open
    BY <2>1, MinOfNaturals
  <2> QED
    BY <2>1, <2>2
<1>4. next # 0 => next \in D /\ next >= first /\ ~(handTotal(g.hands[next]) >= 21)
  <2>1. \A i \in open : i \in first..Len(g.hands) /\ ~resolvable(g, g.hands[i], balance)
    OBVIOUS
  <2> HIDE DEF open, next
  <2> QED
    BY <1>2, <1>3, <2>1 DEF resolvable
<1> HIDE DEF open, next
<1>5. \A i \in D : state(i) \in {"active", "waiting", "stood", "bust"}
  BY <1>2, HandEnds, HandFields
<1>6. \A i \in D : state(i) = "active" <=> i = next
  <2> TAKE i \in D
  <2>1. CASE i = next
    BY <1>2, <2>1
  <2>2. CASE i # next /\ over(i)
    BY <2>2, HandEnds
  <2>3. CASE i # next /\ ~over(i)
    <3>1. i # first
      BY <1>2, <1>3, <1>4, <2>3
    <3>2. g.hands[i].state # "active"
      BY <3>1
    <3>3. state(i) = g.hands[i].state
      BY <2>3
    <3> QED
      BY <2>3, <3>2, <3>3
  <2> QED
    BY <2>1, <2>2, <2>3
<1> HIDE DEF state
<1>7. \A i \in D : /\ hands[i] \in Hands /\ hands[i].stake = g.hands[i].stake
                   /\ hands[i].cards = g.hands[i].cards /\ hands[i].state = state(i)
  <2> TAKE i \in D
  <2>1. g.hands[i] \in Hands /\ state(i) \in {"active", "waiting", "stood", "bust"}
    BY <1>2, <1>5
  <2>2. hands[i] = [g.hands[i] EXCEPT !.state = state(i)]
    BY Zenon
  <2> QED
    BY <2>1, <2>2 DEF Hands
<1>8. hands \in Seq(Hands) /\ Len(hands) = Len(g.hands) /\ DOMAIN hands = D
  <2>1. hands = [i \in 1..Len(g.hands) |-> hands[i]]
    BY <1>2
  <2>2. \A i \in 1..Len(g.hands) : hands[i] \in Hands
    BY <1>2, <1>7
  <2> HIDE DEF hands
  <2>3. hands \in Seq(Hands) /\ Len(hands) = Len(g.hands) /\ DOMAIN hands = 1..Len(g.hands)
    BY <1>2, <2>1, <2>2, ListOf
  <2> QED
    BY <1>2, <2>3
<1> HIDE DEF hands
<1>9. /\ a \in GameRows /\ sameGame(a, g) /\ a.total = g.total /\ a.clock = g.clock
      /\ a.turn = next /\ a.hands = hands
  BY <1>1, <1>3, <1>8, HandsReplaced, SMTT(60)
<1>10. stakesOf(a.hands) = stakesOf(g.hands)
  BY <1>2, <1>7, <1>8, <1>9, SameStakes
<1>11. ASSUME a.turn # 0 PROVE waitsForHand(a)
  <2>1. next \in D /\ ~(handTotal(g.hands[next]) >= 21)
    BY <1>4, <1>9, <1>11
  <2>2. handTotal(hands[next]) = handTotal(g.hands[next]) /\ handTotal(hands[next]) \in Int
    BY <1>7, <2>1, HandTotalIsInt DEF handTotal
  <2>3. handTotal(hands[next]) < 21
    BY <2>1, <2>2
  <2> QED
    BY <1>6, <1>7, <1>8, <1>9, <2>1, <2>3 DEF waitsForHand
<1> HIDE DEF a
<1>12. Len(a.hands) = Len(g.hands)
  BY <1>8, <1>9
<1> QED
  BY <1>9, <1>10, <1>11, <1>12 DEF a

LEMMA StakesUpdated ==
    ASSUME NEW s \in Seq(Hands), NEW i \in DOMAIN s, NEW hand \in Hands
    PROVE  stakesOf([s EXCEPT ![i] = hand]) = stakesOf(s) + hand.stake - s[i].stake
<1> DEFINE t == [s EXCEPT ![i] = hand]
           f == [j \in DOMAIN s |-> s[j].stake]
           e == [j \in DOMAIN t |-> t[j].stake]
<1>1. DOMAIN t = DOMAIN s /\ IsFiniteSet(DOMAIN s) /\ t \in Seq(Hands)
  BY ListFacts, ListUpdate
<1>2. t[i] = hand /\ \A j \in DOMAIN s \ {i} : t[j] = s[j]
  BY ListUpdate
<1> HIDE DEF t
<1>3. \A j \in DOMAIN s : s[j] \in Hands /\ t[j] \in Hands
  BY <1>1, ListFacts
<1>4. \A j \in DOMAIN s : s[j].stake \in Int /\ t[j].stake \in Int
  BY <1>3, HandFields
<1>5. \A j \in DOMAIN s : f[j] = s[j].stake /\ e[j] = t[j].stake
  BY <1>1
<1>6. stakesOf(s) = SumFunctionOnSet(f, DOMAIN s) /\ stakesOf(t) = SumFunctionOnSet(e, DOMAIN t)
  BY DEF stakesOf
<1> HIDE DEF f, e
<1>7. SumFunctionOnSet(e, DOMAIN s) = SumFunctionOnSet(f, DOMAIN s) + e[i] - f[i]
  <2>1. \A j \in DOMAIN s : f[j] \in Int /\ e[j] \in Int
    BY <1>4, <1>5
  <2>2. \A j \in DOMAIN s \ {i} : e[j] = f[j]
    BY <1>2, <1>5
  <2> QED
    BY <1>1, <2>1, <2>2, SumOfUpdate
<1> QED
  BY <1>1, <1>2, <1>5, <1>6, <1>7 DEF t

withHand(g, i, hand) == [g EXCEPT !.hands[i] = hand]

LEMMA HandReplaced ==
    ASSUME NEW g \in GameRows, NEW i \in DOMAIN g.hands, NEW hand \in Hands
    PROVE  LET a == withHand(g, i, hand)
           IN  /\ a \in GameRows /\ sameGame(a, g) /\ a.total = g.total
               /\ a.turn = g.turn /\ a.clock = g.clock
               /\ a.hands = [g.hands EXCEPT ![i] = hand]
<1>1. g.hands \in Seq(Hands)
  BY GameFields
<1> DEFINE hands == [g.hands EXCEPT ![i] = hand]
<1>2. hands \in Seq(Hands)
  BY <1>1, ListUpdate
<1>3. withHand(g, i, hand) = [g EXCEPT !.hands = hands]
  BY DEF withHand
<1> HIDE DEF hands
<1>4. LET a == [g EXCEPT !.hands = hands]
      IN  /\ a \in GameRows /\ sameGame(a, g) /\ a.total = g.total
          /\ a.turn = g.turn /\ a.clock = g.clock /\ a.hands = hands
  BY <1>2 DEF GameRows, sameGame
<1> QED
  BY <1>3, <1>4 DEF hands

\* The turn is at the one active hand, whatever it counts.
inTurn(g) ==
    /\ g.turn \in DOMAIN g.hands
    /\ \A i \in DOMAIN g.hands : g.hands[i].state = "active" <=> i = g.turn

\* What a move has to make of a game.
gameGoesOn(a, g) ==
    /\ a \in GameRows /\ sameGame(a, g) /\ a.total = g.total
    /\ Len(a.hands) <= MaxSplitHands
    /\ a.total = stakesOf(a.hands)
    /\ a.turn # 0 => waitsForHand(a)

LEMMA TurnPasses ==
    ASSUME NEW g \in GameRows, inTurn(g), NEW balance, Len(g.hands) <= MaxSplitHands,
           g.total = stakesOf(g.hands)
    PROVE  gameGoesOn(advancePlayerHand(g, balance), g)
<1> DEFINE i == g.turn
           hand == [g.hands[i] EXCEPT !.state = endState(g.hands[i])]
           x == withHand(g, i, hand)
<1>1. g.hands \in Seq(Hands) /\ i \in DOMAIN g.hands /\ g.hands[i] \in Hands /\ i \in Nat
  BY GameFields, ListFacts DEF inTurn
<1>2. hand \in Hands /\ hand.stake = g.hands[i].stake /\ hand.state # "active"
  <2>1. endState(g.hands[i]) \in {"stood", "bust"}
    BY HandEnds
  <2> QED
    BY <1>1, <2>1 DEF Hands
<1>3. advancePlayerHand(g, balance) = advanceResolvableHands(x, i + 1, balance)
  BY DEF advancePlayerHand, withHand
<1> HIDE DEF hand
<1>4. /\ x \in GameRows /\ sameGame(x, g) /\ x.total = g.total
      /\ x.hands = [g.hands EXCEPT ![i] = hand]
  BY <1>1, <1>2, HandReplaced
<1>5. stakesOf(x.hands) = stakesOf(g.hands) /\ Len(x.hands) = Len(g.hands)
  <2>1. stakesOf(x.hands) = stakesOf(g.hands) + hand.stake - g.hands[i].stake
    BY <1>1, <1>2, <1>4, StakesUpdated
  <2>2. stakesOf(g.hands) \in Nat /\ g.hands[i].stake \in Nat
    BY <1>1, StakesAreNat, HandFields
  <2>3. Len(x.hands) = Len(g.hands)
    BY <1>1, <1>2, <1>4, ListUpdate
  <2> QED
    BY <1>2, <2>1, <2>2, <2>3
<1>6. \A j \in DOMAIN x.hands : x.hands[j].state # "active"
  <2>1. DOMAIN x.hands = DOMAIN g.hands /\ x.hands[i] = hand
        /\ \A j \in DOMAIN g.hands \ {i} : x.hands[j] = g.hands[j]
    BY <1>1, <1>2, <1>4, ListUpdate
  <2> QED
    BY <1>2, <2>1 DEF inTurn
<1> HIDE DEF x
<1> DEFINE a == advanceResolvableHands(x, i + 1, balance)
<1>7. i + 1 \in Nat \ {0}
  BY <1>1
<1>8. /\ a \in GameRows /\ sameGame(a, x) /\ a.total = x.total
      /\ Len(a.hands) = Len(x.hands) /\ stakesOf(a.hands) = stakesOf(x.hands)
      /\ a.turn # 0 => waitsForHand(a)
  BY <1>4, <1>6, <1>7, Advanced
<1>9. sameGame(a, g)
  BY <1>4, <1>8 DEF sameGame
<1> HIDE DEF a
<1>10. gameGoesOn(a, g)
  BY <1>4, <1>5, <1>8, <1>9 DEF gameGoesOn
<1> QED
  BY <1>3, <1>10 DEF a

\* A card more on the hand, which keeps the turn until it is over.
LEMMA HitGoesOn ==
    ASSUME NEW g \in GameRows, inTurn(g), NEW balance, Len(g.hands) <= MaxSplitHands,
           g.total = stakesOf(g.hands), NEW card \in Ranks
    PROVE  LET x == [g EXCEPT !.hands[g.turn].cards = Append(@, card)]
           IN  gameGoesOn(advanceResolvableHands(x, x.turn, balance), g)
<1> DEFINE i == g.turn
           hand == [g.hands[i] EXCEPT !.cards = Append(g.hands[i].cards, card)]
           x == [g EXCEPT !.hands[g.turn].cards = Append(@, card)]
<1>1. /\ g.hands \in Seq(Hands) /\ i \in DOMAIN g.hands /\ g.hands[i] \in Hands
      /\ i \in Nat /\ i > 0
  BY GameFields, ListFacts DEF inTurn
<1>2. hand \in Hands /\ hand.stake = g.hands[i].stake
  <2>1. Append(g.hands[i].cards, card) \in Seq(Ranks)
    BY <1>1, HandFields
  <2> QED
    BY <1>1, <2>1 DEF Hands
<1>3. x = withHand(g, i, hand)
  BY DEF withHand
<1> HIDE DEF hand, x
<1>4. /\ x \in GameRows /\ sameGame(x, g) /\ x.total = g.total /\ x.turn = i
      /\ x.hands = [g.hands EXCEPT ![i] = hand]
  BY <1>1, <1>2, <1>3, HandReplaced
<1>5. stakesOf(x.hands) = stakesOf(g.hands) /\ Len(x.hands) = Len(g.hands)
  <2>1. stakesOf(x.hands) = stakesOf(g.hands) + hand.stake - g.hands[i].stake
    BY <1>1, <1>2, <1>4, StakesUpdated
  <2>2. stakesOf(g.hands) \in Nat /\ g.hands[i].stake \in Nat
    BY <1>1, StakesAreNat, HandFields
  <2>3. Len(x.hands) = Len(g.hands)
    BY <1>1, <1>2, <1>4, ListUpdate
  <2> QED
    BY <1>2, <2>1, <2>2, <2>3
<1>6. \A j \in DOMAIN x.hands \ {i} : x.hands[j].state # "active"
  <2>1. DOMAIN x.hands = DOMAIN g.hands
        /\ \A j \in DOMAIN g.hands \ {i} : x.hands[j] = g.hands[j]
    BY <1>1, <1>2, <1>4, ListUpdate
  <2> QED
    BY <2>1 DEF inTurn
<1> DEFINE a == advanceResolvableHands(x, i, balance)
<1>8. /\ a \in GameRows /\ sameGame(a, x) /\ a.total = x.total
      /\ Len(a.hands) = Len(x.hands) /\ stakesOf(a.hands) = stakesOf(x.hands)
      /\ a.turn # 0 => waitsForHand(a)
  BY <1>1, <1>4, <1>6, Advanced
<1>9. sameGame(a, g)
  BY <1>4, <1>8 DEF sameGame
<1> HIDE DEF a
<1>10. gameGoesOn(a, g)
  BY <1>4, <1>5, <1>8, <1>9 DEF gameGoesOn
<1> QED
  BY <1>4, <1>10 DEF a, x

\* The stake was raised by that of the hand, which gets one card more and ends.
doubledGame(g, card) ==
    [g EXCEPT !.hands[g.turn].stake = 2 * @, !.hands[g.turn].cards = Append(@, card)]

LEMMA DoubleGoesOn ==
    ASSUME NEW g \in GameRows, inTurn(g), NEW balance, Len(g.hands) <= MaxSplitHands,
           g.total = stakesOf(g.hands) + g.hands[g.turn].stake, NEW card \in Ranks
    PROVE  gameGoesOn(advancePlayerHand(doubledGame(g, card), balance), g)
<1> DEFINE i == g.turn
           cards == Append(g.hands[i].cards, card)
           richer == [g.hands[i] EXCEPT !.stake = 2 * g.hands[i].stake]
           hand == [g.hands[i] EXCEPT !.stake = 2 * g.hands[i].stake, !.cards = cards]
           x == doubledGame(g, card)
<1>1. /\ g.hands \in Seq(Hands) /\ i \in DOMAIN g.hands /\ g.hands[i] \in Hands
      /\ i \in Nat /\ i > 0
  BY GameFields, ListFacts DEF inTurn
<1>2. /\ hand \in Hands /\ hand.stake = 2 * g.hands[i].stake
      /\ hand.state = g.hands[i].state
  <2>1. cards \in Seq(Ranks) /\ 2 * g.hands[i].stake \in Nat
    BY <1>1, HandFields
  <2> HIDE DEF cards
  <2> QED
    BY <1>1, <2>1 DEF Hands
<1>3. x = withHand(g, i, hand)
  <2> DEFINE y == withHand(g, i, richer)
  <2>0. richer \in Hands /\ richer.cards = g.hands[i].cards
    <3>1. 2 * g.hands[i].stake \in Nat
      BY <1>1, HandFields
    <3> QED
      BY <1>1, <3>1 DEF Hands
  <2>1. x = [y EXCEPT !.hands[i].cards = Append(y.hands[i].cards, card)]
    BY DEF withHand, doubledGame
  <2> HIDE DEF richer
  <2>2. y.hands = [g.hands EXCEPT ![i] = richer] /\ y \in GameRows
    BY <1>1, <2>0, HandReplaced
  <2>3. y.hands[i] = richer
    BY <1>1, <2>0, <2>2, ListUpdate
  <2>4. x = [y EXCEPT !.hands = [y.hands EXCEPT ![i] = [y.hands[i] EXCEPT !.cards =
                                    Append(y.hands[i].cards, card)]]]
    BY <2>1
  <2>5. x = [y EXCEPT !.hands = [[g.hands EXCEPT ![i] = richer] EXCEPT ![i] =
                                    [richer EXCEPT !.cards = cards]]]
    BY <2>0, <2>2, <2>3, <2>4, Zenon
  <2>6. [richer EXCEPT !.cards = cards] = hand
    BY Zenon DEF richer
  <2> HIDE DEF hand, cards
  <2>7. x = [y EXCEPT !.hands = [[g.hands EXCEPT ![i] = richer] EXCEPT ![i] = hand]]
    BY <2>5, <2>6
  <2>8. [[g.hands EXCEPT ![i] = richer] EXCEPT ![i] = hand] = [g.hands EXCEPT ![i] = hand]
    BY <1>1
  <2>9. x = [y EXCEPT !.hands = [g.hands EXCEPT ![i] = hand]]
    BY <2>7, <2>8
  <2> DEFINE hands == [g.hands EXCEPT ![i] = hand]
             poorer == [g.hands EXCEPT ![i] = richer]
  <2>10. x = [y EXCEPT !.hands = hands] /\ y = [g EXCEPT !.hands = poorer]
    BY <2>9 DEF withHand
  <2>11. withHand(g, i, hand) = [g EXCEPT !.hands = hands]
    BY DEF withHand
  <2> HIDE DEF hands, poorer, x, y
  <2>12. [[g EXCEPT !.hands = poorer] EXCEPT !.hands = hands] = [g EXCEPT !.hands = hands]
    BY DEF GameRows
  <2> QED
    BY <2>10, <2>11, <2>12
<1> HIDE DEF hand, x
<1>4. /\ x \in GameRows /\ sameGame(x, g) /\ x.total = g.total /\ x.turn = i
      /\ x.hands = [g.hands EXCEPT ![i] = hand]
  BY <1>1, <1>2, <1>3, HandReplaced
<1>5. stakesOf(x.hands) = x.total /\ Len(x.hands) = Len(g.hands)
  <2>1. stakesOf(x.hands) = stakesOf(g.hands) + hand.stake - g.hands[i].stake
    BY <1>1, <1>2, <1>4, StakesUpdated
  <2>2. stakesOf(g.hands) \in Nat /\ g.hands[i].stake \in Nat
    BY <1>1, StakesAreNat, HandFields
  <2>3. Len(x.hands) = Len(g.hands)
    BY <1>1, <1>2, <1>4, ListUpdate
  <2> QED
    BY <1>2, <1>4, <2>1, <2>2, <2>3
<1>6. inTurn(x)
  <2>1. DOMAIN x.hands = DOMAIN g.hands /\ x.hands[i] = hand
        /\ \A j \in DOMAIN g.hands \ {i} : x.hands[j] = g.hands[j]
    BY <1>1, <1>2, <1>4, ListUpdate
  <2> QED
    BY <1>2, <1>4, <2>1 DEF inTurn
<1> DEFINE a == advancePlayerHand(x, balance)
<1>7. gameGoesOn(a, x)
  BY <1>4, <1>5, <1>6, TurnPasses
<1> HIDE DEF a
<1>8. gameGoesOn(a, g)
  BY <1>4, <1>7 DEF gameGoesOn, sameGame
<1> QED
  BY <1>8 DEF a, x

\* One element of a list gives way to two.
splitAt(s, i, x, y) == SubSeq(s, 1, i - 1) \o <<x, y>> \o SubSeq(s, i + 1, Len(s))

isSplit(t, S, s, i, x, y) ==
    /\ t \in Seq(S) /\ Len(t) = Len(s) + 1
    /\ DOMAIN t = 1..(Len(s) + 1)
    /\ t[i] = x /\ t[i + 1] = y
    /\ \A j \in DOMAIN s : j < i => t[j] = s[j]
    /\ \A j \in DOMAIN s : j > i => t[j + 1] = s[j]

LEMMA ListSplit ==
    ASSUME NEW S, NEW s \in Seq(S), NEW i \in DOMAIN s, NEW x \in S, NEW y \in S
    PROVE  isSplit(splitAt(s, i, x, y), S, s, i, x, y)
<1> DEFINE n == Len(s)
           a == SubSeq(s, 1, i - 1)
           c == SubSeq(s, i + 1, n)
           m == <<x, y>>
           t == splitAt(s, i, x, y)
<1>1. n \in Nat /\ DOMAIN s = 1..n /\ i \in 1..n
  BY ListFacts
<1>2. a \in Seq(S) /\ Len(a) = i - 1 /\ \A j \in 1..(i - 1) : a[j] = s[j]
  BY <1>1
<1>3. c \in Seq(S) /\ Len(c) = n - i /\ \A j \in 1..(n - i) : c[j] = s[i + j]
  <2>1. n \in Int /\ i + 1 \in Int /\ \A j \in (i + 1)..n : s[j] \in S
    BY <1>1
  <2> HIDE DEF n
  <2>0. c = SubSeq(s, i + 1, n)
    BY DEF n
  <2> HIDE DEF c
  <2>2. /\ c \in Seq(S)
        /\ Len(c) = IF i + 1 <= n THEN n - (i + 1) + 1 ELSE 0
        /\ \A j \in 1..(n - (i + 1) + 1) : c[j] = s[i + 1 + j - 1]
    BY <2>0, <2>1, SubSeqProperties
  <2>3. n - (i + 1) + 1 = n - i /\ \A j \in 1..(n - i) : i + 1 + j - 1 = i + j
    BY <1>1
  <2>4. Len(c) = n - i
    BY <1>1, <2>2
  <2> QED
    BY <2>2, <2>3, <2>4
<1>4. m \in Seq(S) /\ Len(m) = 2 /\ m[1] = x /\ m[2] = y
  OBVIOUS
<1>5. t = a \o m \o c
  BY DEF splitAt
<1> HIDE DEF a, c, m, n, t
<1>6. /\ a \o m \in Seq(S) /\ Len(a \o m) = i + 1
      /\ \A j \in 1..(i - 1) : (a \o m)[j] = a[j]
      /\ (a \o m)[i] = x /\ (a \o m)[i + 1] = y
  <2>1. a \o m \in Seq(S) /\ Len(a \o m) = Len(a) + Len(m)
    BY <1>2, <1>4, ConcatProperties
  <2>2. \A j \in 1..(Len(a) + Len(m)) : (a \o m)[j] = IF j <= Len(a) THEN a[j] ELSE m[j - Len(a)]
    BY <1>2, <1>4, ConcatProperties
  <2>3. i \in 1..(Len(a) + Len(m)) /\ i + 1 \in 1..(Len(a) + Len(m)) /\ i \in Nat
    BY <1>1, <1>2, <1>4
  <2>4. i - Len(a) = 1 /\ i + 1 - Len(a) = 2 /\ ~(i <= Len(a)) /\ ~(i + 1 <= Len(a))
    BY <1>1, <1>2
  <2>5. (a \o m)[i] = m[1] /\ (a \o m)[i + 1] = m[2]
    <3>1. (a \o m)[i] = IF i <= Len(a) THEN a[i] ELSE m[i - Len(a)]
      BY <2>2, <2>3
    <3>2. PICK k \in Int : k = i + 1
      BY <2>3
    <3>3. (a \o m)[k] = IF k <= Len(a) THEN a[k] ELSE m[k - Len(a)]
      BY <2>2, <2>3, <3>2
    <3>4. k \in Int /\ ~(k <= Len(a)) /\ k - Len(a) = 2
      BY <1>1, <1>2, <3>2
    <3> QED
      BY <2>4, <3>1, <3>2, <3>3, <3>4
  <2> QED
    BY <1>1, <1>2, <1>4, <2>1, <2>2, <2>5
<1> DEFINE u == a \o m
<1>7. /\ u[i] = x /\ u[i + 1] = y
      /\ \A j \in 1..(i - 1) : u[j] = a[j]
  BY <1>6
<1> HIDE DEF u
<1>8. /\ t \in Seq(S) /\ Len(t) = n + 1
      /\ \A j \in 1..(n + 1) : t[j] = IF j <= i + 1 THEN u[j] ELSE c[j - (i + 1)]
  <2>1. t = u \o c /\ u \in Seq(S) /\ Len(u) = i + 1
    BY <1>5, <1>6 DEF u
  <2>2. u \o c \in Seq(S) /\ Len(u \o c) = Len(u) + Len(c)
    BY <1>3, <2>1, ConcatProperties
  <2>3. \A j \in 1..(Len(u) + Len(c)) : (u \o c)[j] = IF j <= Len(u) THEN u[j] ELSE c[j - Len(u)]
    BY <1>3, <2>1, ConcatProperties
  <2>4. Len(u) + Len(c) = n + 1
    BY <1>1, <1>3, <2>1
  <2> QED
    BY <2>1, <2>2, <2>3, <2>4
<1>9. t[i] = x /\ t[i + 1] = y
  <2>1. i \in 1..(n + 1) /\ i + 1 \in 1..(n + 1) /\ i <= i + 1 /\ i + 1 <= i + 1
    BY <1>1
  <2>2. t[i] = IF i <= i + 1 THEN u[i] ELSE c[i - (i + 1)]
    BY <1>8, <2>1
  <2>3. t[i + 1] = IF i + 1 <= i + 1 THEN u[i + 1] ELSE c[i + 1 - (i + 1)]
    BY <1>8, <2>1
  <2> QED
    BY <1>7, <2>1, <2>2, <2>3
<1>10. ASSUME NEW j \in DOMAIN s, j < i PROVE t[j] = s[j]
  <2>1. j \in 1..(n + 1) /\ j <= i + 1 /\ j \in 1..(i - 1)
    BY <1>1, <1>10
  <2> QED
    BY <1>2, <1>7, <1>8, <2>1
<1>11. ASSUME NEW j \in DOMAIN s, j > i PROVE t[j + 1] = s[j]
  <2>1. j + 1 \in 1..(n + 1) /\ ~(j + 1 <= i + 1) /\ j - i \in 1..(n - i)
        /\ j + 1 - (i + 1) = j - i /\ i + (j - i) = j
    BY <1>1, <1>11
  <2>0. PICK k \in Int : k = j + 1
    BY <1>1
  <2>2. t[k] = IF k <= i + 1 THEN u[k] ELSE c[k - (i + 1)]
    BY <1>8, <2>0, <2>1
  <2>3. c[j - i] = s[i + (j - i)]
    BY <1>3, <2>1
  <2>4. j \in Int /\ i \in Int
    BY <1>1
  <2>5. k - (i + 1) = j - i /\ ~(k <= i + 1)
    BY <2>0, <2>1, <2>4
  <2>6. s[i + (j - i)] = s[j]
    BY <2>1
  <2> QED
    BY <2>0, <2>2, <2>3, <2>5, <2>6
<1>12. DOMAIN t = 1..(n + 1)
  BY <1>1, <1>8
<1> QED
  BY <1>8, <1>9, <1>10, <1>11, <1>12 DEF n, t, isSplit

LEMMA StakesSplit ==
    ASSUME NEW s \in Seq(Hands), NEW i \in DOMAIN s, NEW x \in Hands, NEW y \in Hands,
           x.stake = s[i].stake
    PROVE  stakesOf(splitAt(s, i, x, y)) = stakesOf(s) + y.stake
<1> DEFINE t == splitAt(s, i, x, y)
           n == Len(s)
           e == [j \in DOMAIN s |-> s[j].stake]
           f == [j \in DOMAIN t |-> t[j].stake]
           p == [j \in DOMAIN s |-> IF j <= i THEN j ELSE j + 1]
<1>1. n \in Nat /\ DOMAIN s = 1..n /\ i \in 1..n /\ IsFiniteSet(DOMAIN s)
      /\ \A j \in DOMAIN s : s[j] \in Hands
  BY ListFacts
<1>2. /\ t \in Seq(Hands) /\ DOMAIN t = 1..(n + 1)
      /\ t[i] = x /\ t[i + 1] = y
      /\ \A j \in DOMAIN s : j < i => t[j] = s[j]
      /\ \A j \in DOMAIN s : j > i => t[j + 1] = s[j]
  <2>1. isSplit(t, Hands, s, i, x, y)
    BY ListSplit
  <2> HIDE DEF t
  <2> QED
    BY <2>1 DEF isSplit
<1>3. stakesOf(s) = SumFunctionOnSet(e, DOMAIN s) /\ stakesOf(t) = SumFunctionOnSet(f, DOMAIN t)
  BY DEF stakesOf
<1> HIDE DEF t, n
<1>4. IsFiniteSet(DOMAIN t) /\ \A j \in DOMAIN t : t[j] \in Hands
  BY <1>2, ListFacts
<1>5. /\ \A j \in DOMAIN s : e[j] = s[j].stake /\ e[j] \in Int
      /\ \A j \in DOMAIN t : f[j] = t[j].stake /\ f[j] \in Int
  BY <1>1, <1>4, HandFields
<1>6. \A j \in DOMAIN s : p[j] = IF j <= i THEN j ELSE j + 1
  OBVIOUS
<1> DEFINE T == DOMAIN t \ {i + 1}
<1>7. (\A j \in DOMAIN s : p[j] \in T) /\ (\A k \in T : \E j \in DOMAIN s : k = p[j])
  <2>1. \A j \in DOMAIN s : p[j] \in DOMAIN t \ {i + 1}
    BY <1>1, <1>2, <1>6
  <2>2. ASSUME NEW k \in DOMAIN t \ {i + 1} PROVE \E j \in DOMAIN s : k = p[j]
    <3>1. CASE k <= i
      <4>1. k \in DOMAIN s /\ p[k] = k
        BY <1>1, <1>2, <1>6, <3>1
      <4> QED
        BY <4>1
    <3>2. CASE ~(k <= i)
      <4>1. k - 1 \in DOMAIN s /\ p[k - 1] = k
        BY <1>1, <1>2, <1>6, <3>2
      <4> QED
        BY <4>1
    <3> QED
      BY <3>1, <3>2
  <2> HIDE DEF p
  <2> QED
    BY <2>1, <2>2
<1> HIDE DEF e, f, p
<1>8. SumFunctionOnSet(e, DOMAIN s) = SumFunctionOnSet(f, T)
  <2>1. \A j, k \in DOMAIN s : p[j] = p[k] => j = k
    BY <1>1, <1>6
  <2>2. \A j \in DOMAIN s : e[j] = f[p[j]]
    <3> TAKE j \in DOMAIN s
    <3>1. p[j] \in DOMAIN t
      BY <1>1, <1>2, <1>6
    <3>2. f[p[j]] = t[p[j]].stake /\ e[j] = s[j].stake
      BY <1>5, <3>1
    <3>3. CASE j < i
      BY <1>1, <1>2, <1>6, <3>2, <3>3
    <3>4. CASE j = i
      BY <1>1, <1>2, <1>6, <3>2, <3>4
    <3>5. CASE j > i
      <4>1. p[j] = j + 1
        BY <1>1, <1>6, <3>5
      <4> QED
        BY <1>2, <3>2, <3>5, <4>1
    <3> QED
      BY <1>1, <3>3, <3>4, <3>5
  <2>3. \A j \in DOMAIN s : e[j] = f[p[j]] /\ e[j] \in Int
    BY <1>5, <2>2
  <2>4. Names(p, DOMAIN s, T)
    BY <1>7, <2>1 DEF Names
  <2>5. IsFiniteSet(DOMAIN s)
    BY <1>1
  <2> HIDE DEF T
  <2> QED
    BY <2>3, <2>4, <2>5, SumRenamed
<1>9. SumFunctionOnSet(f, DOMAIN t) = f[i + 1] + SumFunctionOnSet(f, T)
  <2>1. i + 1 \in DOMAIN t
    BY <1>1, <1>2
  <2> QED
    BY <1>4, <1>5, <2>1, SumWithout
<1>10. f[i + 1] = y.stake /\ f[i + 1] \in Int
  BY <1>1, <1>2, <1>5
<1>11. SumFunctionOnSet(e, DOMAIN s) \in Int
  BY <1>1, <1>5, SumIsInt
<1> HIDE DEF T
<1>12. stakesOf(t) = stakesOf(s) + y.stake
  BY <1>3, <1>8, <1>9, <1>10, <1>11
<1> QED
  BY <1>12 DEF t

\* One card of the pair and a new one.
halfHand(hand, n, card, state) ==
    [hand EXCEPT !.cards = <<hand.cards[n], card>>, !.state = state,
                 !.splitFromAces = hand.cards = <<1, 1>>]

LEMMA HalfHand ==
    ASSUME NEW hand \in Hands, Len(hand.cards) = 2, NEW n \in {1, 2}, NEW card \in Ranks,
           NEW state \in {"active", "waiting"}
    PROVE  LET half == halfHand(hand, n, card, state)
           IN  half \in Hands /\ half.stake = hand.stake /\ half.state = state
<1> DEFINE p == <<hand.cards[n], card>>
           aces == hand.cards = <<1, 1>>
<1>1. hand.cards \in Seq(Ranks) /\ n \in DOMAIN hand.cards
  BY HandFields, ListFacts
<1>2. hand.cards[n] \in Ranks
  BY <1>1, ListFacts
<1>3. p \in Seq(Ranks) /\ aces \in BOOLEAN
  BY <1>2
<1> HIDE DEF p, aces
<1>4. LET half == [hand EXCEPT !.cards = p, !.state = state, !.splitFromAces = aces]
      IN  half \in Hands /\ half.stake = hand.stake /\ half.state = state
  BY <1>3 DEF Hands
<1> QED
  BY <1>4 DEF p, aces, halfHand

splitGame(g, first, second) == [g EXCEPT !.hands = splitAt(@, g.turn, first, second)]

\* The two halves of a pair; only the first is on turn.
LEMMA SplitGoesOn ==
    ASSUME NEW g \in GameRows, inTurn(g), NEW balance, Len(g.hands) < MaxSplitHands,
           g.total = stakesOf(g.hands) + g.hands[g.turn].stake,
           NEW first \in Hands, first.stake = g.hands[g.turn].stake,
           NEW second \in Hands, second.stake = g.hands[g.turn].stake,
           second.state = "waiting"
    PROVE  gameGoesOn(advanceResolvableHands(splitGame(g, first, second), g.turn, balance), g)
<1> DEFINE i == g.turn
           s == g.hands
           hands == splitAt(s, i, first, second)
           x == [g EXCEPT !.hands = hands]
<1>1. s \in Seq(Hands) /\ i \in DOMAIN s /\ i \in Nat /\ i > 0 /\ s[i] \in Hands
  BY GameFields, ListFacts DEF inTurn
<1>0. /\ \A j \in DOMAIN s \ {i} : s[j].state # "active"
      /\ Len(s) < MaxSplitHands /\ g.total = stakesOf(s) + s[i].stake
      /\ first.stake = s[i].stake /\ second.stake = s[i].stake
  BY DEF inTurn
<1>2. i \in Nat \ {0}
  BY <1>1
<1> HIDE DEF i, s
<1>3. /\ hands \in Seq(Hands) /\ Len(hands) = Len(s) + 1
      /\ DOMAIN hands = 1..(Len(s) + 1)
      /\ hands[i] = first /\ hands[i + 1] = second
      /\ \A j \in DOMAIN s : j < i => hands[j] = s[j]
      /\ \A j \in DOMAIN s : j > i => hands[j + 1] = s[j]
  <2>1. isSplit(hands, Hands, s, i, first, second)
    BY <1>1, ListSplit
  <2> HIDE DEF hands
  <2> QED
    BY <2>1 DEF isSplit
<1>4. stakesOf(hands) = g.total
  BY <1>0, <1>1, StakesSplit
<1>5. Len(hands) <= MaxSplitHands
  <2>1. Len(s) \in Nat /\ MaxSplitHands \in Int
    BY <1>1, ListFacts, BlackjackAssumption
  <2> QED
    BY <1>0, <1>3, <2>1
<1> HIDE DEF hands
<1>6. \A j \in DOMAIN hands \ {i} : hands[j].state # "active"
  <2> TAKE j \in DOMAIN hands \ {i}
  <2>2. Len(s) \in Nat /\ DOMAIN s = 1..Len(s)
    BY <1>1, ListFacts
  <2>3. CASE j < i
    <3>1. j \in DOMAIN s \ {i}
      BY <1>1, <1>3, <2>2, <2>3
    <3> QED
      BY <1>0, <1>3, <2>3, <3>1
  <2>4. CASE j = i + 1
    BY <1>3, <2>4
  <2>5. CASE j > i + 1
    <3>1. j - 1 \in DOMAIN s \ {i} /\ j - 1 > i /\ (j - 1) + 1 = j
      BY <1>1, <1>3, <2>2, <2>5
    <3>2. hands[j] = s[j - 1]
      BY <1>3, <3>1
    <3> QED
      BY <1>0, <3>1, <3>2
  <2> QED
    BY <1>1, <1>3, <2>2, <2>3, <2>4, <2>5
<1>7. x \in GameRows /\ sameGame(x, g) /\ x.total = g.total /\ x.hands = hands
  BY <1>3 DEF GameRows, sameGame
<1> HIDE DEF x
<1> DEFINE r == advanceResolvableHands(x, i, balance)
<1>8. /\ r \in GameRows /\ sameGame(r, x) /\ r.total = x.total
      /\ Len(r.hands) = Len(x.hands) /\ stakesOf(r.hands) = stakesOf(x.hands)
      /\ r.turn # 0 => waitsForHand(r)
  BY <1>2, <1>6, <1>7, Advanced
<1>9. sameGame(r, g)
  BY <1>7, <1>8 DEF sameGame
<1> HIDE DEF r
<1>10. gameGoesOn(r, g)
  BY <1>4, <1>5, <1>7, <1>8, <1>9 DEF gameGoesOn
<1> QED
  BY <1>10 DEF r, x, hands, s, i, splitGame

-----------------------------------------------------------------------------
(* The list of games *)

LEMMA TotalsUpdated ==
    ASSUME NEW rows \in Seq(GameRows), NEW k \in DOMAIN rows, NEW g \in GameRows
    PROVE  LET new == [rows EXCEPT ![k] = g]
           IN  /\ totalsOf(new) = totalsOf(rows) + g.total - rows[k].total
               /\ payoutsOf(new) = payoutsOf(rows) + g.payout - rows[k].payout
<1> DEFINE new == [rows EXCEPT ![k] = g]
           f == [j \in DOMAIN rows |-> rows[j].total]
           e == [j \in DOMAIN new |-> new[j].total]
           q == [j \in DOMAIN rows |-> rows[j].payout]
           p == [j \in DOMAIN new |-> new[j].payout]
<1>1. /\ DOMAIN new = DOMAIN rows /\ IsFiniteSet(DOMAIN rows)
      /\ new[k] = g /\ \A j \in DOMAIN rows \ {k} : new[j] = rows[j]
  BY ListFacts, ListUpdate
<1> HIDE DEF new
<1>2. \A j \in DOMAIN rows : rows[j] \in GameRows /\ new[j] \in GameRows
  <2>1. \A j \in DOMAIN rows : rows[j] \in GameRows
    BY ListFacts
  <2> QED
    BY <1>1, <2>1
<1>3. \A j \in DOMAIN rows : /\ rows[j].total \in Int /\ new[j].total \in Int
                             /\ rows[j].payout \in Int /\ new[j].payout \in Int
  BY <1>2, GameFields
<1>4. \A j \in DOMAIN rows : /\ f[j] = rows[j].total /\ e[j] = new[j].total
                             /\ q[j] = rows[j].payout /\ p[j] = new[j].payout
  BY <1>1
<1>5. /\ totalsOf(rows) = SumFunctionOnSet(f, DOMAIN rows)
      /\ totalsOf(new) = SumFunctionOnSet(e, DOMAIN new)
      /\ payoutsOf(rows) = SumFunctionOnSet(q, DOMAIN rows)
      /\ payoutsOf(new) = SumFunctionOnSet(p, DOMAIN new)
  BY DEF totalsOf, payoutsOf
<1> HIDE DEF f, e, q, p
<1>6. SumFunctionOnSet(e, DOMAIN rows) = SumFunctionOnSet(f, DOMAIN rows) + e[k] - f[k]
  <2>1. \A j \in DOMAIN rows : f[j] \in Int /\ e[j] \in Int
    BY <1>3, <1>4
  <2>2. \A j \in DOMAIN rows \ {k} : e[j] = f[j]
    BY <1>1, <1>4
  <2> QED
    BY <1>1, <2>1, <2>2, SumOfUpdate
<1>7. SumFunctionOnSet(p, DOMAIN rows) = SumFunctionOnSet(q, DOMAIN rows) + p[k] - q[k]
  <2>1. \A j \in DOMAIN rows : q[j] \in Int /\ p[j] \in Int
    BY <1>3, <1>4
  <2>2. \A j \in DOMAIN rows \ {k} : p[j] = q[j]
    BY <1>1, <1>4
  <2> QED
    BY <1>1, <2>1, <2>2, SumOfUpdate
<1> QED
  BY <1>1, <1>4, <1>5, <1>6, <1>7 DEF new

LEMMA TotalsAppended ==
    ASSUME NEW rows \in Seq(GameRows), NEW g \in GameRows
    PROVE  LET new == Append(rows, g)
           IN  /\ totalsOf(new) = totalsOf(rows) + g.total
               /\ payoutsOf(new) = payoutsOf(rows) + g.payout
<1> DEFINE new == Append(rows, g)
           D == DOMAIN rows
           k == Len(rows) + 1
           f == [j \in DOMAIN rows |-> rows[j].total]
           e == [j \in DOMAIN new |-> new[j].total]
           q == [j \in DOMAIN rows |-> rows[j].payout]
           p == [j \in DOMAIN new |-> new[j].payout]
<1>1. /\ DOMAIN new = D \cup {k} /\ k \notin D /\ IsFiniteSet(D)
      /\ new[k] = g /\ \A j \in D : new[j] = rows[j]
  BY ListFacts, ListAppend
<1> HIDE DEF new, k
<1>2. \A j \in D : rows[j] \in GameRows
  BY ListFacts
<1>3. /\ \A j \in D : rows[j].total \in Int /\ rows[j].payout \in Int
      /\ g.total \in Int /\ g.payout \in Int
  BY <1>2, GameFields
<1>4. /\ \A j \in D : f[j] = rows[j].total /\ q[j] = rows[j].payout
      /\ \A j \in D : e[j] = rows[j].total /\ p[j] = rows[j].payout
      /\ e[k] = g.total /\ p[k] = g.payout
  BY <1>1
<1>5. /\ totalsOf(rows) = SumFunctionOnSet(f, DOMAIN rows)
      /\ totalsOf(new) = SumFunctionOnSet(e, DOMAIN new)
      /\ payoutsOf(rows) = SumFunctionOnSet(q, DOMAIN rows)
      /\ payoutsOf(new) = SumFunctionOnSet(p, DOMAIN new)
  BY DEF totalsOf, payoutsOf
<1> HIDE DEF f, e, q, p
<1>6. SumFunctionOnSet(e, DOMAIN new) = g.total + SumFunctionOnSet(f, D)
  <2> HIDE DEF D
  <2>1. \A j \in D \cup {k} : e[j] \in Int
    BY <1>3, <1>4
  <2>2. SumFunctionOnSet(e, D \cup {k}) = e[k] + SumFunctionOnSet(e, D)
    BY <1>1, <2>1, SumWith
  <2>3. SumFunctionOnSet(e, D) = SumFunctionOnSet(f, D)
    BY <1>1, <1>4, SumOfEqual
  <2> QED
    BY <1>1, <1>4, <2>2, <2>3
<1>7. SumFunctionOnSet(p, DOMAIN new) = g.payout + SumFunctionOnSet(q, D)
  <2> HIDE DEF D
  <2>1. \A j \in D \cup {k} : p[j] \in Int
    BY <1>3, <1>4
  <2>2. SumFunctionOnSet(p, D \cup {k}) = p[k] + SumFunctionOnSet(p, D)
    BY <1>1, <2>1, SumWith
  <2>3. SumFunctionOnSet(p, D) = SumFunctionOnSet(q, D)
    BY <1>1, <1>4, SumOfEqual
  <2> QED
    BY <1>1, <1>4, <2>2, <2>3
<1>8. \A x, y, z \in Int : x = y + z => x = z + y
  OBVIOUS
<1>9. SumFunctionOnSet(f, D) \in Int /\ SumFunctionOnSet(q, D) \in Int
  <2>1. \A j \in D : f[j] \in Int /\ q[j] \in Int
    BY <1>3, <1>4
  <2> HIDE DEF D
  <2> QED
    BY <1>1, <2>1, SumIsInt
<1> QED
  BY <1>3, <1>5, <1>6, <1>7, <1>9 DEF new

\* How many games paid out.
LEMMA PaidUpdated ==
    ASSUME NEW rows \in Seq(GameRows), NEW k \in DOMAIN rows, NEW g \in GameRows,
           rows[k].payout = 0
    PROVE  LET new == [rows EXCEPT ![k] = g]
           IN  /\ Cardinality(paidIn(rows)) \in Nat
               /\ Cardinality(paidIn(new))
                    = Cardinality(paidIn(rows)) + IF g.payout > 0 THEN 1 ELSE 0
<1> DEFINE new == [rows EXCEPT ![k] = g]
<1>1. /\ DOMAIN new = DOMAIN rows /\ IsFiniteSet(DOMAIN rows)
      /\ new[k] = g /\ \A j \in DOMAIN rows \ {k} : new[j] = rows[j]
  BY ListFacts, ListUpdate
<1> HIDE DEF new
<1>2. paidIn(new) = paidIn(rows) \cup (IF g.payout > 0 THEN {k} ELSE {}) /\ k \notin paidIn(rows)
  BY <1>1 DEF paidIn
<1>3. IsFiniteSet(paidIn(rows))
  BY <1>1, FS_Subset DEF paidIn
<1> DEFINE P == paidIn(rows)
<1>4. Cardinality(P) \in Nat /\ Cardinality(P \cup {k}) = Cardinality(P) + 1
  BY <1>2, <1>3, FS_AddElement, FS_CardinalityType
<1>5. paidIn(new) = IF g.payout > 0 THEN P \cup {k} ELSE P
  BY <1>2
<1> HIDE DEF P
<1>6. Cardinality(paidIn(new)) = Cardinality(P) + IF g.payout > 0 THEN 1 ELSE 0
  BY <1>4, <1>5
<1> QED
  BY <1>4, <1>6 DEF new, P

LEMMA PaidAppended ==
    ASSUME NEW rows \in Seq(GameRows), NEW g \in GameRows, g.payout = 0
    PROVE  paidIn(Append(rows, g)) = paidIn(rows)
<1> DEFINE new == Append(rows, g)
           k == Len(rows) + 1
<1>1. /\ DOMAIN new = DOMAIN rows \cup {k} /\ k \notin DOMAIN rows
      /\ new[k] = g /\ \A j \in DOMAIN rows : new[j] = rows[j]
  BY ListFacts, ListAppend
<1> HIDE DEF new, k
<1>2. paidIn(new) = paidIn(rows)
  BY <1>1 DEF paidIn
<1> QED
  BY <1>2 DEF new

LEMMA PaidAreFinite ==
    ASSUME NEW rows \in Seq(GameRows)
    PROVE  Cardinality(paidIn(rows)) \in Nat
<1>1. IsFiniteSet(DOMAIN rows)
  BY ListFacts
<1>2. IsFiniteSet(paidIn(rows))
  BY <1>1, FS_Subset DEF paidIn
<1> QED
  BY <1>2, FS_CardinalityType

LEMMA TotalsAreInt ==
    ASSUME NEW rows \in Seq(GameRows)
    PROVE  totalsOf(rows) \in Int /\ payoutsOf(rows) \in Int
<1> DEFINE f == [j \in DOMAIN rows |-> rows[j].total]
           q == [j \in DOMAIN rows |-> rows[j].payout]
<1>1. IsFiniteSet(DOMAIN rows) /\ \A j \in DOMAIN rows : rows[j] \in GameRows
  BY ListFacts
<1>2. \A j \in DOMAIN rows : f[j] \in Int /\ q[j] \in Int
  BY <1>1, GameFields
<1> HIDE DEF f, q
<1>3. SumFunctionOnSet(f, DOMAIN rows) \in Int /\ SumFunctionOnSet(q, DOMAIN rows) \in Int
  BY <1>1, <1>2, SumIsInt
<1> QED
  BY <1>3 DEF totalsOf, payoutsOf, f, q

LEMMA ActiveUpdated ==
    ASSUME NEW rows \in Seq(GameRows), NEW k \in DOMAIN rows, NEW g \in GameRows
    PROVE  LET new == [rows EXCEPT ![k] = g]
           IN  /\ g.status # "active" => active(new) = active(rows) \ {k}
               /\ g.status = "active" /\ k \in active(rows) => active(new) = active(rows)
               /\ onlyStandard(new) /\ g.mode = rows[k].mode => onlyStandard(rows)
               /\ onlyStandard(rows) /\ g.mode = rows[k].mode => onlyStandard(new)
<1> DEFINE new == [rows EXCEPT ![k] = g]
<1>1. DOMAIN new = DOMAIN rows /\ new[k] = g /\ \A j \in DOMAIN rows \ {k} : new[j] = rows[j]
  BY ListUpdate
<1> HIDE DEF new
<1>2. \A j \in DOMAIN rows : new[j] = IF j = k THEN g ELSE rows[j]
  BY <1>1
<1>3. /\ g.status # "active" => active(new) = active(rows) \ {k}
      /\ g.status = "active" /\ k \in active(rows) => active(new) = active(rows)
  BY <1>1, <1>2 DEF active
<1>4. g.mode = rows[k].mode => \A j \in DOMAIN rows : new[j].mode = rows[j].mode
  BY <1>2
<1>5. /\ onlyStandard(new) /\ g.mode = rows[k].mode => onlyStandard(rows)
      /\ onlyStandard(rows) /\ g.mode = rows[k].mode => onlyStandard(new)
  BY <1>1, <1>4 DEF onlyStandard
<1> QED
  BY <1>3, <1>5 DEF new

\* A game that goes on or ends under its mode keeps its session.
LEMMA LinkedUpdated ==
    ASSUME NEW rows, NEW played \in Seq(GameRows), Linked(rows, played),
           NEW k \in active(played), NEW g \in GameRows, g.mode = played[k].mode
    PROVE  Linked(rows, [played EXCEPT ![k] = g])
<1> DEFINE new == [played EXCEPT ![k] = g]
<1>1. k \in DOMAIN played
  BY DEF active
<1>2. /\ DOMAIN new = DOMAIN played /\ Len(new) = Len(played) /\ new[k] = g
      /\ \A j \in DOMAIN played \ {k} : new[j] = played[j]
  BY <1>1, ListUpdate
<1> HIDE DEF new
<1>3. \A j \in active(new) : j \in active(played) /\ new[j].mode = played[j].mode
  BY <1>2 DEF active
<1>4. Followed(rows, new)
  BY <1>3 DEF Linked, Followed, follows
<1>5. References(rows, new)
  BY <1>2 DEF Linked, References
<1> QED
  BY <1>4, <1>5 DEF Linked, new

-----------------------------------------------------------------------------
(* The list of sessions *)

LEMMA SessionFields ==
    ASSUME NEW s \in SessionRows
    PROVE  /\ s.mode \in Modes /\ s.status \in {"active", "settled", "cancelled"}
           /\ s.parent \in Nat /\ s.game \in Nat /\ s.snapshot \in Snapshots
BY DEF SessionRows

endedGame(s, status, snapshot) == [s EXCEPT !.status = status, !.snapshot = snapshot]

endIn(rows, i, status, snapshot) == [rows EXCEPT ![i] = endedGame(rows[i], status, snapshot)]

LEMMA EndedSession ==
    ASSUME NEW s \in SessionRows, NEW status \in {"settled", "cancelled"},
           NEW snapshot \in Snapshots
    PROVE  LET e == endedGame(s, status, snapshot)
           IN  /\ e \in SessionRows /\ e.mode = s.mode /\ e.parent = s.parent /\ e.game = s.game
               /\ e.status = status /\ e.snapshot = snapshot
BY DEF SessionRows, endedGame

(***************************************************************************)
(* What the others' transactions keep of the sessions in old, those of X   *)
(* aside: a session without a game and without children keeps its status.  *)
(***************************************************************************)
KeepsGames(old, new, X) ==
    /\ DOMAIN old \subseteq DOMAIN new
    /\ \A i \in DOMAIN old : new[i].mode = old[i].mode /\ new[i].parent = old[i].parent
    /\ \A i \in DOMAIN old \ X :
        /\ new[i].game = old[i].game
        /\ isParent(new, i) => isParent(old, i)
        /\ old[i].game = 0 /\ ~isParent(old, i) => new[i].status = old[i].status

\* What is changed of a session when it ends.
OneEnds(old, new, i, status) ==
    /\ new \in Seq(SessionRows) /\ DOMAIN new = DOMAIN old
    /\ \A j \in DOMAIN old :
        /\ new[j].mode = old[j].mode /\ new[j].parent = old[j].parent
        /\ new[j].game = old[j].game
        /\ new[j].snapshot.type = new[j].mode
    /\ new[i].status = status
    /\ \A j \in DOMAIN old \ {i} : new[j] = old[j]

LEMMA SessionEnded ==
    ASSUME NEW old \in Seq(SessionRows), NEW played, References(old, played),
           NEW i \in DOMAIN old, NEW status \in {"settled", "cancelled"},
           NEW snapshot \in Snapshots, snapshot.type = old[i].mode
    PROVE  LET new == endIn(old, i, status, snapshot)
           IN  /\ OneEnds(old, new, i, status)
               /\ References(new, played)
               /\ new[i].snapshot = snapshot
               /\ \A p : isParent(new, p) <=> isParent(old, p)
<1> DEFINE e == endedGame(old[i], status, snapshot)
           new == [old EXCEPT ![i] = e]
<1>1. old[i] \in SessionRows
  BY ListFacts
<1>2. /\ e \in SessionRows /\ e.mode = old[i].mode /\ e.parent = old[i].parent
      /\ e.game = old[i].game /\ e.status = status /\ e.snapshot = snapshot
  BY <1>1, EndedSession
<1> HIDE DEF e
<1>3. /\ new \in Seq(SessionRows) /\ DOMAIN new = DOMAIN old
      /\ new[i] = e /\ \A j \in DOMAIN old \ {i} : new[j] = old[j]
  BY <1>2, ListUpdate
<1> HIDE DEF new
<1>4. \A j \in DOMAIN old :
        /\ new[j].mode = old[j].mode /\ new[j].parent = old[j].parent
        /\ new[j].game = old[j].game
        /\ new[j].snapshot.type = new[j].mode
  <2> TAKE j \in DOMAIN old
  <2>1. CASE j = i
    BY <1>2, <1>3, <2>1
  <2>2. CASE j # i
    BY <1>3, <2>2 DEF References
  <2> QED
    BY <2>1, <2>2
<1>5. OneEnds(old, new, i, status)
  BY <1>2, <1>3, <1>4 DEF OneEnds
<1>6. \A j \in DOMAIN old : old[j].parent # 0 => old[j].parent \in DOMAIN old
  <2> TAKE j \in DOMAIN old
  <2>1. DOMAIN old = 1..Len(old) /\ Len(old) \in Nat /\ j \in Nat
    BY ListFacts
  <2>2. old[j].parent \in 0..(j - 1)
    BY DEF References
  <2> QED
    BY <2>1, <2>2
<1>7. References(new, played)
  <2>1. ASSUME NEW j \in DOMAIN old
        PROVE  /\ new[j].snapshot.type = new[j].mode
               /\ new[j].game \in 0..Len(played)
               /\ new[j].parent \in 0..(j - 1)
               /\ new[j].parent # 0 =>
                    new[new[j].parent].parent = 0 /\ new[new[j].parent].game = 0
    <3>1. /\ old[j].game \in 0..Len(played) /\ old[j].parent \in 0..(j - 1)
          /\ old[j].parent # 0 =>
                old[old[j].parent].parent = 0 /\ old[old[j].parent].game = 0
      BY DEF References
    <3>2. new[j].parent = old[j].parent /\ new[j].game = old[j].game
          /\ new[j].snapshot.type = new[j].mode
      BY <1>4
    <3>3. old[j].parent # 0 => new[old[j].parent].parent = 0 /\ new[old[j].parent].game = 0
      BY <1>4, <1>6, <3>1
    <3> QED
      BY <3>1, <3>2, <3>3
  <2>2. \A j, m \in DOMAIN old : j # m /\ new[j].game = new[m].game => new[j].game = 0
    BY <1>4 DEF References
  <2> QED
    BY <1>3, <2>1, <2>2 DEF References
<1>8. \A p : isParent(new, p) <=> isParent(old, p)
  BY <1>3, <1>4 DEF isParent
<1> QED
  BY <1>2, <1>3, <1>5, <1>7, <1>8 DEF new, e, endIn

LEMMA ParentFacts ==
    ASSUME NEW rows \in Seq(SessionRows), NEW played, References(rows, played),
           NEW i \in DOMAIN rows, rows[i].parent # 0
    PROVE  LET p == rows[i].parent
           IN  /\ p \in DOMAIN rows /\ p # i
               /\ rows[p].parent = 0 /\ rows[p].game = 0 /\ isParent(rows, p)
<1>1. DOMAIN rows = 1..Len(rows) /\ Len(rows) \in Nat /\ i \in Nat /\ i > 0
  BY ListFacts
<1>2. rows[i].parent \in 0..(i - 1)
  BY DEF References
<1>3. rows[rows[i].parent].parent = 0 /\ rows[rows[i].parent].game = 0
  BY DEF References
<1> QED
  BY <1>1, <1>2, <1>3 DEF isParent

\* A session outside of a dual bet ends with its game or without one.
LEMMA SingleEnds ==
    ASSUME NEW old \in Seq(SessionRows), NEW played, Linked(old, played),
           NEW i \in DOMAIN old, NEW status \in {"settled", "cancelled"},
           NEW snapshot \in Snapshots, snapshot.type = old[i].mode,
           old[i].parent = 0, ~isParent(old, i), old[i].game \notin active(played)
    PROVE  LET new == endIn(old, i, status, snapshot)
           IN  /\ new \in Seq(SessionRows) /\ Linked(new, played)
               /\ KeepsGames(old, new, {i})
               /\ old[i].game # 0 => KeepsGames(old, new, {})
<1> DEFINE new == endIn(old, i, status, snapshot)
<1>1. /\ OneEnds(old, new, i, status) /\ References(new, played)
      /\ \A p : isParent(new, p) <=> isParent(old, p)
  BY SessionEnded DEF Linked
<1> HIDE DEF new
<1>2. Followed(new, played)
  <2> SUFFICES ASSUME NEW k \in active(played)
               PROVE  \E j \in DOMAIN new : follows(new[j], k, played[k])
    BY DEF Followed
  <2>1. PICK j \in DOMAIN old : follows(old[j], k, played[k])
    BY DEF Linked, Followed
  <2>2. j # i
    BY <2>1 DEF follows
  <2>3. j \in DOMAIN new /\ new[j] = old[j]
    BY <1>1, <2>2 DEF OneEnds
  <2> QED
    BY <2>1, <2>3
<1>3. Families(new)
  <2> SUFFICES ASSUME NEW p \in DOMAIN new, isParent(new, p)
               PROVE  new[p].status = "active" <=>
                        \E j \in DOMAIN new : new[j].parent = p /\ new[j].status = "active"
    BY DEF Families
  <2>1. p # i /\ p \in DOMAIN old /\ new[p] = old[p] /\ isParent(old, p)
    BY <1>1 DEF OneEnds
  <2>2. old[p].status = "active" <=>
            \E j \in DOMAIN old : old[j].parent = p /\ old[j].status = "active"
    BY <2>1 DEF Linked, Families
  <2>3. p # 0
    BY <2>1, ListFacts
  <2>4. \A j \in DOMAIN old : new[j].parent = old[j].parent
                              /\ (old[j].parent = p => new[j] = old[j])
    BY <1>1, <2>3 DEF OneEnds
  <2> QED
    BY <1>1, <2>1, <2>2, <2>4 DEF OneEnds
<1>4. KeepsGames(old, new, {i}) /\ (old[i].game # 0 => KeepsGames(old, new, {}))
  BY <1>1 DEF OneEnds, KeepsGames
<1>5. new \in Seq(SessionRows) /\ Linked(new, played)
  BY <1>1, <1>2, <1>3 DEF Linked, OneEnds
<1> QED
  BY <1>4, <1>5 DEF new

\* A leg of a dual bet ends with its game, and its parent with the last leg.
LEMMA LegEnds ==
    ASSUME NEW old \in Seq(SessionRows), NEW played \in Seq(GameRows), Linked(old, played),
           NEW i \in DOMAIN old, NEW snapshot \in Snapshots, snapshot.type = old[i].mode,
           old[i].parent # 0, old[i].game # 0, old[i].game \notin active(played),
           NEW last \in Snapshots, last.type = old[old[i].parent].mode
    PROVE  LET p == old[i].parent
               new == endIn(old, i, "settled", snapshot)
               both == endIn(new, p, "settled", last)
               open == \E j \in DOMAIN new : new[j].parent = p /\ new[j].status = "active"
           IN  /\ open => /\ new \in Seq(SessionRows) /\ Linked(new, played)
                          /\ KeepsGames(old, new, {})
               /\ ~open => /\ both \in Seq(SessionRows) /\ Linked(both, played)
                           /\ KeepsGames(old, both, {})
<1> DEFINE p == old[i].parent
           new == endIn(old, i, "settled", snapshot)
           both == endIn(new, p, "settled", last)
           open == \E j \in DOMAIN new : new[j].parent = p /\ new[j].status = "active"
<1>1. /\ p \in DOMAIN old /\ p # i /\ old[p].parent = 0 /\ old[p].game = 0
      /\ isParent(old, p)
  BY ParentFacts DEF Linked
<1>2. p # 0
  OBVIOUS
<1>3. /\ OneEnds(old, new, i, "settled") /\ References(new, played)
      /\ \A q : isParent(new, q) <=> isParent(old, q)
  BY SessionEnded DEF Linked
<1> HIDE DEF new
<1>4. new \in Seq(SessionRows) /\ DOMAIN new = DOMAIN old /\ new[p] = old[p]
  BY <1>1, <1>3 DEF OneEnds
<1>5. /\ OneEnds(new, both, p, "settled") /\ References(both, played)
      /\ \A q : isParent(both, q) <=> isParent(new, q)
  <2>1. last.type = new[p].mode
    BY <1>4
  <2> HIDE DEF p
  <2> QED
    BY <1>1, <1>3, <1>4, <2>1, SessionEnded
<1> HIDE DEF p, both
<1>0. /\ Followed(old, played) /\ Families(old)
      /\ old[i].game \notin active(played) /\ old[i].parent = p /\ old[i].game # 0
  BY DEF Linked, p
<1>6. ~isParent(old, i)
  <2> SUFFICES ASSUME isParent(old, i) PROVE FALSE
    OBVIOUS
  <2>1. PICK j \in DOMAIN old : old[j].parent = i
    BY DEF isParent
  <2>2. i # 0
    BY ListFacts
  <2> QED
    BY <1>0, <2>1, <2>2, ParentFacts DEF Linked
<1>7. Followed(new, played) /\ Followed(both, played)
  <2>1. ASSUME NEW k \in active(played)
        PROVE  /\ \E j \in DOMAIN new : follows(new[j], k, played[k])
               /\ \E j \in DOMAIN both : follows(both[j], k, played[k])
    <3>1. PICK j \in DOMAIN old : follows(old[j], k, played[k])
      BY <1>0 DEF Followed
    <3>2. k # 0
      BY ListFacts DEF active
    <3>3. j # i /\ j # p
      BY <1>0, <1>1, <3>1, <3>2 DEF follows
    <3>4. new[j] = old[j] /\ j \in DOMAIN new /\ j \in DOMAIN both /\ both[j] = new[j]
      BY <1>3, <1>5, <3>3 DEF OneEnds
    <3> QED
      BY <3>1, <3>4
  <2> QED
    BY <2>1 DEF Followed
<1>8. \A q \in DOMAIN old : q # 0
  BY ListFacts
<1>9. /\ new[i].status = "settled" /\ both[p].status = "settled"
      /\ \A j \in DOMAIN old : new[j].parent = old[j].parent /\ both[j].parent = old[j].parent
      /\ \A j \in DOMAIN old \ {i} : new[j] = old[j]
      /\ \A j \in DOMAIN old \ {p} : both[j] = new[j]
      /\ DOMAIN both = DOMAIN old
  BY <1>3, <1>4, <1>5 DEF OneEnds
\* The legs that go on, before and after.
<1> DEFINE runs(rows, q) == \E j \in DOMAIN rows : rows[j].parent = q /\ rows[j].status = "active"
<1>10. ASSUME NEW q \in DOMAIN old, isParent(old, q)
       PROVE  old[q].status = "active" <=> runs(old, q)
  BY <1>0, <1>10 DEF Families
<1>11. ASSUME NEW q \in DOMAIN old, isParent(old, q), q # p
       PROVE  /\ new[q].status = "active" <=> runs(new, q)
              /\ both[q].status = "active" <=> runs(both, q)
  <2>1. q # i /\ new[q] = old[q] /\ both[q] = new[q]
    BY <1>6, <1>9, <1>11
  <2>2. \A j \in DOMAIN old : old[j].parent = q => new[j] = old[j] /\ both[j] = old[j]
    BY <1>0, <1>1, <1>8, <1>9, <1>11
  <2>3. runs(new, q) <=> runs(old, q)
    BY <1>4, <1>9, <2>2
  <2>4. runs(both, q) <=> runs(old, q)
    BY <1>9, <2>2
  <2> QED
    BY <1>10, <1>11, <2>1, <2>3, <2>4
<1>12. runs(new, p) => (new[p].status = "active" <=> runs(new, p))
  <2> SUFFICES ASSUME runs(new, p) PROVE new[p].status = "active"
    OBVIOUS
  <2>1. PICK j \in DOMAIN new : new[j].parent = p /\ new[j].status = "active"
    OBVIOUS
  <2>2. j # i /\ j \in DOMAIN old /\ new[j] = old[j]
    BY <1>4, <1>9, <2>1
  <2>3. runs(old, p)
    BY <2>1, <2>2
  <2> QED
    BY <1>1, <1>4, <1>10, <2>3
<1>13. ~runs(new, p) => (both[p].status = "active" <=> runs(both, p))
  <2> SUFFICES ASSUME ~runs(new, p), NEW j \in DOMAIN both, both[j].parent = p,
                      both[j].status = "active"
               PROVE  FALSE
    BY <1>9
  <2>1. j \in DOMAIN new /\ j # p /\ both[j] = new[j]
    BY <1>4, <1>9
  <2> QED
    BY <2>1
<1>14. open => Families(new)
  <2>1. open <=> runs(new, p)
    OBVIOUS
  <2> QED
    BY <1>3, <1>4, <1>11, <1>12, <2>1 DEF Families
<1>15. ~open => Families(both)
  <2>1. open <=> runs(new, p)
    OBVIOUS
  <2> QED
    BY <1>3, <1>5, <1>9, <1>11, <1>13, <2>1 DEF Families
<1>16. KeepsGames(old, new, {}) /\ KeepsGames(old, both, {})
  <2>1. \A j \in DOMAIN old :
            /\ new[j].mode = old[j].mode /\ new[j].parent = old[j].parent
            /\ both[j].mode = old[j].mode /\ both[j].parent = old[j].parent
            /\ new[j].game = old[j].game /\ both[j].game = old[j].game
    BY <1>3, <1>4, <1>5 DEF OneEnds
  <2>2. \A j \in DOMAIN old : old[j].game = 0 /\ ~isParent(old, j) => new[j] = old[j] /\ both[j] = old[j]
    BY <1>0, <1>1, <1>9
  <2> QED
    BY <1>3, <1>4, <1>5, <1>9, <2>1, <2>2 DEF KeepsGames
<1>17. both \in Seq(SessionRows)
  BY <1>5 DEF OneEnds
<1> HIDE DEF open
<1>18. /\ open => Linked(new, played) /\ new \in Seq(SessionRows) /\ KeepsGames(old, new, {})
       /\ ~open => Linked(both, played) /\ both \in Seq(SessionRows) /\ KeepsGames(old, both, {})
  BY <1>3, <1>4, <1>5, <1>7, <1>14, <1>15, <1>16, <1>17 DEF Linked
<1> QED
  BY <1>18 DEF open, both, new, p

-----------------------------------------------------------------------------
(* What the transactions do to the rows *)

LEMMA RowsFields ==
    ASSUME NEW b \in Rows
    PROVE  /\ b.preference \in Snapshots /\ b.sessions \in Seq(SessionRows)
           /\ b.deferred \in [Modes -> Nat] /\ b.games \in Seq(GameRows)
           /\ b.funds \in Nat /\ b.bank \in Int
BY DEF Rows

LEMMA SnapshotFields ==
    /\ \A s \in Snapshots : s.type \in Modes /\ s.pending \in Nat
    /\ \A m \in Modes, n \in Nat : [type |-> m, pending |-> n] \in Snapshots
    /\ \A m \in Modes : /\ createDefaultPlayModeSnapshot(m) \in Snapshots
                        /\ createDefaultPlayModeSnapshot(m).type = m
BY DEF Snapshots, createDefaultPlayModeSnapshot

LEMMA ModesFinite == IsFiniteSet(Modes)
<1>1. IsFiniteSet({"standard", "dual_bet", "deferred_double", "snowball"})
  <2>1. IsFiniteSet({"standard"})
    BY FS_Singleton
  <2>2. IsFiniteSet({"standard"} \cup {"dual_bet"})
    BY <2>1, FS_AddElement
  <2>3. IsFiniteSet(({"standard"} \cup {"dual_bet"}) \cup {"deferred_double"})
    BY <2>2, FS_AddElement
  <2>4. IsFiniteSet((({"standard"} \cup {"dual_bet"}) \cup {"deferred_double"}) \cup {"snowball"})
    BY <2>3, FS_AddElement
  <2>5. (({"standard"} \cup {"dual_bet"}) \cup {"deferred_double"}) \cup {"snowball"}
            = {"standard", "dual_bet", "deferred_double", "snowball"}
    OBVIOUS
  <2> QED
    BY <2>4, <2>5
<1> QED
  BY <1>1, ModesAssumption, FS_Subset

\* Money moves between the wallet, the pool and what the modes hold back.
Moved(c, b) ==
    /\ c \in Rows
    /\ c.preference = b.preference /\ c.sessions = b.sessions /\ c.games = b.games
    /\ c.funds + heldOf(c.deferred) = b.funds + heldOf(b.deferred)
    /\ c.funds + c.bank = b.funds + b.bank

LEMMA HeldIsInt ==
    ASSUME NEW held \in [Modes -> Nat]
    PROVE  heldOf(held) \in Int
<1>1. \A m \in Modes : held[m] \in Int
  OBVIOUS
<1> QED
  BY <1>1, ModesFinite, SumIsInt DEF heldOf

LEMMA HeldUpdated ==
    ASSUME NEW held \in [Modes -> Nat], NEW mode \in Modes, NEW n \in Nat
    PROVE  LET new == [held EXCEPT ![mode] = n]
           IN  new \in [Modes -> Nat] /\ heldOf(new) = heldOf(held) + n - held[mode]
<1> DEFINE new == [held EXCEPT ![mode] = n]
<1>1. /\ \A m \in Modes : held[m] \in Int /\ new[m] \in Int
      /\ new[mode] = n /\ \A m \in Modes \ {mode} : new[m] = held[m]
  OBVIOUS
<1>2. new \in [Modes -> Nat]
  OBVIOUS
<1> HIDE DEF new
<1>3. SumFunctionOnSet(new, Modes) = SumFunctionOnSet(held, Modes) + new[mode] - held[mode]
  BY <1>1, ModesFinite, SumOfUpdate
<1> QED
  BY <1>1, <1>2, <1>3 DEF heldOf, new

LEMMA Withheld ==
    ASSUME NEW b \in Rows, NEW mode \in Modes, NEW amount \in Nat, amount <= b.funds
    PROVE  Moved(withholdDeferredPayout(b, mode, amount), b)
<1> DEFINE n == b.deferred[mode] + amount
           held == [b.deferred EXCEPT ![mode] = n]
<1>1. b.deferred \in [Modes -> Nat] /\ b.funds \in Nat /\ b.bank \in Int
  BY RowsFields
<1>2. n \in Nat /\ n = b.deferred[mode] + amount /\ b.deferred[mode] \in Nat
      /\ heldOf(b.deferred) \in Int
  BY <1>1, HeldIsInt
<1>3. held \in [Modes -> Nat] /\ heldOf(held) = heldOf(b.deferred) + amount
  <2> DEFINE t == heldOf(held)
             s == heldOf(b.deferred)
             m == b.deferred[mode]
  <2>1. held \in [Modes -> Nat] /\ t = s + n - m
    <3> HIDE DEF n
    <3> QED
      BY <1>1, <1>2, HeldUpdated
  <2>2. n = m + amount /\ m \in Nat /\ s \in Int
    BY <1>2
  <2> HIDE DEF t, s, m, n
  <2>3. t = s + amount
    BY <2>1, <2>2
  <2> QED
    BY <2>1, <2>3 DEF t, s
<1>4. withholdDeferredPayout(b, mode, amount)
        = [b EXCEPT !.funds = @ - amount, !.bank = @ + amount, !.deferred = held]
  BY DEF withholdDeferredPayout
<1> HIDE DEF held
<1> DEFINE c == [b EXCEPT !.funds = @ - amount, !.bank = @ + amount, !.deferred = held]
           left == b.bank + amount
           rich == b.funds - amount
<1>5. c = [b EXCEPT !.funds = rich, !.bank = left, !.deferred = held]
  OBVIOUS
<1>6. left \in Int /\ rich \in Nat
  BY <1>1
<1> HIDE DEF left, rich, c
<1>7. /\ c \in Rows /\ c.preference = b.preference /\ c.sessions = b.sessions
      /\ c.games = b.games /\ c.funds = rich /\ c.bank = left /\ c.deferred = held
  BY <1>3, <1>5, <1>6 DEF Rows
<1>8. /\ c.funds + heldOf(c.deferred) = b.funds + heldOf(b.deferred)
      /\ c.funds + c.bank = b.funds + b.bank
  BY <1>1, <1>2, <1>3, <1>7 DEF left, rich
<1>9. Moved(c, b)
  BY <1>7, <1>8 DEF Moved
<1> QED
  BY <1>4, <1>9 DEF c

LEMMA Released ==
    ASSUME NEW b \in Rows, NEW mode \in Modes
    PROVE  Moved(releasePendingDeferredPayoutsForMode(b, mode), b)
<1> DEFINE held == [b.deferred EXCEPT ![mode] = 0]
           amount == b.deferred[mode]
<1>1. b.deferred \in [Modes -> Nat] /\ b.funds \in Nat /\ b.bank \in Int
  BY RowsFields
<1>2. amount \in Nat /\ heldOf(b.deferred) \in Int
  BY <1>1, HeldIsInt
<1>3. held \in [Modes -> Nat] /\ heldOf(held) = heldOf(b.deferred) + 0 - amount
  BY <1>1, <1>2, HeldUpdated
<1>4. releasePendingDeferredPayoutsForMode(b, mode)
        = [b EXCEPT !.funds = @ + amount, !.bank = @ - amount, !.deferred = held]
  BY DEF releasePendingDeferredPayoutsForMode
<1> HIDE DEF held, amount
<1> DEFINE c == [b EXCEPT !.funds = @ + amount, !.bank = @ - amount, !.deferred = held]
           left == b.bank - amount
           rich == b.funds + amount
<1>5. c = [b EXCEPT !.funds = rich, !.bank = left, !.deferred = held]
  OBVIOUS
<1>6. left \in Int /\ rich \in Nat
  BY <1>1, <1>2
<1> HIDE DEF left, rich, c
<1>7. /\ c \in Rows /\ c.preference = b.preference /\ c.sessions = b.sessions
      /\ c.games = b.games /\ c.funds = rich /\ c.bank = left /\ c.deferred = held
  BY <1>3, <1>5, <1>6 DEF Rows
<1>8. /\ c.funds + heldOf(c.deferred) = b.funds + heldOf(b.deferred)
      /\ c.funds + c.bank = b.funds + b.bank
  BY <1>1, <1>2, <1>3, <1>7 DEF left, rich
<1>9. Moved(c, b)
  BY <1>7, <1>8 DEF Moved
<1> QED
  BY <1>4, <1>9 DEF c

LEMMA MovedTwice ==
    ASSUME NEW b, NEW c, NEW d, Moved(c, b), Moved(d, c)
    PROVE  Moved(d, b)
BY DEF Moved

\* What is left of a payout under its mode.
LEMMA PolicyFacts ==
    ASSUME NEW b \in Rows, NEW snapshot \in Snapshots, NEW outcome, NEW profit \in Nat,
           profit <= b.funds
    PROVE  LET after == applySettledPlayModePayoutPolicy(b, snapshot, outcome, profit)
           IN  /\ Moved(after.books, b)
               /\ after.snapshot \in Snapshots /\ after.snapshot.type = snapshot.type
               /\ snapshot.type = "standard" => after.books = b
<1> DEFINE mode == snapshot.type
           kept == withholdDeferredPayout(b, mode, profit)
           pending == snapshot.pending + profit
           released == IF pending > 0 THEN releasePendingDeferredPayoutsForMode(kept, mode) ELSE kept
           after == applySettledPlayModePayoutPolicy(b, snapshot, outcome, profit)
<1>1. mode \in Modes /\ snapshot.pending \in Nat /\ pending \in Nat
  BY SnapshotFields
<1>2. Moved(b, b)
  BY DEF Moved
<1>3. Moved(kept, b) /\ kept \in Rows
  BY <1>1, Withheld DEF Moved
<1>4. Moved(releasePendingDeferredPayoutsForMode(kept, mode), b)
  BY <1>1, <1>3, Released, MovedTwice
<1>5. Moved(released, b)
  BY <1>3, <1>4
<1>6. after \in {[books |-> b, snapshot |-> snapshot],
                 [books |-> released, snapshot |-> createDefaultPlayModeSnapshot(mode)],
                 [books |-> kept, snapshot |-> [snapshot EXCEPT !.pending = pending]]}
      /\ (mode = "standard" => after = [books |-> b, snapshot |-> snapshot])
  BY DEF applySettledPlayModePayoutPolicy
<1> DEFINE grown == [snapshot EXCEPT !.pending = pending]
<1>7. grown \in Snapshots /\ grown.type = mode
  <2> HIDE DEF pending
  <2> QED
    BY <1>1 DEF Snapshots
<1> HIDE DEF after, released, kept, pending, grown, mode
<1> DEFINE fits(x) ==
        /\ Moved(x.books, b) /\ x.snapshot \in Snapshots /\ x.snapshot.type = mode
        /\ mode = "standard" => x.books = b
<1> SUFFICES fits(after)
  BY DEF after, mode
<1>8. CASE after = [books |-> b, snapshot |-> snapshot]
  <2>1. after.books = b /\ after.snapshot = snapshot
    BY <1>8
  <2> QED
    BY <1>2, <2>1 DEF mode
<1>9. CASE after = [books |-> released, snapshot |-> createDefaultPlayModeSnapshot(mode)]
  <2>1. after.books = released /\ after.snapshot = createDefaultPlayModeSnapshot(mode)
    BY <1>9
  <2>2. mode = "standard" => after.books = b
    BY <1>6
  <2> QED
    BY <1>1, <1>5, <2>1, <2>2, SnapshotFields
<1>10. CASE after = [books |-> kept, snapshot |-> grown]
  <2>1. after.books = kept /\ after.snapshot = grown
    BY <1>10
  <2>2. mode = "standard" => after.books = b
    BY <1>6
  <2> QED
    BY <1>3, <1>7, <2>1, <2>2
<1> QED
  BY <1>6, <1>8, <1>9, <1>10 DEF grown

(***************************************************************************)
(* What a transaction keeps of the rows that others work on, the sessions  *)
(* of X aside.                                                             *)
(***************************************************************************)
NoneReopened(old, new) ==
    /\ DOMAIN old \subseteq DOMAIN new
    /\ active(new) \cap DOMAIN old \subseteq active(old)

Frame(b, c, X) == KeepsGames(b.sessions, c.sessions, X) /\ NoneReopened(b.games, c.games)

LEMMA SameRowsKept ==
    ASSUME NEW b, NEW c, c.sessions = b.sessions, c.games = b.games
    PROVE  Frame(b, c, {})
BY DEF Frame, KeepsGames, NoneReopened

LEMMA KeptTwice ==
    ASSUME NEW a, NEW b, NEW c, NEW X, NEW Y, NEW Z, KeepsGames(a, b, X), KeepsGames(b, c, Y),
           (X \cup Y) \cap DOMAIN a \subseteq Z
    PROVE  KeepsGames(a, c, Z)
<1>1. DOMAIN a \subseteq DOMAIN b /\ DOMAIN b \subseteq DOMAIN c
  BY DEF KeepsGames
<1>2. \A i \in DOMAIN a : c[i].mode = a[i].mode /\ c[i].parent = a[i].parent
  BY <1>1 DEF KeepsGames
<1>3. ASSUME NEW i \in DOMAIN a \ Z
      PROVE  /\ c[i].game = a[i].game
             /\ isParent(c, i) => isParent(a, i)
             /\ a[i].game = 0 /\ ~isParent(a, i) => c[i].status = a[i].status
  <2>1. i \in DOMAIN a \ X /\ i \in DOMAIN b \ Y
    BY <1>1
  <2>2. /\ b[i].game = a[i].game
        /\ isParent(b, i) => isParent(a, i)
        /\ a[i].game = 0 /\ ~isParent(a, i) => b[i].status = a[i].status
    BY <2>1 DEF KeepsGames
  <2>3. /\ c[i].game = b[i].game
        /\ isParent(c, i) => isParent(b, i)
        /\ b[i].game = 0 /\ ~isParent(b, i) => c[i].status = b[i].status
    BY <2>1 DEF KeepsGames
  <2> QED
    BY <2>2, <2>3
<1>4. DOMAIN a \subseteq DOMAIN c
  BY <1>1
<1> QED
  BY <1>2, <1>3, <1>4 DEF KeepsGames

LEMMA FramedTwice ==
    ASSUME NEW a, NEW b, NEW c, NEW X, NEW Y, NEW Z, Frame(a, b, X), Frame(b, c, Y),
           (X \cup Y) \cap DOMAIN a.sessions \subseteq Z
    PROVE  Frame(a, c, Z)
<1>1. KeepsGames(a.sessions, c.sessions, Z)
  BY KeptTwice DEF Frame
<1>2. NoneReopened(a.games, c.games)
  BY DEF Frame, NoneReopened
<1> QED
  BY <1>1, <1>2 DEF Frame

\* Only the sessions and the preference changed.
LEMMA SoundSessions ==
    ASSUME NEW b, SoundGames(b), NEW c \in Rows, Linked(c.sessions, c.games),
           c.games = b.games, c.deferred = b.deferred, c.funds = b.funds, c.bank = b.bank
    PROVE  SoundGames(c)
BY DEF SoundGames, Balanced

LEMMA SavedState ==
    ASSUME NEW b \in Rows, NEW snapshot \in Snapshots
    PROVE  LET c == saveUserPlayModeState(b, snapshot)
           IN  /\ c \in Rows /\ c.preference = snapshot /\ c.sessions = b.sessions
               /\ c.games = b.games /\ c.deferred = b.deferred /\ c.funds = b.funds
               /\ c.bank = b.bank
               /\ SoundGames(b) => SoundGames(c)
               /\ Frame(b, c, {})
<1> DEFINE c == saveUserPlayModeState(b, snapshot)
<1>1. /\ c \in Rows /\ c.preference = snapshot /\ c.sessions = b.sessions
      /\ c.games = b.games /\ c.deferred = b.deferred /\ c.funds = b.funds
      /\ c.bank = b.bank
  BY DEF Rows, saveUserPlayModeState
<1> HIDE DEF c
<1>2. SoundGames(b) => Linked(b.sessions, b.games)
  BY DEF SoundGames
<1>3. SoundGames(b) => SoundGames(c)
  BY <1>1, <1>2, SoundSessions
<1>4. Frame(b, c, {})
  BY <1>1, SameRowsKept
<1> QED
  BY <1>1, <1>3, <1>4 DEF c

withSessions(b, s) == [b EXCEPT !.sessions = s]

LEMMA SessionsReplaced ==
    ASSUME NEW b \in Rows, NEW s \in Seq(SessionRows)
    PROVE  LET c == withSessions(b, s)
           IN  /\ c \in Rows /\ c.sessions = s
               /\ c.preference = b.preference
               /\ c.games = b.games /\ c.deferred = b.deferred /\ c.funds = b.funds
               /\ c.bank = b.bank
BY DEF Rows, withSessions

LEMMA EndsIn ==
    ASSUME NEW b, NEW i, NEW snapshot
    PROVE  /\ settlePlayModeSession(b, i, snapshot)
                = withSessions(b, endIn(b.sessions, i, "settled", snapshot))
           /\ cancelPlayModeSession(b, i, snapshot)
                = withSessions(b, endIn(b.sessions, i, "cancelled", snapshot))
BY DEF settlePlayModeSession, cancelPlayModeSession, withSessions, endedGame, endIn

\* A session starts, as a child when a parent is given.
startsIn(c, b, i, snapshot, parent) ==
    /\ SoundGames(c) /\ c.games = b.games /\ Len(c.sessions) = i /\ i \in DOMAIN c.sessions
    /\ \A j \in DOMAIN b.sessions : c.sessions[j] = b.sessions[j]
    /\ i \notin DOMAIN b.sessions
    /\ DOMAIN c.sessions = DOMAIN b.sessions \cup {i}
    /\ c.sessions[i].mode = snapshot.type /\ c.sessions[i].parent = parent
    /\ c.sessions[i].game = 0 /\ c.sessions[i].status = "active"
    /\ ~isParent(c.sessions, i)
    /\ Frame(b, c, {parent})

LEMMA SessionStarts ==
    ASSUME NEW b, SoundGames(b), NEW snapshot \in Snapshots, NEW parent \in Nat,
           parent # 0 => /\ parent \in DOMAIN b.sessions
                         /\ b.sessions[parent].parent = 0 /\ b.sessions[parent].game = 0
                         /\ b.sessions[parent].status = "active"
    PROVE  startsIn(startPlayModeSession(b, snapshot, parent), b, Len(b.sessions) + 1,
                    snapshot, parent)
<1> DEFINE s == b.sessions
           i == Len(b.sessions) + 1
           row == [mode |-> snapshot.type, status |-> "active", parent |-> parent, game |-> 0,
                   snapshot |-> snapshot]
           t == Append(s, row)
           c == startPlayModeSession(b, snapshot, parent)
<1>1. b \in Rows /\ s \in Seq(SessionRows) /\ Len(s) \in Nat /\ DOMAIN s = 1..Len(s)
  BY RowsFields DEF SoundGames
<1>2. row \in SessionRows
  BY SnapshotFields DEF SessionRows
<1>3. c = withSessions(b, t)
  BY DEF startPlayModeSession, withSessions
<1>4. /\ row.mode = snapshot.type /\ row.status = "active" /\ row.parent = parent
      /\ row.game = 0 /\ row.snapshot = snapshot
  OBVIOUS
<1> HIDE DEF row
<1>5. /\ t \in Seq(SessionRows) /\ Len(t) = i /\ DOMAIN t = DOMAIN s \cup {i}
      /\ t[i] = row /\ i \notin DOMAIN s /\ \A j \in DOMAIN s : t[j] = s[j]
  BY <1>1, <1>2, ListAppend
<1> HIDE DEF c, t
<1>6. /\ c \in Rows /\ c.sessions = t /\ c.games = b.games /\ c.deferred = b.deferred
      /\ c.funds = b.funds /\ c.bank = b.bank
  BY <1>1, <1>3, <1>5, SessionsReplaced
<1>7. References(s, b.games) /\ Followed(s, b.games) /\ Families(s)
  BY DEF SoundGames, Linked
<1>8. \A j \in DOMAIN s : s[j].parent # i /\ (s[j].parent # 0 => s[j].parent \in DOMAIN s)
  <2> TAKE j \in DOMAIN s
  <2>1. s[j].parent \in 0..(j - 1) /\ j \in 1..Len(s)
    BY <1>1, <1>7 DEF References
  <2> QED
    BY <1>1, <2>1
<1>9. i # 0 /\ parent # i /\ (parent # 0 => parent \in DOMAIN s)
  BY <1>1
<1>10. ~isParent(t, i)
  BY <1>4, <1>5, <1>8, <1>9 DEF isParent
<1>11. References(t, b.games)
  <2>1. ASSUME NEW j \in DOMAIN t
        PROVE  /\ t[j].snapshot.type = t[j].mode
               /\ t[j].game \in 0..Len(b.games)
               /\ t[j].parent \in 0..(j - 1)
               /\ t[j].parent # 0 => t[t[j].parent].parent = 0 /\ t[t[j].parent].game = 0
    <3>1. CASE j = i
      <4>1. parent \in 0..(i - 1)
        BY <1>1, <1>9
      <4>2. Len(b.games) \in Nat
        BY <1>1, RowsFields, ListFacts
      <4>3. parent # 0 => t[parent].parent = 0 /\ t[parent].game = 0
        BY <1>5, <1>9
      <4> QED
        BY <1>4, <1>5, <3>1, <4>1, <4>2, <4>3
    <3>2. CASE j \in DOMAIN s
      <4>1. /\ s[j].snapshot.type = s[j].mode /\ s[j].game \in 0..Len(b.games)
            /\ s[j].parent \in 0..(j - 1)
            /\ s[j].parent # 0 => s[s[j].parent].parent = 0 /\ s[s[j].parent].game = 0
        BY <1>7, <3>2 DEF References
      <4>2. t[j] = s[j] /\ (s[j].parent # 0 => t[s[j].parent] = s[s[j].parent])
        BY <1>5, <1>8, <3>2
      <4> QED
        BY <4>1, <4>2
    <3> QED
      BY <1>5, <3>1, <3>2
  <2>2. \A j, m \in DOMAIN t : j # m /\ t[j].game = t[m].game => t[j].game = 0
    BY <1>4, <1>5, <1>7 DEF References
  <2> QED
    BY <2>1, <2>2 DEF References
<1>12. Followed(t, b.games)
  BY <1>5, <1>7 DEF Followed
<1>13. Families(t)
  <2> SUFFICES ASSUME NEW p \in DOMAIN t, isParent(t, p)
               PROVE  t[p].status = "active" <=>
                        \E j \in DOMAIN t : t[j].parent = p /\ t[j].status = "active"
    BY DEF Families
  <2>1. p \in DOMAIN s /\ t[p] = s[p]
    BY <1>5, <1>10
  <2>2. CASE p = parent
    <3>1. s[p].status = "active"
      BY <1>1, <2>1, <2>2
    <3> QED
      BY <1>4, <1>5, <2>1, <2>2, <3>1
  <2>3. CASE p # parent
    <3>1. isParent(s, p)
      BY <1>4, <1>5, <2>3 DEF isParent
    <3>2. s[p].status = "active" <=> \E j \in DOMAIN s : s[j].parent = p /\ s[j].status = "active"
      BY <1>7, <2>1, <3>1 DEF Families
    <3> QED
      BY <1>4, <1>5, <2>1, <2>3, <3>2
  <2> QED
    BY <2>2, <2>3
<1>14. SoundGames(c)
  BY <1>6, <1>11, <1>12, <1>13, SoundSessions DEF Linked
<1>15. KeepsGames(s, t, {parent})
  <2>1. \A j \in DOMAIN s \ {parent} : isParent(t, j) => isParent(s, j)
    BY <1>4, <1>5 DEF isParent
  <2> QED
    BY <1>5, <2>1 DEF KeepsGames
<1>16. Frame(b, c, {parent})
  BY <1>6, <1>15 DEF Frame, NoneReopened
<1>17. /\ t[i].mode = snapshot.type /\ t[i].parent = parent /\ t[i].game = 0
       /\ t[i].status = "active"
  BY <1>4, <1>5
<1> QED
  BY <1>5, <1>6, <1>10, <1>14, <1>16, <1>17 DEF c, startsIn

\* A cancelled request's session had no active game.
LEMMA SessionCancelled ==
    ASSUME NEW b, SoundGames(b), NEW i \in DOMAIN b.sessions, NEW snapshot \in Snapshots,
           snapshot.type = b.sessions[i].mode, b.sessions[i].parent = 0,
           ~isParent(b.sessions, i), b.sessions[i].game \notin active(b.games)
    PROVE  LET c == cancelPlayModeSession(b, i, snapshot)
           IN  SoundGames(c) /\ c.games = b.games /\ Frame(b, c, {i})
<1> DEFINE c == cancelPlayModeSession(b, i, snapshot)
           s == endIn(b.sessions, i, "cancelled", snapshot)
<1>1. b \in Rows /\ b.sessions \in Seq(SessionRows) /\ Linked(b.sessions, b.games)
  BY RowsFields DEF SoundGames
<1>2. s \in Seq(SessionRows) /\ Linked(s, b.games) /\ KeepsGames(b.sessions, s, {i})
  BY <1>1, SingleEnds
<1>3. c = withSessions(b, s)
  BY EndsIn
<1> HIDE DEF c, s
<1>4. /\ c \in Rows /\ c.sessions = s /\ c.games = b.games /\ c.deferred = b.deferred
      /\ c.funds = b.funds /\ c.bank = b.bank
  BY <1>1, <1>2, <1>3, SessionsReplaced
<1>5. SoundGames(c)
  BY <1>2, <1>4, SoundSessions
<1>6. Frame(b, c, {i})
  BY <1>2, <1>4 DEF Frame, NoneReopened
<1> QED
  BY <1>4, <1>5, <1>6 DEF c

LEMMA SettledMode ==
    ASSUME NEW snapshot \in Snapshots
    PROVE  /\ resolveSettledPlayMode(snapshot) \in Snapshots
           /\ resolveSettledPlayMode(snapshot).type = snapshot.type
BY SnapshotFields DEF resolveSettledPlayMode

\* Money moves only under a mode that is not the standard one.
LEMMA MovedIsSound ==
    ASSUME NEW b, SoundGames(b), NEW c, Moved(c, b), onlyStandard(b.games) => c = b
    PROVE  SoundGames(c)
<1>1. c \in Rows /\ c.sessions = b.sessions /\ c.games = b.games
  BY DEF Moved
<1>2. b.bank \in Int /\ b.funds \in Nat /\ c.bank \in Int /\ c.funds \in Nat
  BY <1>1, RowsFields DEF SoundGames
<1>3. Balanced(c)
  <2>1. c.funds + heldOf(c.deferred) = Wallet - totalsOf(c.games) + payoutsOf(c.games)
    BY <1>1 DEF SoundGames, Moved, Balanced
  <2>2. c.funds + c.bank - (Wallet + Pool) \in 0..Cardinality(paidIn(c.games))
    <3> DEFINE start == Wallet + Pool
    <3>1. c.funds + c.bank = b.funds + b.bank
      BY DEF Moved
    <3>2. b.funds + b.bank - start \in 0..Cardinality(paidIn(b.games))
      BY DEF SoundGames, Balanced
    <3>3. start \in Int
      BY BlackjackAssumption
    <3>4. paidIn(c.games) = paidIn(b.games)
      BY <1>1
    <3> HIDE DEF start
    <3>5. c.funds + c.bank - start = b.funds + b.bank - start
      BY <1>2, <3>1, <3>3
    <3>6. c.funds + c.bank - start \in 0..Cardinality(paidIn(c.games))
      BY <3>2, <3>4, <3>5
    <3> QED
      BY <3>6 DEF start
  <2> QED
    BY <2>1, <2>2 DEF Balanced
<1>4. NothingHeld(c.games, c.deferred)
  BY <1>1 DEF SoundGames, NothingHeld
<1>5. Reserved(c.games, c.bank)
  BY <1>1 DEF SoundGames, Reserved, Prudent
<1>6. Linked(c.sessions, c.games) /\ Unpaid(c.games)
  BY <1>1 DEF SoundGames
<1> QED
  BY <1>1, <1>3, <1>4, <1>5, <1>6 DEF SoundGames

\* A settled game ends its session, and the dual bet with its last leg.
LEMMA Persisted ==
    ASSUME NEW b, SoundGames(b), NEW k \in DOMAIN b.games, k \notin active(b.games),
           b.games[k].payout <= b.funds, NEW i \in DOMAIN b.sessions,
           b.sessions[i].game = k, b.sessions[i].mode = b.games[k].mode.type
    PROVE  LET c == persistSettledBlackjackPlayMode(b, k, i)
           IN  /\ SoundGames(c) /\ c.games = b.games /\ Frame(b, c, {})
               /\ b.sessions[i].parent = 0 => c.preference.type = b.sessions[i].mode
<1> DEFINE g == b.games[k]
           profit == IF g.payout > g.total THEN g.payout - g.total ELSE 0
           mode == resolveSettledPlayMode(g.mode)
           after == applySettledPlayModePayoutPolicy(b, mode,
                        resolveBlackjackPlayModeOutcome(g.status), profit)
           a == after.books
           snapshot == after.snapshot
           settled == settlePlayModeSession(a, i, snapshot)
           parent == b.sessions[i].parent
           c == persistSettledBlackjackPlayMode(b, k, i)
<1>1. /\ b \in Rows /\ b.sessions \in Seq(SessionRows) /\ b.games \in Seq(GameRows)
      /\ b.funds \in Nat /\ Linked(b.sessions, b.games)
  BY RowsFields DEF SoundGames
<1>2. g \in GameRows /\ k # 0 /\ i # 0 /\ i \in Nat
  BY <1>1, ListFacts
<1>3. g.payout \in Nat /\ g.total \in Nat /\ g.mode \in Snapshots
  BY <1>2, GameFields
<1>4. profit \in Nat /\ profit <= b.funds
  <2> DEFINE paid == g.payout
             total == g.total
             wallet == b.funds
  <2>1. paid \in Nat /\ total \in Nat /\ wallet \in Nat /\ paid <= wallet
    BY <1>1, <1>3
  <2> DEFINE won == IF paid > total THEN paid - total ELSE 0
  <2> HIDE DEF paid, total, wallet
  <2>2. won \in Nat /\ won <= wallet
    BY <2>1
  <2> QED
    BY <2>2 DEF paid, total, wallet
<1>5. mode \in Snapshots /\ mode.type = g.mode.type
  BY <1>3, SettledMode
<1> HIDE DEF profit, mode
<1>6. /\ Moved(a, b) /\ snapshot \in Snapshots /\ snapshot.type = g.mode.type
      /\ g.mode.type = "standard" => a = b
  BY <1>1, <1>4, <1>5, PolicyFacts
<1>7. onlyStandard(b.games) => g.mode.type = "standard"
  BY DEF onlyStandard
<1>8. SoundGames(a) /\ a.sessions = b.sessions /\ a.games = b.games /\ a \in Rows
  BY <1>6, <1>7, MovedIsSound DEF Moved
<1>9. c = IF parent = 0 THEN saveUserPlayModeState(settled, snapshot)
          ELSE maybeFinalizeGroupedBlackjackPlayMode(settled, parent)
  <2>1. parent = a.sessions[i].parent
    BY <1>8
  <2> QED
    BY <1>2 DEF persistSettledBlackjackPlayMode, profit, mode
<1> HIDE DEF after, g
<1> DEFINE s == endIn(b.sessions, i, "settled", snapshot)
<1>10. settled = withSessions(a, s)
  BY <1>8, EndsIn
<1> HIDE DEF settled
<1>11. b.sessions[i].game # 0 /\ b.sessions[i].game \notin active(b.games)
       /\ snapshot.type = b.sessions[i].mode
  BY <1>2, <1>6 DEF g
<1>12. CASE parent = 0
  <2>1. ~isParent(b.sessions, i)
    <3> SUFFICES ASSUME isParent(b.sessions, i) PROVE FALSE
      OBVIOUS
    <3>1. PICK j \in DOMAIN b.sessions : b.sessions[j].parent = i
      BY DEF isParent
    <3> QED
      BY <1>1, <1>2, <1>11, <3>1, ParentFacts DEF Linked
  <2>2. s \in Seq(SessionRows) /\ Linked(s, b.games) /\ KeepsGames(b.sessions, s, {})
    BY <1>1, <1>6, <1>11, <1>12, <2>1, SingleEnds
  <2> HIDE DEF s
  <2>3. /\ settled \in Rows /\ settled.sessions = s /\ settled.games = a.games
        /\ settled.deferred = a.deferred /\ settled.funds = a.funds /\ settled.bank = a.bank
    BY <1>8, <1>10, <2>2, SessionsReplaced
  <2>4. SoundGames(settled)
    BY <1>8, <2>2, <2>3, SoundSessions
  <2>5. c = saveUserPlayModeState(settled, snapshot)
    BY <1>9, <1>12
  <2> HIDE DEF c, snapshot
  <2>6. SoundGames(c) /\ c.games = b.games /\ c.sessions = s /\ c.preference = snapshot
    BY <1>6, <1>8, <2>3, <2>4, <2>5, SavedState
  <2>7. Frame(b, c, {})
    BY <2>2, <2>6 DEF Frame, NoneReopened
  <2> QED
    BY <1>11, <2>6, <2>7 DEF c
<1>13. CASE parent # 0
  <2> DEFINE last == resolveSettledPlayMode(settled.sessions[parent].snapshot)
             t == endIn(s, parent, "settled", last)
             open == \E j \in DOMAIN s : s[j].parent = parent /\ s[j].status = "active"
             both == settlePlayModeSession(settled, parent, last)
  <2>1. c = maybeFinalizeGroupedBlackjackPlayMode(settled, parent)
    BY <1>9, <1>13
  <2>2. parent \in DOMAIN b.sessions /\ parent # i
    BY <1>1, <1>13, ParentFacts DEF Linked
  <2>3. /\ s \in Seq(SessionRows) /\ DOMAIN s = DOMAIN b.sessions
        /\ s[parent] = b.sessions[parent]
    BY <1>1, <1>6, <1>11, <2>2, SessionEnded DEF Linked, OneEnds
  <2>4. s[parent] \in SessionRows /\ s[parent].snapshot.type = s[parent].mode
    BY <1>1, <2>2, <2>3, ListFacts DEF Linked, References
  <2>5. /\ settled \in Rows /\ settled.sessions = s /\ settled.games = a.games
        /\ settled.deferred = a.deferred /\ settled.funds = a.funds /\ settled.bank = a.bank
    <3> HIDE DEF s
    <3> QED
      BY <1>8, <1>10, <2>3, SessionsReplaced
  <2>6. last \in Snapshots /\ last.type = b.sessions[parent].mode
    <3>1. settled.sessions[parent] = s[parent] /\ s[parent].snapshot \in Snapshots
      BY <2>4, <2>5, SessionFields
    <3> HIDE DEF s
    <3> QED
      BY <2>3, <2>4, <3>1, SettledMode
  <2> HIDE DEF last
  <2>7. /\ open => /\ s \in Seq(SessionRows) /\ Linked(s, b.games)
                   /\ KeepsGames(b.sessions, s, {})
        /\ ~open => /\ t \in Seq(SessionRows) /\ Linked(t, b.games)
                    /\ KeepsGames(b.sessions, t, {})
    BY <1>1, <1>6, <1>11, <1>13, <2>6, LegEnds
  <2>8. c = IF open THEN settled ELSE saveUserPlayModeState(both, last)
    <3>1. open <=> \E j \in {n \in DOMAIN settled.sessions :
                                settled.sessions[n].parent = parent} :
                        settled.sessions[j].status = "active"
      <4> HIDE DEF s, parent
      <4> QED
        BY <2>5
    <3> HIDE DEF open, parent
    <3> QED
      BY <2>1, <3>1 DEF maybeFinalizeGroupedBlackjackPlayMode, last
  <2>9. both = withSessions(settled, t)
    BY <2>5, EndsIn
  <2> HIDE DEF s, t, open, both, c, parent
  <2>10. CASE open
    <3>1. SoundGames(settled)
      BY <1>8, <2>5, <2>7, <2>10, SoundSessions
    <3>2. Frame(b, settled, {})
      BY <1>8, <2>5, <2>7, <2>10 DEF Frame, NoneReopened
    <3> QED
      BY <1>8, <1>13, <2>5, <2>8, <2>10, <3>1, <3>2 DEF c, parent
  <2>11. CASE ~open
    <3>1. /\ both \in Rows /\ both.sessions = t /\ both.games = a.games
          /\ both.deferred = a.deferred /\ both.funds = a.funds /\ both.bank = a.bank
      BY <2>5, <2>7, <2>9, <2>11, SessionsReplaced
    <3>2. SoundGames(both)
      BY <1>8, <2>7, <2>11, <3>1, SoundSessions
    <3>3. SoundGames(c) /\ c.games = b.games /\ c.sessions = t
      BY <1>8, <2>6, <2>8, <2>11, <3>1, <3>2, SavedState
    <3>4. Frame(b, c, {})
      BY <2>7, <2>11, <3>3 DEF Frame, NoneReopened
    <3> QED
      BY <1>13, <3>3, <3>4 DEF c, parent
  <2> QED
    BY <2>10, <2>11
<1> QED
  BY <1>12, <1>13

(***************************************************************************)
(* Game k becomes g, and the wallet pays for it or receives what it won:   *)
(* every move, settlement and deadline.                                    *)
(***************************************************************************)
withGame(b, k, g, taken, gained) ==
    [b EXCEPT !.games = [b.games EXCEPT ![k] = g], !.funds = b.funds - taken,
              !.bank = b.bank + gained]

LEMMA GameReplaced ==
    ASSUME NEW b \in Rows, NEW k \in DOMAIN b.games, NEW g \in GameRows, NEW taken \in Int,
           NEW gained \in Int, taken <= b.funds
    PROVE  LET c == withGame(b, k, g, taken, gained)
           IN  /\ c \in Rows /\ c.games = [b.games EXCEPT ![k] = g]
               /\ c.funds = b.funds - taken /\ c.bank = b.bank + gained
               /\ c.preference = b.preference /\ c.sessions = b.sessions
               /\ c.deferred = b.deferred
<1> DEFINE games_ == [b.games EXCEPT ![k] = g]
           funds_ == b.funds - taken
           bank_ == b.bank + gained
           c == withGame(b, k, g, taken, gained)
<1>1. b.funds \in Nat /\ b.bank \in Int /\ b.games \in Seq(GameRows)
  BY RowsFields
<1>2. games_ \in Seq(GameRows)
  BY <1>1, ListUpdate
<1>3. funds_ \in Nat /\ bank_ \in Int
  <2> DEFINE f == b.funds
             m == b.bank
  <2>1. f \in Nat /\ m \in Int /\ taken <= f
    BY <1>1
  <2> HIDE DEF f, m
  <2>2. f - taken \in Nat /\ m + gained \in Int
    BY <2>1
  <2> QED
    BY <2>2 DEF f, m
<1>4. c = [b EXCEPT !.games = games_, !.funds = funds_, !.bank = bank_]
  BY DEF withGame
<1> HIDE DEF games_, funds_, bank_, c
<1>5. /\ c \in Rows /\ c.games = games_ /\ c.funds = funds_ /\ c.bank = bank_
      /\ c.preference = b.preference /\ c.sessions = b.sessions /\ c.deferred = b.deferred
  BY <1>2, <1>3, <1>4 DEF Rows
<1> QED
  BY <1>5 DEF games_, funds_, bank_, c

\* The reserve the pool has to keep for game g.
covers(left, g) ==
    /\ left >= PoolReserve
    /\ g.status = "active" => 100 * (left - PoolReserve) >= payout(g.total, WinPct)

changed(c, b, k, g, taken, gained) ==
    /\ SoundGames(c) /\ Frame(b, c, {}) /\ c.sessions = b.sessions
    /\ c.funds = b.funds - taken /\ c.bank = b.bank + gained
    /\ DOMAIN c.games = DOMAIN b.games /\ Len(c.games) = Len(b.games)
    /\ c.games[k] = g /\ \A j \in DOMAIN b.games \ {k} : c.games[j] = b.games[j]
    /\ active(c.games) = IF g.status = "active" THEN active(b.games)
                         ELSE active(b.games) \ {k}

LEMMA GameChanges ==
    ASSUME NEW b, SoundGames(b), NEW k \in active(b.games), NEW g \in GameRows, NEW taken \in Int,
           NEW gained \in Int, gained - taken \in {0, 1}, g.payout = 0 => gained = taken,
           g.mode = b.games[k].mode, taken <= b.funds,
           g.total - g.payout = b.games[k].total + taken,
           g.status = "active" => g.payout = 0,
           Prudent(b.games) => covers(b.bank + gained, g)
    PROVE  changed(withGame(b, k, g, taken, gained), b, k, g, taken, gained)
<1> DEFINE c == withGame(b, k, g, taken, gained)
           old == b.games
           new == [b.games EXCEPT ![k] = g]
<1>1. b \in Rows /\ old \in Seq(GameRows) /\ k \in DOMAIN old
  BY RowsFields DEF SoundGames, active
<1>2. /\ c \in Rows /\ c.games = new
      /\ c.funds = b.funds - taken /\ c.bank = b.bank + gained
      /\ c.preference = b.preference /\ c.sessions = b.sessions
      /\ c.deferred = b.deferred
  BY <1>1, GameReplaced
<1>3. DOMAIN new = DOMAIN old /\ Len(new) = Len(old) /\ new[k] = g
      /\ \A j \in DOMAIN old \ {k} : new[j] = old[j]
  BY <1>1, ListUpdate
<1>4. /\ g.status # "active" => active(new) = active(old) \ {k}
      /\ g.status = "active" => active(new) = active(old)
      /\ onlyStandard(new) => onlyStandard(old)
  BY <1>1, ActiveUpdated
<1>5. /\ totalsOf(new) = totalsOf(old) + g.total - old[k].total
      /\ payoutsOf(new) = payoutsOf(old) + g.payout - old[k].payout
  BY <1>1, TotalsUpdated
<1>6. Linked(c.sessions, new)
  BY <1>1, <1>2, LinkedUpdated DEF SoundGames
<1> HIDE DEF c, new
<1>7. Balanced(c)
  <2>1. old[k].payout = 0
    BY DEF SoundGames, Unpaid
  <2>2. /\ b.funds + heldOf(b.deferred) = Wallet - totalsOf(old) + payoutsOf(old)
        /\ b.funds + b.bank - (Wallet + Pool) \in 0..Cardinality(paidIn(old))
    BY DEF SoundGames, Balanced
  <2>3. /\ totalsOf(old) \in Int /\ payoutsOf(old) \in Int /\ heldOf(b.deferred) \in Int
        /\ b.funds \in Nat /\ b.bank \in Int
    BY <1>1, TotalsAreInt, RowsFields, HeldIsInt
  <2>4. old[k] \in GameRows
    BY <1>1, ListFacts
  <2>5. old[k].total \in Nat /\ g.total \in Nat /\ g.payout \in Nat
    BY <2>4, GameFields
  <2>6. /\ Cardinality(paidIn(old)) \in Nat
        /\ Cardinality(paidIn(new)) = Cardinality(paidIn(old)) + IF g.payout > 0 THEN 1 ELSE 0
    BY <1>1, <2>1, PaidUpdated DEF new
  <2> DEFINE T == totalsOf(old)
             P == payoutsOf(old)
             H == heldOf(b.deferred)
             t == old[k].total
             F == b.funds
             M == b.bank
             N == Cardinality(paidIn(old))
             O == Cardinality(paidIn(new))
             v == g.total
             w == g.payout
  <2>7. v - w = t + taken /\ (w = 0 => gained = taken) /\ gained - taken \in {0, 1}
    OBVIOUS
  <2> HIDE DEF T, P, H, t, F, M, N, O, v, w
  <2>8. /\ T \in Int /\ P \in Int /\ H \in Int /\ t \in Nat /\ F \in Nat /\ M \in Int
        /\ v \in Nat /\ w \in Nat /\ N \in Nat /\ O = N + IF w > 0 THEN 1 ELSE 0
    BY <2>3, <2>5, <2>6 DEF T, P, H, t, F, M, N, O, v, w
  <2>9. F + H = Wallet - T + P /\ F + M - (Wallet + Pool) \in 0..N
    BY <2>2 DEF T, P, H, F, M, N
  <2>10. F - taken + H = Wallet - (T + v - t) + (P + w - 0)
    BY <2>7, <2>8, <2>9, Multipliers
  <2>11. (F - taken) + (M + gained) - (Wallet + Pool) \in 0..O
    BY <2>7, <2>8, <2>9, Multipliers
  <2>12. totalsOf(new) = T + v - t /\ payoutsOf(new) = P + w - 0
    BY <1>5, <2>1 DEF T, P, t, v, w
  <2>13. c.funds = F - taken /\ c.bank = M + gained /\ heldOf(c.deferred) = H
    BY <1>2 DEF F, M, H
  <2> QED
    BY <1>2, <2>10, <2>11, <2>12, <2>13 DEF Balanced, O
<1>8. Unpaid(new)
  <2> SUFFICES ASSUME NEW j \in active(new) PROVE new[j].payout = 0
    BY DEF Unpaid
  <2>1. CASE j = k
    BY <1>3, <2>1 DEF active
  <2>2. CASE j # k
    BY <1>3, <2>2 DEF active, SoundGames, Unpaid
  <2> QED
    BY <2>1, <2>2
<1>9. NothingHeld(new, c.deferred)
  BY <1>2, <1>4 DEF SoundGames, NothingHeld
<1>10. Prudent(new) => Prudent(old)
  BY <1>4 DEF Prudent
<1>11. Reserved(new, c.bank)
  <2> SUFFICES ASSUME Prudent(new)
               PROVE  /\ c.bank >= PoolReserve
                      /\ \A i, j \in active(new) : i = j
                      /\ \A j \in active(new) :
                            100 * (c.bank - PoolReserve) >= payout(new[j].total, WinPct)
    BY DEF Reserved
  <2>1. Prudent(old) /\ covers(c.bank, g)
    BY <1>2, <1>10
  <2>2. \A i, j \in active(old) : i = j
    BY <2>1 DEF SoundGames, Reserved
  <2>3. active(new) \subseteq active(old)
    BY <1>4
  <2>4. \A j \in active(new) : j = k /\ g.status = "active" /\ new[j] = g
    BY <1>3, <2>2, <2>3 DEF active
  <2> QED
    BY <2>1, <2>4 DEF covers
<1>12. SoundGames(c)
  BY <1>2, <1>6, <1>7, <1>8, <1>9, <1>11 DEF SoundGames
<1>13. Frame(b, c, {})
  BY <1>2, <1>3, <1>4 DEF Frame, KeepsGames, NoneReopened
<1> QED
  BY <1>2, <1>3, <1>4, <1>12, <1>13 DEF c, changed

\* The active session of a game is the one that follows it.
LEMMA SessionOfGame ==
    ASSUME NEW b, SoundGames(b), NEW k \in active(b.games)
    PROVE  LET i == loadActivePlayModeSession(b, k)
           IN  i \in DOMAIN b.sessions /\ follows(b.sessions[i], k, b.games[k])
<1> DEFINE found == {i \in DOMAIN b.sessions :
                        b.sessions[i].status = "active" /\ b.sessions[i].game = k}
<1>1. b \in Rows /\ b.sessions \in Seq(SessionRows) /\ b.games \in Seq(GameRows) /\ k \in DOMAIN b.games
  BY RowsFields DEF SoundGames, active
<1>2. Len(b.sessions) \in Nat /\ DOMAIN b.sessions = 1..Len(b.sessions) /\ k # 0
  BY <1>1, ListFacts
<1>3. PICK i \in DOMAIN b.sessions : follows(b.sessions[i], k, b.games[k])
  BY DEF SoundGames, Linked, Followed
<1>4. i \in found
  BY <1>3 DEF follows
<1>5. found \in SUBSET (0..Len(b.sessions))
  BY <1>2
<1> DEFINE m == Max(found)
<1>6. m \in found
  <2> HIDE DEF found
  <2> QED
    BY <1>2, <1>4, <1>5, MaxOfNaturals
<1>7. loadActivePlayModeSession(b, k) = m
  BY <1>4 DEF loadActivePlayModeSession
<1> HIDE DEF m
<1>8. m = i
  BY <1>2, <1>3, <1>6 DEF follows, SoundGames, Linked, References
<1> QED
  BY <1>3, <1>7, <1>8

paidGame(g, status, paid) ==
    [g EXCEPT !.status = status, !.payout = paid, !.turn = 0, !.clock = "none", !.hands = <<>>,
              !.dealer = <<>>]

LEMMA PaidGame ==
    ASSUME NEW g \in GameRows, NEW status \in GameStatuses, NEW paid \in Nat
    PROVE  LET a == paidGame(g, status, paid)
           IN  /\ a \in GameRows /\ a.status = status /\ a.payout = paid
               /\ a.total = g.total /\ a.mode = g.mode
<1>1. <<>> \in Seq(Hands) /\ <<>> \in Seq(Ranks) /\ 0 \in Nat
  OBVIOUS
<1> QED
  BY <1>1 DEF GameRows, paidGame

\* The pool keeps its reserve when it pays.
affords(b, paid) == Prudent(b.games) => paid <= 100 * (b.bank - PoolReserve)

LEMMA Credited ==
    ASSUME NEW b, SoundGames(b), NEW k \in active(b.games), NEW g \in GameRows,
           g.mode = b.games[k].mode, g.total = b.games[k].total,
           NEW status \in GameStatuses \ {"active"}, NEW paid \in Nat,
           affords(b, paid)
    PROVE  LET c == applyPayoutCredit(b, k, g, status, paid)
           IN  /\ SoundGames(c) /\ Frame(b, c, {}) /\ c.sessions = b.sessions
               /\ c.games[k].payout <= c.funds /\ c.games[k].mode = b.games[k].mode
               /\ DOMAIN c.games = DOMAIN b.games /\ Len(c.games) = Len(b.games)
               /\ \A j \in DOMAIN b.games \ {k} : c.games[j] = b.games[j]
               /\ active(c.games) = active(b.games) \ {k}
<1> DEFINE won == toMoneyString(paid)
           a == paidGame(g, status, won)
           c == applyPayoutCredit(b, k, g, status, paid)
           taken == 0 - won
           left == toMoneyString(100 * b.bank - paid)
           gained == left - b.bank
<1>1. b \in Rows /\ b.funds \in Nat /\ b.bank \in Int /\ b.games \in Seq(GameRows)
  BY RowsFields DEF SoundGames
<1>2. won \in Nat /\ toMoneyString(100 * b.funds + paid) = b.funds + won
  BY <1>1, RoundedCredit
<1>3. left \in Int /\ left + won - b.bank \in {0, 1} /\ (won = 0 => left = b.bank)
  BY <1>1, RoundedPool
<1>4. c = [b EXCEPT !.games = [b.games EXCEPT ![k] = a], !.funds = b.funds + won, !.bank = left]
  BY <1>2 DEF applyPayoutCredit, paidGame
<1> HIDE DEF won, left
<1>5. a \in GameRows /\ a.status = status /\ a.payout = won /\ a.total = g.total /\ a.mode = g.mode
  BY <1>2, PaidGame
<1> DEFINE f == b.funds
           m == b.bank
<1>6. /\ f + won = f - taken /\ left = m + gained /\ taken \in Int /\ gained \in Int
      /\ taken <= f /\ gained - taken \in {0, 1} /\ (won = 0 => gained = taken)
  <2>1. f \in Nat /\ m \in Int /\ taken = 0 - won /\ gained = left - m
    BY <1>1
  <2>2. left + won - m \in {0, 1} /\ (won = 0 => left = m)
    BY <1>3
  <2> HIDE DEF f, m, taken, gained
  <2> QED
    BY <1>2, <1>3, <2>1, <2>2
<1>7. c = withGame(b, k, a, taken, gained)
  <2> HIDE DEF a, c, taken, gained
  <2>1. withGame(b, k, a, taken, gained)
            = [b EXCEPT !.games = [b.games EXCEPT ![k] = a], !.funds = f - taken,
                        !.bank = m + gained]
    BY DEF withGame
  <2> QED
    BY <1>4, <1>6, <2>1
<1> HIDE DEF a, c
<1>8. a.total - a.payout = b.games[k].total + taken
  <2>1. b.games[k].total \in Nat
    BY GameFields
  <2> DEFINE t == b.games[k].total
  <2>2. a.total = t /\ a.payout = won
    BY <1>5
  <2> HIDE DEF t
  <2> QED
    BY <1>2, <2>1, <2>2 DEF t
<1>9. Prudent(b.games) => covers(b.bank + gained, a)
  <2> SUFFICES ASSUME Prudent(b.games) PROVE b.bank + gained >= PoolReserve
    BY <1>5 DEF covers
  <2>1. left >= PoolReserve
    BY <1>1, Multipliers, RoundedAbove DEF left, affords
  <2> QED
    BY <1>6, <2>1
<1> HIDE DEF taken, gained
<1>10. /\ SoundGames(c) /\ Frame(b, c, {}) /\ c.sessions = b.sessions
       /\ c.funds = b.funds - taken
       /\ DOMAIN c.games = DOMAIN b.games /\ Len(c.games) = Len(b.games)
       /\ c.games[k] = a /\ \A j \in DOMAIN b.games \ {k} : c.games[j] = b.games[j]
       /\ active(c.games) = active(b.games) \ {k}
  <2>1. /\ a \in GameRows /\ taken \in Int /\ gained \in Int /\ a.mode = b.games[k].mode
        /\ taken <= b.funds /\ gained - taken \in {0, 1} /\ (a.payout = 0 => gained = taken)
        /\ a.status # "active"
    BY <1>5, <1>6
  <2>2. changed(c, b, k, a, taken, gained)
    BY <1>7, <1>8, <1>9, <2>1, GameChanges
  <2> QED
    BY <2>1, <2>2 DEF changed
<1>11. c.games[k].payout <= c.funds
  <2>1. c.games[k].payout = won /\ c.funds = b.funds + won
    BY <1>5, <1>6, <1>10
  <2> QED
    BY <1>1, <1>2, <2>1
<1>12. c.games[k].mode = b.games[k].mode
  BY <1>5, <1>10
<1> QED
  BY <1>10, <1>11, <1>12 DEF c

settledIn(c, b, k, i) ==
    /\ SoundGames(c) /\ Frame(b, c, {}) /\ Len(c.games) = Len(b.games)
    /\ \A j \in DOMAIN b.games \ {k} : c.games[j] = b.games[j]
    /\ active(c.games) = active(b.games) \ {k}
    /\ b.sessions[i].parent = 0 => c.preference.type = b.sessions[i].mode

\* A game is settled with the session that follows it.
LEMMA Settled ==
    ASSUME NEW b, SoundGames(b), NEW k \in active(b.games), NEW g \in GameRows,
           g.mode = b.games[k].mode, g.total = b.games[k].total,
           NEW status \in GameStatuses \ {"active"}, NEW paid \in Nat,
           affords(b, paid),
           NEW i \in DOMAIN b.sessions, follows(b.sessions[i], k, b.games[k])
    PROVE  settledIn(persistSettledBlackjackPlayMode(
                        applyPayoutCredit(b, k, g, status, paid), k, i), b, k, i)
<1> DEFINE a == applyPayoutCredit(b, k, g, status, paid)
           c == persistSettledBlackjackPlayMode(a, k, i)
<1>1. /\ SoundGames(a) /\ Frame(b, a, {}) /\ a.sessions = b.sessions
      /\ a.games[k].payout <= a.funds /\ a.games[k].mode = b.games[k].mode
      /\ DOMAIN a.games = DOMAIN b.games /\ Len(a.games) = Len(b.games)
      /\ \A j \in DOMAIN b.games \ {k} : a.games[j] = b.games[j]
      /\ active(a.games) = active(b.games) \ {k}
  BY Credited
<1> HIDE DEF a
<1>2. k \in DOMAIN a.games /\ k \notin active(a.games)
  BY <1>1 DEF active
<1>3. a.sessions[i].game = k /\ a.sessions[i].mode = a.games[k].mode.type /\ i \in DOMAIN a.sessions
  BY <1>1 DEF follows
<1>4. /\ SoundGames(c) /\ c.games = a.games /\ Frame(a, c, {})
      /\ a.sessions[i].parent = 0 => c.preference.type = a.sessions[i].mode
  BY <1>1, <1>2, <1>3, Persisted
<1> HIDE DEF c
<1>5. Frame(b, c, {})
  BY <1>1, <1>4, FramedTwice
<1> QED
  BY <1>1, <1>4, <1>5 DEF c, a, settledIn

othersInPlay(b, k) == \A j \in active(b.games) \ {k} : InPlay(b.games[j])

LEMMA PoolCovers ==
    ASSUME NEW b, SoundGames(b), NEW k \in active(b.games), Prudent(b.games)
    PROVE  /\ b.bank >= PoolReserve
           /\ 100 * (b.bank - PoolReserve) >= payout(b.games[k].total, WinPct)
BY DEF SoundGames, Reserved

LEMMA SettledStatus ==
    ASSUME NEW g, NEW dealer, NEW paid
    PROVE  resolveAggregateSettledStatus(g, dealer, paid) \in GameStatuses \ {"active"}
BY DEF resolveAggregateSettledStatus, GameStatuses

\* A move leaves the game waiting for the next hand, or settled.
LEMMA Finalized ==
    ASSUME NEW b, SoundGames(b), NEW k \in active(b.games), othersInPlay(b, k),
           NEW g, gameGoesOn(g, b.games[k]), NEW c \in finalizeBlackjackProgress(b, k, g)
    PROVE  SoundGames(c) /\ HandsOK(c.games) /\ Frame(b, c, {})
<1>1. /\ b \in Rows /\ b.funds \in Nat /\ b.bank \in Int /\ b.games \in Seq(GameRows)
      /\ k \in DOMAIN b.games
  BY RowsFields DEF SoundGames, active
<1>2. /\ g \in GameRows /\ g.status = "active" /\ g.payout = b.games[k].payout
      /\ g.mode = b.games[k].mode /\ g.total = b.games[k].total
      /\ Len(g.hands) <= MaxSplitHands /\ g.total = stakesOf(g.hands)
      /\ g.turn # 0 => waitsForHand(g)
  BY DEF gameGoesOn, sameGame, active
<1>3. b.games[k].payout = 0 /\ b.games[k].total \in Nat
  <2>1. b.games[k] \in GameRows
    BY <1>1, ListFacts
  <2> QED
    BY <2>1, GameFields DEF SoundGames, Unpaid
<1>4. CASE g.turn # 0
  <2> DEFINE a == [g EXCEPT !.clock = "running"]
             games_ == [b.games EXCEPT ![k] = a]
             funds_ == b.funds
             bank_ == b.bank
  <2>1. c = [b EXCEPT !.games[k] = a]
    BY <1>4 DEF finalizeBlackjackProgress
  <2>2. /\ a \in GameRows /\ a.status = g.status /\ a.payout = g.payout /\ a.mode = g.mode
        /\ a.total = g.total /\ a.hands = g.hands /\ a.turn = g.turn /\ a.clock = "running"
    BY <1>2 DEF GameRows
  <2> HIDE DEF a
  <2>3. c = withGame(b, k, a, 0, 0)
    <3>1. funds_ - 0 = funds_ /\ bank_ + 0 = bank_ /\ funds_ = b.funds /\ bank_ = b.bank
      BY <1>1
    <3> HIDE DEF funds_, bank_, games_
    <3>2. withGame(b, k, a, 0, 0) = [b EXCEPT !.games = games_, !.funds = funds_, !.bank = bank_]
      BY <3>1 DEF withGame, games_
    <3>3. c = [b EXCEPT !.games = games_]
      BY <2>1 DEF games_
    <3>4. [b EXCEPT !.games = games_, !.funds = funds_, !.bank = bank_] = [b EXCEPT !.games = games_]
      BY <1>1, <3>1 DEF Rows
    <3> QED
      BY <3>2, <3>3, <3>4
  <2>4. a.total - a.payout = b.games[k].total + 0 /\ a.status = "active" /\ a.payout = 0
    BY <1>2, <1>3, <2>2
  <2>5. Prudent(b.games) => covers(b.bank + 0, a)
    <3> SUFFICES ASSUME Prudent(b.games) PROVE covers(b.bank + 0, a)
      OBVIOUS
    <3>1. /\ b.bank >= PoolReserve
          /\ 100 * (b.bank - PoolReserve) >= payout(b.games[k].total, WinPct)
      BY PoolCovers
    <3>2. b.bank + 0 = b.bank /\ a.total = b.games[k].total
      BY <1>1, <1>2, <2>2
    <3> QED
      BY <3>1, <3>2 DEF covers
  <2>6. a.mode = b.games[k].mode /\ 0 <= b.funds /\ 0 \in Int /\ 0 - 0 \in {0, 1}
    BY <1>1, <1>2, <2>2
  <2>7. changed(c, b, k, a, 0, 0)
    BY <2>2, <2>3, <2>4, <2>5, <2>6, GameChanges
  <2>8. waitsForHand(a)
    BY <1>2, <1>4, <2>2 DEF waitsForHand
  <2>9. InPlay(a)
    BY <1>2, <2>2, <2>8 DEF InPlay
  <2>10. HandsOK(c.games)
    <3> SUFFICES ASSUME NEW j \in active(c.games) PROVE InPlay(c.games[j])
      BY DEF HandsOK
    <3>1. j \in active(b.games)
      BY <2>4, <2>7 DEF changed
    <3>2. CASE j = k
      BY <2>7, <2>9, <3>2 DEF changed
    <3>3. CASE j # k
      BY <2>7, <3>1, <3>3 DEF changed, othersInPlay, active
    <3> QED
      BY <3>2, <3>3
  <2> QED
    BY <2>7, <2>10 DEF changed
<1>5. CASE g.turn = 0
  <2> DEFINE paid(dealer) == SumFunctionOnSet(
                [i \in DOMAIN g.hands |-> resolveRegularHandPayoutAmount(g.hands[i], dealer)],
                DOMAIN g.hands)
             status(dealer) == resolveAggregateSettledStatus(g, dealer, paid(dealer))
             i == loadActivePlayModeSession(b, k)
  <2>1. PICK dealer \in dealerTotals[g.dealer] :
            c = persistSettledBlackjackPlayMode(
                    applyPayoutCredit(b, k, g, status(dealer), paid(dealer)), k, i)
    BY <1>5 DEF finalizeBlackjackProgress, settleResolvedHands
  <2> DEFINE won == paid(dealer)
             final == status(dealer)
  <2>2. won \in Nat /\ (PushPct <= WinPct => won <= payout(stakesOf(g.hands), WinPct))
    <3>1. g.hands \in Seq(Hands)
      BY <1>2, GameFields
    <3> QED
      BY <3>1, SettledPayout
  <2>3. final \in GameStatuses \ {"active"}
    BY SettledStatus
  <2>4. i \in DOMAIN b.sessions /\ follows(b.sessions[i], k, b.games[k])
    BY SessionOfGame
  <2>5. c = persistSettledBlackjackPlayMode(applyPayoutCredit(b, k, g, final, won), k, i)
    BY <2>1
  <2> HIDE DEF won, final, i, paid, status
  <2>6. affords(b, won)
    <3> SUFFICES ASSUME Prudent(b.games) PROVE won <= 100 * (b.bank - PoolReserve)
      BY DEF affords
    <3> DEFINE most == payout(b.games[k].total, WinPct)
    <3>1. 100 * (b.bank - PoolReserve) >= most
      BY PoolCovers
    <3>2. won <= most
      BY <1>2, <2>2 DEF Prudent
    <3>3. most \in Nat
      BY <1>3, Multipliers, PayoutFacts
    <3> HIDE DEF most
    <3> QED
      BY <1>1, <2>2, <3>1, <3>2, <3>3, Multipliers
  <2>7. g \in GameRows /\ g.mode = b.games[k].mode /\ g.total = b.games[k].total /\ won \in Nat
    BY <1>2, <2>2
  <2>8. settledIn(c, b, k, i)
    BY <2>3, <2>4, <2>5, <2>6, <2>7, Settled
  <2>9. HandsOK(c.games)
    BY <2>8 DEF HandsOK, othersInPlay, active, settledIn
  <2> QED
    BY <2>8, <2>9 DEF settledIn
<1> QED
  BY <1>4, <1>5

LEMMA PlayedGame ==
    ASSUME NEW b, SoundGames(b), HandsOK(b.games), NEW k \in active(b.games)
    PROVE  /\ b.games[k] \in GameRows /\ inTurn(b.games[k])
           /\ Len(b.games[k].hands) <= MaxSplitHands
           /\ b.games[k].total = stakesOf(b.games[k].hands)
           /\ othersInPlay(b, k)
<1>1. b.games \in Seq(GameRows) /\ k \in DOMAIN b.games
  BY RowsFields DEF SoundGames, active
<1>2. b.games[k] \in GameRows
  BY <1>1, ListFacts
<1>3. InPlay(b.games[k]) /\ othersInPlay(b, k)
  BY DEF HandsOK, othersInPlay
<1> QED
  BY <1>2, <1>3 DEF InPlay, waitsForHand, inTurn

\* What a transaction on the games leaves, and keeps for others.
Leaves(b, c) == SoundGames(c) /\ HandsOK(c.games) /\ Frame(b, c, {})

LEMMA StoodHand ==
    ASSUME NEW b, SoundGames(b), HandsOK(b.games), NEW k \in active(b.games), NEW c \in stood(b, k)
    PROVE  Leaves(b, c)
<1> DEFINE g == advancePlayerHand(b.games[k], b.funds)
<1>1. gameGoesOn(g, b.games[k]) /\ othersInPlay(b, k)
  BY PlayedGame, TurnPasses
<1>2. c \in finalizeBlackjackProgress(b, k, g)
  BY DEF stood
<1> HIDE DEF g
<1> QED
  BY <1>1, <1>2, Finalized DEF Leaves

LEMMA Hit ==
    ASSUME NEW b, SoundGames(b), HandsOK(b.games), NEW k \in active(b.games), NEW c \in hit(b, k)
    PROVE  Leaves(b, c)
<1> DEFINE g == b.games[k]
           x(card) == [g EXCEPT !.hands[g.turn].cards = Append(@, card)]
<1>1. PICK card \in Ranks :
            c \in finalizeBlackjackProgress(b, k,
                    advanceResolvableHands(x(card), x(card).turn, b.funds))
  BY DEF hit
<1> DEFINE a == advanceResolvableHands(x(card), x(card).turn, b.funds)
<1>2. /\ g \in GameRows /\ inTurn(g) /\ Len(g.hands) <= MaxSplitHands
      /\ g.total = stakesOf(g.hands) /\ othersInPlay(b, k)
  BY PlayedGame
<1>3. gameGoesOn(a, g)
  <2> HIDE DEF g
  <2> QED
    BY <1>2, HitGoesOn
<1> HIDE DEF a, x
<1> QED
  BY <1>1, <1>2, <1>3, Finalized DEF Leaves, a

handOnTurn(g) == g.hands[g.turn]

\* The rows after the stake of the hand on turn is taken once more.
LEMMA Raised ==
    ASSUME NEW b, SoundGames(b), HandsOK(b.games), NEW k \in active(b.games),
           handOnTurn(b.games[k]).stake <= b.funds, coveredRaise(b, k)
    PROVE  LET c == raised(b, k)
               g == c.games[k]
           IN  /\ SoundGames(c) /\ Frame(b, c, {}) /\ othersInPlay(c, k)
               /\ k \in active(c.games) /\ g \in GameRows /\ inTurn(g)
               /\ g.hands = b.games[k].hands /\ g.turn = b.games[k].turn
               /\ g.total = stakesOf(g.hands) + g.hands[g.turn].stake
<1> DEFINE old == b.games[k]
           stake == old.hands[old.turn].stake
           total == old.total + stake
           a == [old EXCEPT !.total = total]
           c == raised(b, k)
<1>1. /\ b \in Rows /\ b.funds \in Nat /\ b.bank \in Int /\ b.games \in Seq(GameRows)
      /\ k \in DOMAIN b.games
  BY RowsFields DEF SoundGames, active
<1>2. /\ old \in GameRows /\ inTurn(old) /\ Len(old.hands) <= MaxSplitHands
      /\ old.total = stakesOf(old.hands) /\ othersInPlay(b, k)
  BY PlayedGame
<1>3. old.payout = 0 /\ old.status = "active" /\ old.total \in Nat /\ old.hands \in Seq(Hands)
      /\ old.turn \in DOMAIN old.hands
  <2>1. old.payout = 0 /\ old.status = "active"
    BY DEF SoundGames, Unpaid, active
  <2> HIDE DEF old
  <2> QED
    BY <1>2, <2>1, GameFields DEF inTurn
<1>4. stake \in Nat /\ stake <= b.funds
  <2>1. old.hands[old.turn] \in Hands
    <3> HIDE DEF old
    <3> QED
      BY <1>3, ListFacts
  <2>2. stake \in Nat
    BY <2>1, HandFields
  <2> QED
    BY <2>2 DEF handOnTurn
<1>5. c = withGame(b, k, a, stake, stake)
  BY DEF raised, applyStakeDebit, withGame
<1>6. 100 * (b.bank + stake - PoolReserve) >= payout(total, WinPct)
  BY DEF coveredRaise, ensurePoolCanCover, maximumRaisedPayout
<1>7. total \in Nat /\ total = old.total + stake
  <2> DEFINE m == old.total
             n == stake
  <2>1. m \in Nat /\ n \in Nat
    BY <1>3, <1>4
  <2> HIDE DEF m, n
  <2>2. m + n \in Nat
    BY <2>1
  <2> QED
    BY <2>2 DEF m, n
<1>8. /\ a \in GameRows /\ a.total = total /\ a.hands = old.hands /\ a.turn = old.turn
      /\ a.status = old.status /\ a.payout = old.payout /\ a.mode = old.mode
  <2> HIDE DEF total, old, stake
  <2> QED
    BY <1>2, <1>7 DEF GameRows
<1> HIDE DEF a, c, total, stake
<1>9. a.total - a.payout = old.total + stake
  BY <1>3, <1>4, <1>7, <1>8
<1>10. Prudent(b.games) => covers(b.bank + stake, a)
  <2> SUFFICES ASSUME Prudent(b.games) PROVE covers(b.bank + stake, a)
    OBVIOUS
  <2>1. b.bank >= PoolReserve
    BY PoolCovers
  <2> DEFINE left == b.bank + stake
  <2>2. left >= PoolReserve
    BY <1>1, <1>4, <2>1, Multipliers
  <2>3. 100 * (left - PoolReserve) >= payout(total, WinPct)
    BY <1>1, <1>4, <1>6, Multipliers
  <2> HIDE DEF left
  <2>4. covers(left, a)
    BY <1>8, <2>2, <2>3 DEF covers
  <2> QED
    BY <2>4 DEF left
<1>11. changed(c, b, k, a, stake, stake)
  <2>1. stake - stake \in {0, 1} /\ stake \in Int
    BY <1>4
  <2> QED
    BY <1>3, <1>4, <1>5, <1>8, <1>9, <1>10, <2>1, GameChanges
<1> HIDE DEF old
<1>12. /\ SoundGames(c) /\ Frame(b, c, {}) /\ c.games[k] = a /\ active(c.games) = active(b.games)
       /\ \A j \in DOMAIN b.games \ {k} : c.games[j] = b.games[j]
  BY <1>3, <1>8, <1>11 DEF changed
<1>13. othersInPlay(c, k)
  BY <1>2, <1>12 DEF othersInPlay, active
<1>14. inTurn(a)
  BY <1>2, <1>8 DEF inTurn
<1>15. a.total = stakesOf(a.hands) + a.hands[a.turn].stake
  BY <1>2, <1>7, <1>8 DEF stake
<1> QED
  BY <1>8, <1>12, <1>13, <1>14, <1>15 DEF c, old

LEMMA Doubled ==
    ASSUME NEW b, SoundGames(b), HandsOK(b.games), NEW k \in active(b.games),
           handOnTurn(b.games[k]).stake <= b.funds, coveredRaise(b, k), NEW d \in doubled(b, k)
    PROVE  Leaves(b, d)
<1> DEFINE c == raised(b, k)
           g == c.games[k]
           a(card) == advancePlayerHand(doubledGame(g, card), c.funds)
<1>1. PICK card \in Ranks : d \in finalizeBlackjackProgress(c, k, a(card))
  <2>1. doubled(b, k) = UNION {finalizeBlackjackProgress(c, k, a(card)) : card \in Ranks}
    BY Zenon DEF doubled, doubledGame
  <2> HIDE DEF a, c, g
  <2> QED
    BY <2>1
<1>2. /\ SoundGames(c) /\ Frame(b, c, {}) /\ othersInPlay(c, k)
      /\ k \in active(c.games) /\ g \in GameRows /\ inTurn(g)
      /\ g.hands = b.games[k].hands
      /\ g.total = stakesOf(g.hands) + g.hands[g.turn].stake
  BY Raised
<1>3. Len(g.hands) <= MaxSplitHands
  BY <1>2, PlayedGame
<1>4. gameGoesOn(a(card), g)
  <2> HIDE DEF g, c
  <2> QED
    BY <1>2, <1>3, DoubleGoesOn
<1> HIDE DEF a, c
<1>5. SoundGames(d) /\ HandsOK(d.games) /\ Frame(c, d, {})
  BY <1>1, <1>2, <1>4, Finalized
<1>6. Frame(b, d, {})
  BY <1>2, <1>5, FramedTwice
<1> QED
  BY <1>5, <1>6 DEF Leaves

LEMMA SplitInTwo ==
    ASSUME NEW b, SoundGames(b), HandsOK(b.games), NEW k \in active(b.games),
           handOnTurn(b.games[k]).stake <= b.funds, coveredRaise(b, k),
           Len(b.games[k].hands) < MaxSplitHands,
           Len(handOnTurn(b.games[k]).cards) = 2, NEW d \in split(b, k)
    PROVE  Leaves(b, d)
<1> DEFINE c == raised(b, k)
           g == c.games[k]
           hand == g.hands[g.turn]
           half(n, card) == [hand EXCEPT !.cards = <<hand.cards[n], card>>,
                                         !.state = IF n = 1 THEN "active" ELSE "waiting",
                                         !.splitFromAces = hand.cards = <<1, 1>>]
           first(card) == halfHand(hand, 1, card, "active")
           second(card) == halfHand(hand, 2, card, "waiting")
           a(n, m) == advanceResolvableHands(splitGame(g, first(n), second(m)), g.turn, c.funds)
           b_(x) == advanceResolvableHands(splitGame(g, half(1, x[1]), half(2, x[2])), g.turn, c.funds)
<1>0. \A n, m : half(1, n) = first(n) /\ half(2, m) = second(m)
  BY DEF halfHand
<1>1. PICK n \in Ranks, m \in Ranks : d \in finalizeBlackjackProgress(c, k, a(n, m))
  <2>0. split(b, k) = UNION {finalizeBlackjackProgress(c, k, b_(x)) : x \in Ranks \X Ranks}
    BY Zenon DEF split, splitAt, splitGame
  <2>1. PICK y \in Ranks \X Ranks : d \in finalizeBlackjackProgress(c, k, a(y[1], y[2]))
    <3>1. PICK y \in Ranks \X Ranks : d \in finalizeBlackjackProgress(c, k, b_(y))
      <4> HIDE DEF b_, c
      <4> QED
        BY <2>0
    <3>2. b_(y) = a(y[1], y[2])
      <4> HIDE DEF half, first, second, g, c
      <4> QED
        BY <1>0
    <3> HIDE DEF a, b_, c
    <3> QED
      BY <3>1, <3>2
  <2>2. y[1] \in Ranks /\ y[2] \in Ranks
    OBVIOUS
  <2> HIDE DEF a
  <2> QED
    BY <2>1, <2>2
<1>2. /\ SoundGames(c) /\ Frame(b, c, {}) /\ othersInPlay(c, k)
      /\ k \in active(c.games) /\ g \in GameRows /\ inTurn(g)
      /\ g.hands = b.games[k].hands /\ g.turn = b.games[k].turn
      /\ g.total = stakesOf(g.hands) + g.hands[g.turn].stake
  BY Raised
<1>3. Len(g.hands) < MaxSplitHands /\ Len(hand.cards) = 2
  BY <1>2 DEF handOnTurn
<1>4. hand \in Hands
  <2> HIDE DEF g
  <2>1. g.hands \in Seq(Hands) /\ g.turn \in DOMAIN g.hands
    BY <1>2, GameFields DEF inTurn
  <2> QED
    BY <2>1, ListFacts
<1> HIDE DEF g, c
<1>5. /\ first(n) \in Hands /\ first(n).stake = hand.stake
      /\ second(m) \in Hands /\ second(m).stake = hand.stake /\ second(m).state = "waiting"
  <2> HIDE DEF hand
  <2> QED
    BY <1>3, <1>4, HalfHand
<1>6. gameGoesOn(a(n, m), g)
  <2> HIDE DEF first, second
  <2> QED
    BY <1>2, <1>3, <1>5, SplitGoesOn
<1> HIDE DEF a
<1>7. SoundGames(d) /\ HandsOK(d.games) /\ Frame(c, d, {})
  BY <1>1, <1>2, <1>6, Finalized DEF g
<1>8. Frame(b, d, {})
  BY <1>2, <1>7, FramedTwice
<1> QED
  BY <1>7, <1>8 DEF Leaves

LEMMA MovesLeave ==
    ASSUME NEW b, SoundGames(b), HandsOK(b.games), NEW k \in active(b.games), NEW action \in Actions,
           action \in getAvailableActions(b.games[k], b.funds), NEW c \in moved(b, k, action)
    PROVE  Leaves(b, c)
<1> DEFINE g == b.games[k]
           hand == g.hands[g.turn]
<1>1. CASE action = "stand"
  <2>1. c \in stood(b, k)
    BY <1>1 DEF moved
  <2> QED
    BY <2>1, StoodHand
<1>2. CASE action = "hit"
  <2>1. c \in hit(b, k)
    BY <1>2 DEF moved
  <2> QED
    BY <2>1, Hit
<1>3. CASE action = "double"
  <2>1. coveredRaise(b, k) /\ c \in doubled(b, k)
    BY <1>3 DEF moved
  <2>2. b.funds >= hand.stake
    BY <1>3 DEF getAvailableActions
  <2>3. hand.stake <= b.funds
    BY <2>2
  <2> QED
    BY <2>1, <2>3, Doubled DEF handOnTurn
<1>4. CASE action = "split"
  <2>1. coveredRaise(b, k) /\ c \in split(b, k)
    BY <1>4 DEF moved
  <2>2. canSplitHand(g, hand, b.funds)
    BY <1>4 DEF getAvailableActions
  <2>3. /\ b.funds >= hand.stake /\ Len(g.hands) < MaxSplitHands /\ Len(hand.cards) = 2
    BY <2>2 DEF canSplitHand, canSplitCards
  <2>4. hand.stake <= b.funds
    BY <2>3
  <2> QED
    BY <2>1, <2>3, <2>4, SplitInTwo DEF handOnTurn
<1> QED
  BY <1>1, <1>2, <1>3, <1>4 DEF Actions

-----------------------------------------------------------------------------
(* A game is dealt *)

\* A session that waits for its game.
Waits(rows, i) ==
    /\ i \in DOMAIN rows
    /\ rows[i].game = 0 /\ rows[i].status = "active" /\ ~isParent(rows, i)

refersTo(rows, i, k) == [rows EXCEPT ![i].game = k]

refers(new, rows, i, k) ==
    /\ new \in Seq(SessionRows) /\ DOMAIN new = DOMAIN rows
    /\ new[i].game = k
    /\ \A j \in DOMAIN rows :
        /\ new[j].mode = rows[j].mode /\ new[j].status = rows[j].status
        /\ new[j].parent = rows[j].parent /\ new[j].snapshot = rows[j].snapshot
        /\ j # i => new[j].game = rows[j].game

LEMMA SessionRefers ==
    ASSUME NEW rows \in Seq(SessionRows), NEW i \in DOMAIN rows, NEW k \in Nat
    PROVE  refers(refersTo(rows, i, k), rows, i, k)
<1> DEFINE row == [rows[i] EXCEPT !.game = k]
           new == refersTo(rows, i, k)
<1>1. rows[i] \in SessionRows
  BY ListFacts
<1>2. /\ row \in SessionRows /\ row.game = k /\ row.mode = rows[i].mode
      /\ row.status = rows[i].status /\ row.parent = rows[i].parent
      /\ row.snapshot = rows[i].snapshot
  BY <1>1 DEF SessionRows
<1>3. new = [rows EXCEPT ![i] = row]
  BY DEF refersTo
<1> HIDE DEF row, new
<1>4. /\ new \in Seq(SessionRows) /\ DOMAIN new = DOMAIN rows /\ new[i] = row
      /\ \A j \in DOMAIN rows \ {i} : new[j] = rows[j]
  BY <1>2, <1>3, ListUpdate
<1>5. \A j \in DOMAIN rows :
        /\ new[j].mode = rows[j].mode /\ new[j].status = rows[j].status
        /\ new[j].parent = rows[j].parent /\ new[j].snapshot = rows[j].snapshot
        /\ j # i => new[j].game = rows[j].game
  <2> TAKE j \in DOMAIN rows
  <2> QED
    BY <1>2, <1>4
<1> QED
  BY <1>2, <1>4, <1>5 DEF new, refers

\* The next game of the list, followed by a session that waited.
LEMMA LinkedDealt ==
    ASSUME NEW rows \in Seq(SessionRows), NEW played \in Seq(GameRows), Linked(rows, played),
           NEW i, Waits(rows, i), NEW g \in GameRows, g.mode.type = rows[i].mode
    PROVE  LET k == Len(played) + 1
               new == refersTo(rows, i, k)
           IN  Linked(new, Append(played, g)) /\ KeepsGames(rows, new, {i})
<1> DEFINE k == Len(played) + 1
           new == refersTo(rows, i, k)
           games_ == Append(played, g)
<1>1. /\ i \in DOMAIN rows /\ rows[i].game = 0 /\ rows[i].status = "active"
      /\ ~isParent(rows, i)
  BY DEF Waits
<1>2. /\ Len(played) \in Nat /\ DOMAIN played = 1..Len(played) /\ k \in Nat
      /\ k = Len(played) + 1
  BY ListFacts
<1>3. /\ games_ \in Seq(GameRows) /\ Len(games_) = k /\ DOMAIN games_ = DOMAIN played \cup {k}
      /\ games_[k] = g /\ k \notin DOMAIN played /\ \A j \in DOMAIN played : games_[j] = played[j]
  BY ListAppend
<1> HIDE DEF k, games_
<1>4. /\ DOMAIN new = DOMAIN rows /\ new[i].game = k
      /\ \A j \in DOMAIN rows :
            /\ new[j].mode = rows[j].mode /\ new[j].status = rows[j].status
            /\ new[j].parent = rows[j].parent /\ new[j].snapshot = rows[j].snapshot
            /\ j # i => new[j].game = rows[j].game
  <2>1. refers(new, rows, i, k)
    BY <1>1, <1>2, SessionRefers
  <2> QED
    BY <2>1 DEF refers
<1> HIDE DEF new
<1>5. References(rows, played) /\ Followed(rows, played) /\ Families(rows)
  BY DEF Linked
<1>6. \A p : isParent(new, p) <=> isParent(rows, p)
  BY <1>4 DEF isParent
<1>7. \A j \in DOMAIN rows : rows[j].game \in 0..Len(played) /\ rows[j].game # k
  BY <1>2, <1>5 DEF References
<1>8. References(new, games_)
  <2>1. ASSUME NEW j \in DOMAIN rows
        PROVE  /\ new[j].snapshot.type = new[j].mode
               /\ new[j].game \in 0..k
               /\ new[j].parent \in 0..(j - 1)
               /\ new[j].parent # 0 =>
                    new[new[j].parent].parent = 0 /\ new[new[j].parent].game = 0
    <3>1. /\ rows[j].snapshot.type = rows[j].mode
          /\ rows[j].parent \in 0..(j - 1)
      BY <1>5 DEF References
    <3>2. new[j].snapshot.type = new[j].mode /\ new[j].parent \in 0..(j - 1)
          /\ new[j].parent = rows[j].parent
      BY <1>4, <3>1
    <3>3. new[j].game \in 0..k
      <4>1. CASE j = i
        BY <1>2, <1>4, <4>1
      <4>2. CASE j # i
        BY <1>2, <1>4, <1>7, <4>2
      <4> QED
        BY <4>1, <4>2
    <3>4. new[j].parent # 0 => new[new[j].parent].parent = 0 /\ new[new[j].parent].game = 0
      <4> SUFFICES ASSUME rows[j].parent # 0
                   PROVE  new[rows[j].parent].parent = 0 /\ new[rows[j].parent].game = 0
        BY <3>2
      <4>1. rows[j].parent \in DOMAIN rows /\ rows[rows[j].parent].parent = 0
            /\ rows[rows[j].parent].game = 0 /\ isParent(rows, rows[j].parent)
        BY <1>5, ParentFacts
      <4>2. rows[j].parent # i
        BY <1>1, <4>1
      <4> QED
        BY <1>4, <4>1, <4>2
    <3> QED
      BY <3>2, <3>3, <3>4
  <2>2. \A j, m \in DOMAIN rows : j # m /\ new[j].game = new[m].game => new[j].game = 0
    <3> TAKE j \in DOMAIN rows, m \in DOMAIN rows
    <3> HAVE j # m /\ new[j].game = new[m].game
    <3>1. j # i /\ m # i
      BY <1>4, <1>7
    <3>2. rows[j].game = rows[m].game
      BY <1>4, <3>1
    <3> QED
      BY <1>4, <1>5, <3>1, <3>2 DEF References
  <2> QED
    BY <1>3, <1>4, <2>1, <2>2 DEF References
<1>9. Followed(new, games_)
  <2> SUFFICES ASSUME NEW j \in active(games_)
               PROVE  \E m \in DOMAIN new : follows(new[m], j, games_[j])
    BY DEF Followed
  <2>1. CASE j = k
    BY <1>1, <1>3, <1>4, <2>1 DEF follows
  <2>2. CASE j # k
    <3>1. j \in active(played) /\ games_[j] = played[j] /\ j # 0
      BY <1>2, <1>3, <2>2 DEF active
    <3>2. PICK m \in DOMAIN rows : follows(rows[m], j, played[j])
      BY <1>5, <3>1 DEF Followed
    <3>3. m # i
      BY <1>1, <3>1, <3>2 DEF follows
    <3> QED
      BY <1>4, <3>1, <3>2, <3>3 DEF follows
  <2> QED
    BY <2>1, <2>2
<1>10. Families(new)
  BY <1>4, <1>5, <1>6 DEF Families
<1>11. KeepsGames(rows, new, {i})
  BY <1>4, <1>6 DEF KeepsGames
<1> QED
  BY <1>8, <1>9, <1>10, <1>11 DEF Linked, new, games_, k

newGame(snapshot, stake, group, player, dealer) ==
    [status |-> "active", stake |-> stake, total |-> stake, payout |-> 0,
     hands |-> <<[cards |-> player, stake |-> stake, state |-> "active",
                  splitFromAces |-> FALSE]>>,
     turn |-> 1, dealer |-> dealer, clock |-> "running", group |-> group, mode |-> snapshot]

isNew(g, snapshot, stake, player) ==
    /\ g \in GameRows /\ g.status = "active" /\ g.stake = stake /\ g.total = stake
    /\ g.payout = 0 /\ g.mode = snapshot
    /\ scoreBlackjackCards(player).total < 21 => InPlay(g)

LEMMA NewGame ==
    ASSUME NEW snapshot \in Snapshots, NEW stake \in Nat, NEW group \in Nat,
           NEW player \in Ranks \X Ranks, NEW dealer \in Ranks \X Ranks
    PROVE  isNew(newGame(snapshot, stake, group, player, dealer), snapshot, stake, player)
<1> DEFINE hand == [cards |-> player, stake |-> stake, state |-> "active",
                    splitFromAces |-> FALSE]
           hands == <<hand>>
           g == newGame(snapshot, stake, group, player, dealer)
<1>1. player \in Seq(Ranks) /\ dealer \in Seq(Ranks)
  BY PairFacts
<1>2. /\ hand \in Hands /\ hand.stake = stake /\ hand.state = "active" /\ hand.cards = player
  BY <1>1 DEF Hands
<1> HIDE DEF hand
<1>3. hands \in Seq(Hands) /\ Len(hands) = 1 /\ hands[1] = hand
  BY <1>2
<1>4. DOMAIN hands = {1}
  OBVIOUS
<1>5. stakesOf(hands) = stake
  <2> DEFINE f == [i \in DOMAIN hands |-> hands[i].stake]
  <2>1. f[1] = stake /\ DOMAIN hands = {} \cup {1}
    BY <1>2, <1>3, <1>4
  <2> HIDE DEF hands, f
  <2>2. IsFiniteSet({}) /\ SumFunctionOnSet(f, {}) = 0
    BY FS_EmptySet, SumOfNone
  <2>3. SumFunctionOnSet(f, {} \cup {1}) = f[1] + SumFunctionOnSet(f, {})
    <3>1. \A x \in {} \cup {1} : f[x] \in Int
      BY <2>1
    <3> QED
      BY <2>2, <3>1, SumWith
  <2>4. stakesOf(hands) = SumFunctionOnSet(f, {} \cup {1})
    BY <2>1 DEF f, stakesOf
  <2> QED
    BY <2>1, <2>2, <2>3, <2>4
<1> HIDE DEF hands
<1>6. g = [status |-> "active", stake |-> stake, total |-> stake, payout |-> 0, hands |-> hands,
           turn |-> 1, dealer |-> dealer, clock |-> "running", group |-> group, mode |-> snapshot]
  BY DEF newGame, hands, hand
<1> HIDE DEF g
<1>7. /\ g \in GameRows /\ g.status = "active" /\ g.total = stake /\ g.payout = 0
      /\ g.mode = snapshot /\ g.hands = hands /\ g.turn = 1 /\ g.clock = "running"
      /\ g.stake = stake
  BY <1>1, <1>3, <1>6 DEF GameRows, GameStatuses
<1>8. ASSUME scoreBlackjackCards(player).total < 21 PROVE InPlay(g)
  <2>1. handTotal(g.hands[g.turn]) < 21
    BY <1>2, <1>3, <1>7, <1>8 DEF handTotal
  <2>2. waitsForHand(g)
    BY <1>2, <1>3, <1>4, <1>7, <2>1 DEF waitsForHand
  <2>3. Len(g.hands) <= MaxSplitHands
    <3>1. 1 <= MaxSplitHands
      BY BlackjackAssumption
    <3> QED
      BY <1>3, <1>7, <3>1
  <2> QED
    BY <1>5, <1>7, <2>2, <2>3 DEF InPlay
<1> QED
  BY <1>7, <1>8 DEF g, isNew

\* The rows after the stake of a new game is taken.
withDeal(b, i, g, stake) ==
    [b EXCEPT !.games = Append(b.games, g),
              !.sessions = refersTo(b.sessions, i, Len(b.games) + 1),
              !.funds = b.funds - stake, !.bank = b.bank + stake]

tookStake(c, b, i, g, stake) ==
    /\ c \in Rows /\ c.games = Append(b.games, g)
    /\ c.sessions = refersTo(b.sessions, i, Len(b.games) + 1)
    /\ c.funds = b.funds - stake /\ c.bank = b.bank + stake
    /\ c.preference = b.preference /\ c.deferred = b.deferred

LEMMA DealtRows ==
    ASSUME NEW b \in Rows, NEW i \in DOMAIN b.sessions, NEW g \in GameRows, NEW stake \in Nat,
           stake <= b.funds
    PROVE  tookStake(withDeal(b, i, g, stake), b, i, g, stake)
<1> DEFINE games_ == Append(b.games, g)
           sessions_ == refersTo(b.sessions, i, Len(b.games) + 1)
           funds_ == b.funds - stake
           bank_ == b.bank + stake
           c == withDeal(b, i, g, stake)
<1>1. /\ b.funds \in Nat /\ b.bank \in Int /\ b.games \in Seq(GameRows)
      /\ b.sessions \in Seq(SessionRows)
  BY RowsFields
<1>2. games_ \in Seq(GameRows)
  BY <1>1, ListAppend
<1>3. sessions_ \in Seq(SessionRows)
  <2>1. Len(b.games) + 1 \in Nat
    BY <1>1, ListFacts
  <2> QED
    BY <1>1, <2>1, SessionRefers DEF refers
<1>4. funds_ \in Nat /\ bank_ \in Int
  BY <1>1
<1>5. c = [b EXCEPT !.games = games_, !.sessions = sessions_, !.funds = funds_, !.bank = bank_]
  BY DEF withDeal
<1> HIDE DEF games_, sessions_, funds_, bank_, c
<1>6. /\ c \in Rows /\ c.games = games_ /\ c.sessions = sessions_ /\ c.funds = funds_
      /\ c.bank = bank_ /\ c.preference = b.preference /\ c.deferred = b.deferred
  BY <1>2, <1>3, <1>4, <1>5 DEF Rows
<1> QED
  BY <1>6 DEF games_, sessions_, funds_, bank_, c, tookStake

LEMMA GameAppended ==
    ASSUME NEW rows \in Seq(GameRows), NEW g \in GameRows
    PROVE  LET new == Append(rows, g)
               k == Len(rows) + 1
           IN  /\ DOMAIN new = DOMAIN rows \cup {k} /\ Len(new) = k /\ k \notin DOMAIN rows
               /\ new[k] = g /\ \A j \in DOMAIN rows : new[j] = rows[j]
               /\ active(new) = IF g.status = "active" THEN active(rows) \cup {k}
                                ELSE active(rows)
               /\ onlyStandard(new) => onlyStandard(rows) /\ g.mode.type = "standard"
<1> DEFINE new == Append(rows, g)
           k == Len(rows) + 1
<1>1. /\ DOMAIN new = DOMAIN rows \cup {k} /\ Len(new) = k /\ k \notin DOMAIN rows
      /\ new[k] = g /\ \A j \in DOMAIN rows : new[j] = rows[j]
  BY ListAppend
<1> HIDE DEF new, k
<1>2. active(new) = IF g.status = "active" THEN active(rows) \cup {k} ELSE active(rows)
  BY <1>1 DEF active
<1>3. onlyStandard(new) => onlyStandard(rows) /\ g.mode.type = "standard"
  BY <1>1 DEF onlyStandard
<1> QED
  BY <1>1, <1>2, <1>3 DEF new, k

dealtIn(c, b, i, g) ==
    /\ SoundGames(c) /\ Frame(b, c, {i}) /\ c.games = Append(b.games, g)
    /\ c.sessions[i].game = Len(b.games) + 1
    /\ c.sessions[i].status = "active" /\ c.sessions[i].parent = b.sessions[i].parent
    /\ c.sessions[i].mode = b.sessions[i].mode /\ i \in DOMAIN c.sessions
    /\ c.bank = b.bank + g.total

\* A new game is paid for, and the pool can pay what it may win.
LEMMA DealtIsSound ==
    ASSUME NEW b, SoundGames(b), NEW i, Waits(b.sessions, i), NEW g \in GameRows,
           g.status = "active", g.payout = 0, g.total <= b.funds,
           g.mode.type = b.sessions[i].mode,
           g.mode.type = "standard" => active(b.games) = {},
           100 * (b.bank + g.total - PoolReserve) >= payout(g.total, WinPct)
    PROVE  dealtIn(withDeal(b, i, g, g.total), b, i, g)
<1> DEFINE stake == g.total
           c == withDeal(b, i, g, stake)
           old == b.games
           new == Append(old, g)
           k == Len(old) + 1
           t == refersTo(b.sessions, i, k)
<1>1. /\ b \in Rows /\ old \in Seq(GameRows) /\ b.sessions \in Seq(SessionRows)
      /\ b.funds \in Nat /\ b.bank \in Int /\ b.deferred \in [Modes -> Nat]
      /\ stake \in Nat /\ i \in DOMAIN b.sessions
  BY RowsFields, GameFields DEF SoundGames, Waits
<1>2. /\ c \in Rows /\ c.games = new /\ c.sessions = t
      /\ c.funds = b.funds - stake /\ c.bank = b.bank + stake
      /\ c.preference = b.preference /\ c.deferred = b.deferred
  <2>1. stake \in Nat /\ stake <= b.funds
    BY <1>1
  <2> HIDE DEF stake
  <2>2. tookStake(c, b, i, g, stake)
    BY <1>1, <2>1, DealtRows
  <2> QED
    BY <2>2 DEF tookStake
<1>3. /\ DOMAIN new = DOMAIN old \cup {k} /\ Len(new) = k /\ k \notin DOMAIN old
      /\ new[k] = g /\ \A j \in DOMAIN old : new[j] = old[j]
      /\ active(new) = active(old) \cup {k}
      /\ onlyStandard(new) => onlyStandard(old) /\ g.mode.type = "standard"
  BY <1>1, GameAppended
<1>4. totalsOf(new) = totalsOf(old) + g.total /\ payoutsOf(new) = payoutsOf(old) + g.payout
  BY <1>1, TotalsAppended
<1>5. Linked(t, new) /\ KeepsGames(b.sessions, t, {i})
  BY <1>1, LinkedDealt DEF SoundGames
<1>6. k \in Nat
  BY <1>1, ListFacts
<1>7. /\ t[i].game = k /\ t[i].mode = b.sessions[i].mode /\ t[i].status = b.sessions[i].status
      /\ t[i].parent = b.sessions[i].parent /\ i \in DOMAIN t
  <2> HIDE DEF k
  <2>1. refers(t, b.sessions, i, k)
    BY <1>1, <1>6, SessionRefers
  <2> QED
    BY <1>1, <2>1 DEF refers
<1> HIDE DEF c, new, t, k
<1>8. Balanced(c)
  <2>1. /\ b.funds + heldOf(b.deferred) = Wallet - totalsOf(old) + payoutsOf(old)
        /\ b.funds + b.bank - (Wallet + Pool) \in 0..Cardinality(paidIn(old))
    BY DEF SoundGames, Balanced
  <2>2. totalsOf(old) \in Int /\ payoutsOf(old) \in Int /\ heldOf(b.deferred) \in Int
    BY <1>1, TotalsAreInt, HeldIsInt
  <2> DEFINE T == totalsOf(old)
             P == payoutsOf(old)
             H == heldOf(b.deferred)
             F == b.funds
             M == b.bank
             N == Cardinality(paidIn(old))
  <2>3. /\ totalsOf(new) = T + stake /\ payoutsOf(new) = P + 0
        /\ Cardinality(paidIn(new)) = N /\ N \in Nat
    BY <1>1, <1>4, PaidAppended, PaidAreFinite DEF new
  <2>4. c.funds = F - stake /\ c.bank = M + stake /\ heldOf(c.deferred) = H
    BY <1>2
  <2>5. /\ T \in Int /\ P \in Int /\ H \in Int /\ F \in Nat /\ M \in Int /\ stake \in Nat
        /\ F + H = Wallet - T + P /\ F + M - (Wallet + Pool) \in 0..N
    BY <1>1, <2>1, <2>2
  <2> HIDE DEF T, P, H, F, M, N, stake
  <2>6. /\ F - stake + H = Wallet - (T + stake) + (P + 0)
        /\ (F - stake) + (M + stake) - (Wallet + Pool) \in 0..N
    BY <2>3, <2>5, Multipliers
  <2> QED
    BY <1>2, <2>3, <2>4, <2>6 DEF Balanced
<1>9. Unpaid(new)
  <2> SUFFICES ASSUME NEW j \in active(new) PROVE new[j].payout = 0
    BY DEF Unpaid
  <2>1. CASE j = k
    BY <1>3, <2>1
  <2>2. CASE j # k
    BY <1>3, <2>2 DEF active, SoundGames, Unpaid
  <2> QED
    BY <2>1, <2>2
<1>10. NothingHeld(new, c.deferred)
  BY <1>2, <1>3 DEF SoundGames, NothingHeld
<1>11. Reserved(new, c.bank)
  <2> SUFFICES ASSUME Prudent(new)
               PROVE  /\ c.bank >= PoolReserve
                      /\ \A j, m \in active(new) : j = m
                      /\ \A j \in active(new) :
                            100 * (c.bank - PoolReserve) >= payout(new[j].total, WinPct)
    BY DEF Reserved
  <2>1. Prudent(old) /\ active(old) = {}
    BY <1>3 DEF Prudent
  <2>2. active(new) = {k} /\ new[k].total = stake
    BY <1>3, <2>1
  <2>3. b.bank >= PoolReserve
    BY <2>1 DEF SoundGames, Reserved
  <2>4. c.bank >= PoolReserve /\ 100 * (c.bank - PoolReserve) >= payout(stake, WinPct)
    <3> DEFINE M == b.bank
               won == payout(stake, WinPct)
               left == c.bank
    <3>1. /\ M \in Int /\ stake \in Nat /\ M >= PoolReserve /\ left = M + stake
          /\ 100 * (M + stake - PoolReserve) >= won
      BY <1>1, <1>2, <2>3
    <3>2. won \in Nat
      BY <1>1, Multipliers, PayoutFacts
    <3> HIDE DEF M, won, left, stake
    <3>3. left >= PoolReserve /\ 100 * (left - PoolReserve) >= won
      BY <3>1, <3>2, Multipliers
    <3> QED
      BY <3>3 DEF left, won
  <2> QED
    BY <2>2, <2>4
<1>12. SoundGames(c)
  BY <1>2, <1>5, <1>8, <1>9, <1>10, <1>11 DEF SoundGames
<1>13. NoneReopened(old, new)
  BY <1>3 DEF NoneReopened
<1>14. Frame(b, c, {i})
  BY <1>2, <1>5, <1>13 DEF Frame
<1>15. b.sessions[i].status = "active"
  BY DEF Waits
<1> QED
  BY <1>2, <1>7, <1>12, <1>14, <1>15 DEF dealtIn, c, new, k

\* What the deal of a game for session i leaves, whether it goes on or is settled at once.
dealLeaves(c, b, i) ==
    /\ SoundGames(c) /\ HandsOK(c.games) /\ Frame(b, c, {i})
    /\ Len(c.games) = Len(b.games) + 1
    /\ c.sessions[i].game = Len(b.games) + 1
    /\ c.games[Len(c.games)].status # "active" /\ b.sessions[i].parent = 0 =>
        c.preference.type = b.sessions[i].mode

LEMMA FirstStatus ==
    ASSUME NEW p \in Ranks \X Ranks, NEW d \in Ranks \X Ranks
    PROVE  LET status == resolveInitialOutcome(scoreBlackjackCards(p), scoreBlackjackCards(d))
           IN  /\ status \in GameStatuses
               /\ status = "active" => scoreBlackjackCards(p).total < 21
<1> DEFINE x == scoreBlackjackCards(p)
           y == scoreBlackjackCards(d)
<1>1. x.total \in Int /\ x.total <= 21 /\ (x.blackjack <=> x.total = 21)
  BY PairFacts, ScoreIsInt, FirstCards
<1> HIDE DEF x, y
<1>2. LET status == resolveInitialOutcome(x, y)
      IN  status \in GameStatuses /\ (status = "active" => x.total < 21)
  BY <1>1 DEF resolveInitialOutcome, GameStatuses
<1> QED
  BY <1>2 DEF x, y

LEMMA Dealt ==
    ASSUME NEW b, SoundGames(b), HandsOK(b.games), NEW i, Waits(b.sessions, i),
           NEW snapshot \in Snapshots, snapshot.type = b.sessions[i].mode,
           NEW stake \in Nat, NEW group \in Nat, group = 0 \/ snapshot.type # "standard",
           canStart(b, stake, group), NEW p \in Ranks \X Ranks, NEW d \in Ranks \X Ranks
    PROVE  dealLeaves(dealt(b, i, snapshot, stake, group, p, d), b, i)
<1> DEFINE k == Len(b.games) + 1
           g == newGame(snapshot, stake, group, p, d)
           a == withDeal(b, i, g, stake)
           status == resolveInitialOutcome(scoreBlackjackCards(p), scoreBlackjackCards(d))
           c == dealt(b, i, snapshot, stake, group, p, d)
           paid == CASE status = "player_blackjack" -> payout(a.games[k].stake, NaturalPct)
                     [] status = "push" -> payout(a.games[k].total, PushPct)
                     [] OTHER -> 0
<1>1. /\ b \in Rows /\ b.funds \in Nat /\ b.bank \in Int /\ b.games \in Seq(GameRows)
      /\ k \in Nat
  BY RowsFields, ListFacts DEF SoundGames
<1>2. /\ g \in GameRows /\ g.status = "active" /\ g.total = stake /\ g.payout = 0
      /\ g.mode = snapshot /\ g.stake = stake
      /\ scoreBlackjackCards(p).total < 21 => InPlay(g)
  <2>1. isNew(g, snapshot, stake, p)
    BY NewGame
  <2> QED
    BY <2>1 DEF isNew
<1>3. status \in GameStatuses /\ (status = "active" => scoreBlackjackCards(p).total < 21)
  BY FirstStatus
<1>4. c = IF status = "active" THEN a ELSE settleGameByStatus(a, k, status, i)
  <2>1. a = applyStakeDebit([b EXCEPT !.games = Append(@, g), !.sessions[i].game = k], stake)
    <3> HIDE DEF g
    <3> QED
      BY DEF withDeal, applyStakeDebit, refersTo
  <2> DEFINE opened == applyStakeDebit([b EXCEPT !.games = Append(@, g), !.sessions[i].game = k], stake)
  <2>2. c = IF status = "active" THEN opened ELSE settleGameByStatus(opened, k, status, i)
    BY DEF dealt, newGame
  <2> HIDE DEF opened, status, a, c, k
  <2> QED
    BY <2>1, <2>2 DEF opened, k
<1>5. /\ stake <= b.funds
      /\ 100 * (b.bank + stake - PoolReserve) >= payout(stake, NaturalPct)
      /\ group = 0 => active(b.games) = {}
  <2>1. activeGames(b) = active(b.games)
    BY DEF activeGames, active
  <2>2. /\ \A j \in active(b.games) : group # 0
        /\ b.funds >= stake
        /\ 100 * (b.bank + stake - PoolReserve) >= payout(stake, NaturalPct)
    BY <2>1 DEF canStart, ensurePoolCanCover
  <2>3. stake <= b.funds
    BY <1>1, <2>2
  <2> QED
    BY <2>2, <2>3
<1> DEFINE natural == payout(stake, NaturalPct)
           win == payout(stake, WinPct)
           push == payout(stake, PushPct)
           left == b.bank + stake
<1>6. /\ natural \in Nat /\ win \in Nat /\ push \in Nat /\ win <= natural
      /\ PushPct <= WinPct => push <= win
  BY Multipliers, PayoutFacts, LargerMultiplier
<1>7. left \in Int /\ 100 * (left - PoolReserve) >= natural
  <2> DEFINE m == b.bank
  <2>1. m \in Int /\ 100 * (m + stake - PoolReserve) >= natural /\ left = m + stake
    BY <1>1, <1>5
  <2> HIDE DEF m, natural, left
  <2> QED
    BY <1>6, <2>1, Multipliers
<1>8. 100 * (b.bank + stake - PoolReserve) >= win
  <2> DEFINE m == b.bank
  <2>1. m \in Int /\ left = m + stake
    BY <1>1
  <2> HIDE DEF natural, win, push, left, m
  <2>2. 100 * (m + stake - PoolReserve) >= win
    BY <1>6, <1>7, <2>1, Multipliers
  <2> QED
    BY <2>2 DEF m
<1> HIDE DEF natural, push, k, g, status, c
<1>9. dealtIn(a, b, i, g)
  <2>1. /\ g.total <= b.funds /\ g.mode.type = b.sessions[i].mode
        /\ g.mode.type = "standard" => active(b.games) = {}
        /\ 100 * (b.bank + g.total - PoolReserve) >= payout(g.total, WinPct)
    BY <1>2, <1>5, <1>8
  <2> QED
    BY <1>2, <2>1, DealtIsSound
<1> HIDE DEF a, win
<1>10. /\ SoundGames(a) /\ Frame(b, a, {i}) /\ a.games = Append(b.games, g)
       /\ a.sessions[i].game = k /\ a.sessions[i].status = "active"
       /\ a.sessions[i].parent = b.sessions[i].parent
       /\ a.sessions[i].mode = b.sessions[i].mode /\ i \in DOMAIN a.sessions
       /\ a.bank = left
  BY <1>2, <1>9 DEF dealtIn, k
<1>11. /\ DOMAIN a.games = DOMAIN b.games \cup {k} /\ Len(a.games) = k /\ k \notin DOMAIN b.games
       /\ a.games[k] = g /\ \A j \in DOMAIN b.games : a.games[j] = b.games[j]
       /\ active(a.games) = active(b.games) \cup {k}
       /\ onlyStandard(a.games) => onlyStandard(b.games) /\ g.mode.type = "standard"
  BY <1>1, <1>2, <1>10, GameAppended DEF k
<1>12. CASE status = "active"
  <2>1. c = a
    BY <1>4, <1>12
  <2>2. HandsOK(a.games)
    <3> SUFFICES ASSUME NEW j \in active(a.games) PROVE InPlay(a.games[j])
      BY DEF HandsOK
    <3>1. CASE j = k
      BY <1>2, <1>3, <1>11, <1>12, <3>1
    <3>2. CASE j # k
      BY <1>11, <3>2 DEF HandsOK, active
    <3> QED
      BY <3>1, <3>2
  <2>3. a.games[Len(a.games)].status = "active"
    BY <1>2, <1>11
  <2> QED
    BY <1>10, <1>11, <2>1, <2>2, <2>3 DEF dealLeaves, c, k
<1>13. CASE status # "active"
  <2>1. a.games[k].stake = stake /\ a.games[k].total = stake
    BY <1>2, <1>11
  <2>2. paid \in {natural, push, 0}
    BY <2>1 DEF natural, push
  <2>3. c = persistSettledBlackjackPlayMode(
                applyPayoutCredit(a, k, a.games[k], status, paid), k, i)
    BY <1>4, <1>13 DEF settleGameByStatus
  <2> HIDE DEF paid, left
  <2>4. paid \in Nat
    BY <1>6, <2>2
  <2>5. affords(a, paid)
    <3> SUFFICES ASSUME Prudent(a.games) PROVE paid <= 100 * (a.bank - PoolReserve)
      BY DEF affords
    <3>1. PushPct <= WinPct
      BY DEF Prudent
    <3>2. paid \in Nat /\ paid <= natural
      BY <1>6, <2>2, <3>1
    <3>3. 100 * (left - PoolReserve) \in Int
      BY <1>7, Multipliers
    <3>4. paid <= 100 * (left - PoolReserve)
      BY <1>6, <1>7, <3>2, <3>3
    <3> QED
      BY <1>10, <3>4
  <2>6. k \in active(a.games) /\ a.games[k] \in GameRows
    BY <1>2, <1>11
  <2>7. follows(a.sessions[i], k, a.games[k])
    BY <1>2, <1>10, <1>11 DEF follows
  <2>8. settledIn(c, a, k, i)
    BY <1>3, <1>10, <1>13, <2>3, <2>4, <2>5, <2>6, <2>7, Settled
  <2>9. /\ SoundGames(c) /\ Frame(a, c, {}) /\ Len(c.games) = k
        /\ \A j \in DOMAIN a.games \ {k} : c.games[j] = a.games[j]
        /\ active(c.games) = active(a.games) \ {k}
        /\ a.sessions[i].parent = 0 => c.preference.type = a.sessions[i].mode
    BY <1>11, <2>8 DEF settledIn
  <2>10. HandsOK(c.games)
    BY <1>11, <2>9 DEF HandsOK, active
  <2>11. Frame(b, c, {i})
    BY <1>10, <2>9, FramedTwice
  <2>12. c.sessions[i].game = k
    BY <1>10, <2>9 DEF Frame, KeepsGames
  <2> QED
    BY <1>10, <2>9, <2>10, <2>11, <2>12 DEF dealLeaves, c, k
<1> QED
  BY <1>12, <1>13

LEMMA StartedGame ==
    ASSUME NEW b, SoundGames(b), HandsOK(b.games), NEW i, Waits(b.sessions, i),
           NEW snapshot \in Snapshots, snapshot.type = b.sessions[i].mode,
           NEW stake \in Nat, NEW group \in Nat, group = 0 \/ snapshot.type # "standard",
           NEW c \in startResolvedBlackjackInTransaction(b, i, snapshot, stake, group)
    PROVE  dealLeaves(c, b, i)
<1>1. canStart(b, stake, group)
  BY DEF startResolvedBlackjackInTransaction
<1>2. PICK d \in Deals : c = dealt(b, i, snapshot, stake, group, d[1], d[2])
  BY <1>1 DEF startResolvedBlackjackInTransaction
<1>3. d \in (Ranks \X Ranks) \X (Ranks \X Ranks)
  BY BlackjackAssumption
<1>4. d[1] \in Ranks \X Ranks /\ d[2] \in Ranks \X Ranks
  BY <1>3
<1> QED
  BY <1>1, <1>2, <1>4, Dealt

\* Both legs of a dual bet start with their parent, or nothing does.
LEMMA DualBetOpens ==
    ASSUME NEW b, SoundGames(b), HandsOK(b.games), NEW snapshot \in Snapshots,
           snapshot.type = "dual_bet", NEW stake \in Nat, NEW d \in openDualBet(b, snapshot, stake)
    PROVE  Leaves(b, d)
<1> DEFINE parent == Len(b.sessions) + 1
           first == startPlayModeSession(b, snapshot, 0)
           second == startPlayModeSession(first, snapshot, parent)
           third == startPlayModeSession(second, snapshot, parent)
           leg(c, n) == startResolvedBlackjackInTransaction(c, parent + n, snapshot, stake, parent)
<1>1. Len(b.sessions) \in Nat /\ DOMAIN b.sessions = 1..Len(b.sessions)
  BY RowsFields, ListFacts DEF SoundGames
<1>2. PICK x \in leg(third, 1) : d \in leg(x, 2)
  BY DEF openDualBet
<1>3. PICK p \in Nat : p = parent
  BY <1>1
<1>4. PICK m \in Nat, n \in Nat : m = p + 1 /\ n = p + 2
  <2> HIDE DEF leg, third, parent
  <2>1. p + 1 \in Nat /\ p + 2 \in Nat
    OBVIOUS
  <2> QED
    BY <2>1
<1>5. startsIn(first, b, p, snapshot, 0)
  <2>1. startsIn(first, b, parent, snapshot, 0)
    <3> HIDE DEF leg, third
    <3> QED
      BY SessionStarts
  <2> HIDE DEF leg, third, first, parent
  <2> QED
    BY <1>3, <2>1
<1> HIDE DEF first
<1> HIDE DEF second, third, leg, parent
<1>6. p # 0 /\ p # m /\ p # n /\ m # n /\ p \notin DOMAIN b.sessions /\ m \notin DOMAIN b.sessions
      /\ n \notin DOMAIN b.sessions /\ 0 \notin DOMAIN b.sessions
  <2> DEFINE l == Len(b.sessions)
  <2>1. l \in Nat /\ DOMAIN b.sessions = 1..l /\ p = l + 1
    BY <1>1, <1>3 DEF parent
  <2> HIDE DEF l
  <2>2. m = l + 2 /\ n = l + 3
    BY <1>4, <2>1
  <2> QED
    BY <2>1, <2>2
<1>7. Len(first.sessions) + 1 = m
  BY <1>4, <1>5 DEF startsIn
<1>8. second = startPlayModeSession(first, snapshot, p)
      /\ third = startPlayModeSession(second, snapshot, p)
  BY <1>3 DEF second, third
<1>9. /\ x \in startResolvedBlackjackInTransaction(third, m, snapshot, stake, p)
      /\ d \in startResolvedBlackjackInTransaction(x, n, snapshot, stake, p)
  BY <1>2, <1>3, <1>4 DEF leg
<1>10. startsIn(second, first, m, snapshot, p)
  <2>1. /\ SoundGames(first) /\ p \in DOMAIN first.sessions /\ first.sessions[p].parent = 0
        /\ first.sessions[p].game = 0 /\ first.sessions[p].status = "active"
    BY <1>5 DEF startsIn
  <2> QED
    BY <1>7, <1>8, <2>1, SessionStarts
<1>11. Len(second.sessions) + 1 = n
  <2>1. Len(second.sessions) = m /\ n = m + 1
    BY <1>4, <1>10 DEF startsIn
  <2> QED
    BY <2>1
<1>12. startsIn(third, second, n, snapshot, p)
  <2>1. /\ p \in DOMAIN first.sessions /\ first.sessions[p].parent = 0
        /\ first.sessions[p].game = 0 /\ first.sessions[p].status = "active"
    BY <1>5 DEF startsIn
  <2>2. /\ SoundGames(second) /\ p \in DOMAIN second.sessions
        /\ second.sessions[p] = first.sessions[p]
    BY <1>10, <2>1 DEF startsIn
  <2> QED
    BY <1>8, <1>11, <2>1, <2>2, SessionStarts
<1>13. SoundGames(third) /\ third.games = b.games
  BY <1>5, <1>10, <1>12 DEF startsIn
<1>14. Waits(third.sessions, m) /\ third.sessions[m].mode = snapshot.type
  <2>1. /\ m \in DOMAIN second.sessions /\ second.sessions[m].game = 0
        /\ second.sessions[m].status = "active" /\ ~isParent(second.sessions, m)
        /\ second.sessions[m].mode = snapshot.type
    BY <1>10 DEF startsIn
  <2>2. third.sessions[m] = second.sessions[m] /\ m \in DOMAIN third.sessions
    BY <1>12, <2>1 DEF startsIn
  <2>3. KeepsGames(second.sessions, third.sessions, {p})
    BY <1>12 DEF startsIn, Frame
  <2>4. ~isParent(third.sessions, m)
    BY <1>6, <2>1, <2>3 DEF KeepsGames
  <2> QED
    BY <2>1, <2>2, <2>4 DEF Waits
<1>15. Waits(third.sessions, n) /\ third.sessions[n].mode = snapshot.type
  BY <1>12 DEF startsIn, Waits
<1>16. HandsOK(third.games)
  BY <1>13
<1>17. dealLeaves(x, third, m)
  BY <1>9, <1>13, <1>14, <1>16, StartedGame
<1>18. Waits(x.sessions, n) /\ x.sessions[n].mode = snapshot.type
  <2>1. KeepsGames(third.sessions, x.sessions, {m})
    BY <1>17 DEF dealLeaves, Frame
  <2> QED
    BY <1>6, <1>15, <2>1 DEF KeepsGames, Waits
<1>19. dealLeaves(d, x, n)
  <2>1. SoundGames(x) /\ HandsOK(x.games)
    BY <1>17 DEF dealLeaves
  <2> QED
    BY <1>9, <1>18, <2>1, StartedGame
<1>20. Frame(b, d, {})
  <2> DEFINE Z == {0, p, m, n}
  <2>1. /\ Frame(b, first, {0}) /\ Frame(first, second, {p}) /\ Frame(second, third, {p})
        /\ Frame(third, x, {m}) /\ Frame(x, d, {n})
    BY <1>5, <1>10, <1>12, <1>17, <1>19 DEF startsIn, dealLeaves
  <2>2. Frame(b, second, Z)
    BY <2>1, FramedTwice
  <2>3. Frame(b, third, Z)
    BY <2>1, <2>2, FramedTwice
  <2>4. Frame(b, x, Z)
    BY <2>1, <2>3, FramedTwice
  <2>5. (Z \cup {n}) \cap DOMAIN b.sessions \subseteq {}
    BY <1>6
  <2> HIDE DEF Z
  <2> QED
    BY <2>1, <2>4, <2>5, FramedTwice
<1> QED
  BY <1>19, <1>20 DEF dealLeaves, Leaves

-----------------------------------------------------------------------------
(* Requests, and what the transactions of others keep for them *)

LEMMA BooksFields ==
    /\ books.preference = preference /\ books.sessions = sessions /\ books.deferred = deferred
    /\ books.games = games /\ books.funds = funds /\ books.bank = bank
BY DEF books

LEMMA Committed ==
    ASSUME NEW c \in Rows, committed(c)
    PROVE  books' = c
<1>1. books' = [preference |-> c.preference, sessions |-> c.sessions, deferred |-> c.deferred,
                games |-> c.games, funds |-> c.funds, bank |-> c.bank]
  BY DEF books, committed
<1>2. c = [preference |-> c.preference, sessions |-> c.sessions, deferred |-> c.deferred,
           games |-> c.games, funds |-> c.funds, bank |-> c.bank]
  BY DEF Rows
<1> QED
  BY <1>1, <1>2

LEMMA Unchanged ==
    ASSUME UNCHANGED bookVars
    PROVE  books' = books
BY DEF books, bookVars

RequestSteps == {"idle", "refresh", "dual", "session", "start", "prefer", "cancel"}

Holding == {"start", "prefer", "cancel"}

LEMMA StateFields ==
    /\ \A s \in RequestStates : /\ s.pc \in RequestSteps /\ s.snapshot \in Snapshots
                                /\ s.settled \in Snapshots
                                /\ s.session \in Nat /\ s.stake \in Nat
    /\ NoStart \in RequestStates /\ NoStart.pc = "idle"
<1>1. createDefaultPlayModeSnapshot("standard") \in Snapshots
  BY SnapshotFields, ModesAssumption
<1> QED
  BY <1>1 DEF RequestStates, RequestSteps, NoStart

newRequest(t, stake) == [NoStart EXCEPT !.pc = "refresh", !.snapshot = t, !.stake = stake]

LEMMA NewRequest ==
    ASSUME NEW stake \in Nat, NEW t \in Snapshots
    PROVE  newRequest(t, stake) \in RequestStates /\ newRequest(t, stake).pc = "refresh"
<1> DEFINE x == [NoStart EXCEPT !.pc = "refresh"]
           y == [x EXCEPT !.snapshot = t]
           z == [y EXCEPT !.stake = stake]
<1>1. x \in RequestStates /\ x.pc = "refresh"
  BY StateFields DEF RequestStates
<1> HIDE DEF x
<1>2. y \in RequestStates /\ y.pc = "refresh"
  BY <1>1 DEF RequestStates
<1> HIDE DEF y
<1>3. z \in RequestStates /\ z.pc = "refresh"
  BY <1>2 DEF RequestStates
<1> QED
  BY <1>3 DEF x, y, newRequest

\* What a request relies on survives the transactions of others.
LEMMA RequestKept ==
    ASSUME NEW b \in Rows, References(b.sessions, b.games), NEW c \in Rows, NEW X, Frame(b, c, X),
           NEW s, RequestOK(s, b.sessions, b.games), s.pc \in Holding => s.session \notin X
    PROVE  RequestOK(s, c.sessions, c.games)
<1> DEFINE i == s.session
           rows == b.sessions
           new == c.sessions
<1>1. CASE s.pc \notin Holding
  BY <1>1 DEF RequestOK, Holding
<1>2. CASE s.pc \in Holding
  <2>1. /\ i \in DOMAIN rows /\ rows[i].mode = s.snapshot.type /\ rows[i].parent = 0
        /\ ~isParent(rows, i) /\ i \notin X
    BY <1>2 DEF RequestOK, OwnsSession, Holding
  <2>2. KeepsGames(rows, new, X) /\ NoneReopened(b.games, c.games)
    BY DEF Frame
  <2>3. /\ i \in DOMAIN new /\ new[i].mode = rows[i].mode /\ new[i].parent = 0
        /\ ~isParent(new, i) /\ new[i].game = rows[i].game
        /\ rows[i].game = 0 => new[i].status = rows[i].status
    BY <2>1, <2>2 DEF KeepsGames
  <2>4. OwnsSession(s, new)
    BY <2>1, <2>3 DEF OwnsSession
  <2>5. rows[i].game \notin active(b.games) => rows[i].game \notin active(c.games)
    <3>1. rows[i].game \in 0..Len(b.games)
      BY <2>1 DEF References
    <3>2. /\ DOMAIN b.games = 1..Len(b.games) /\ Len(b.games) \in Nat /\ 0 \notin DOMAIN c.games
      BY RowsFields, ListFacts
    <3>3. rows[i].game = 0 \/ rows[i].game \in DOMAIN b.games
      BY <3>1, <3>2
    <3> QED
      BY <2>2, <3>2, <3>3 DEF NoneReopened, active
  <2> QED
    BY <2>3, <2>4, <2>5 DEF RequestOK
<1> QED
  BY <1>1, <1>2

\* A transaction of a request that becomes s and may change the sessions of X.
LEMMA RequestStep ==
    ASSUME GamesInv, NEW c, SoundGames(c), HandsOK(c.games), books' = c, NEW X, Frame(books, c, X),
           NEW r \in StartRequests, NEW s \in RequestStates, starts' = [starts EXCEPT ![r] = s],
           RequestOK(s, c.sessions, c.games),
           \A q \in StartRequests \ {r} : holdsSession(q) => starts[q].session \notin X,
           s.pc \in Holding =>
               \A q \in StartRequests \ {r} : holdsSession(q) => starts[q].session # s.session
    PROVE  GamesInv'
<1>1. games' = c.games /\ sessions' = c.sessions
  BY DEF books
<1>2. SoundGames(books)' /\ HandsOK(games)'
  BY <1>1 DEF HandsOK, SoundGames, active, Balanced, totalsOf, payoutsOf, heldOf, Linked, References,
         Followed, Families, follows, isParent, Unpaid, NothingHeld, Reserved, Prudent,
         onlyStandard
<1>3. books \in Rows /\ References(books.sessions, books.games) /\ c \in Rows
  BY DEF GamesInv, SoundGames, Linked
<1>4. starts \in [StartRequests -> RequestStates] /\ starts' \in [StartRequests -> RequestStates]
  BY DEF GamesInv, RequestsOK
<1>5. /\ starts'[r] = s
      /\ \A q \in StartRequests \ {r} : starts'[q] = starts[q]
  BY <1>4
<1>6. \A q \in StartRequests : RequestOK(starts'[q], c.sessions, c.games)
  <2> SUFFICES ASSUME NEW q \in StartRequests, q # r
               PROVE  RequestOK(starts[q], c.sessions, c.games)
    BY <1>5
  <2>1. RequestOK(starts[q], books.sessions, books.games)
    BY BooksFields DEF GamesInv, RequestsOK
  <2>2. starts[q].pc \in Holding => starts[q].session \notin X
    BY DEF holdsSession, Holding
  <2> QED
    BY <1>3, <2>1, <2>2, RequestKept
<1>7. \A p, q \in StartRequests :
        p # q /\ starts'[p].pc \in Holding /\ starts'[q].pc \in Holding
            => starts'[p].session # starts'[q].session
  <2>1. \A p, q \in StartRequests :
            p # q /\ starts[p].pc \in Holding /\ starts[q].pc \in Holding
                => starts[p].session # starts[q].session
    BY DEF GamesInv, RequestsOK, holdsSession, Holding
  <2>2. s.pc \in Holding =>
            \A q \in StartRequests \ {r} :
                starts[q].pc \in Holding => starts[q].session # s.session
    BY DEF holdsSession, Holding
  <2> QED
    BY <1>5, <2>1, <2>2
<1>8. RequestsOK'
  BY <1>1, <1>4, <1>6, <1>7 DEF RequestsOK, holdsSession, Holding
<1> QED
  BY <1>2, <1>8 DEF GamesInv

\* A transaction that no request makes, or the last one of a request.
LEMMA GamesStep ==
    ASSUME GamesInv, NEW c, Leaves(books, c), books' = c, UNCHANGED starts
    PROVE  GamesInv'
<1>1. games' = c.games /\ sessions' = c.sessions
  BY DEF books
<1>2. SoundGames(books)' /\ HandsOK(games)'
  BY <1>1 DEF Leaves, HandsOK, SoundGames, active, Balanced, totalsOf, payoutsOf, heldOf, Linked,
         References, Followed, Families, follows, isParent, Unpaid, NothingHeld, Reserved, Prudent,
         onlyStandard
<1>3. /\ books \in Rows /\ References(books.sessions, books.games) /\ c \in Rows
      /\ Frame(books, c, {})
  BY DEF GamesInv, Leaves, SoundGames, Linked
<1>4. \A q \in StartRequests : RequestOK(starts[q], c.sessions, c.games)
  <2> SUFFICES ASSUME NEW q \in StartRequests
               PROVE  RequestOK(starts[q], c.sessions, c.games)
    OBVIOUS
  <2>1. RequestOK(starts[q], books.sessions, books.games)
    BY BooksFields DEF GamesInv, RequestsOK
  <2> QED
    BY <1>3, <2>1, RequestKept
<1>5. RequestsOK'
  BY <1>1, <1>4 DEF GamesInv, RequestsOK, holdsSession
<1> QED
  BY <1>2, <1>5 DEF GamesInv

\* A transaction that leaves the sessions of other requests alone, by a request that moves on.
LEMMA RequestMoves ==
    ASSUME GamesInv, NEW c, Leaves(books, c), books' = c,
           NEW r \in StartRequests, NEW s \in RequestStates, starts' = [starts EXCEPT ![r] = s],
           RequestOK(s, c.sessions, c.games),
           s.pc \in Holding => starts[r].pc \in Holding /\ s.session = starts[r].session
    PROVE  GamesInv'
<1>1. \A q \in StartRequests \ {r} :
            holdsSession(q) /\ starts[r].pc \in Holding => starts[q].session # starts[r].session
  BY DEF GamesInv, RequestsOK, holdsSession, Holding
<1>2. s.pc \in Holding =>
            \A q \in StartRequests \ {r} : holdsSession(q) => starts[q].session # s.session
  BY <1>1
<1>3. SoundGames(c) /\ HandsOK(c.games) /\ Frame(books, c, {})
  BY DEF Leaves
<1> DEFINE X == {}
<1>4. Frame(books, c, X) /\ \A q \in StartRequests \ {r} : holdsSession(q) => starts[q].session \notin X
  BY <1>3
<1> HIDE DEF X
<1> QED
  BY <1>2, <1>3, <1>4, RequestStep

LEMMA RequestEnds ==
    ASSUME GamesInv, NEW c, Leaves(books, c), books' = c,
           NEW r \in StartRequests, starts' = [starts EXCEPT ![r] = NoStart]
    PROVE  GamesInv'
<1>1. NoStart \in RequestStates /\ NoStart.pc = "idle"
  BY StateFields
<1>2. RequestOK(NoStart, c.sessions, c.games) /\ NoStart.pc \notin Holding
  BY <1>1 DEF RequestOK, Holding
<1> QED
  BY <1>1, <1>2, RequestMoves

LEMMA RequestState ==
    ASSUME GamesInv, NEW r \in StartRequests
    PROVE  /\ starts[r] \in RequestStates /\ starts[r].pc \in RequestSteps
           /\ starts[r].snapshot \in Snapshots /\ starts[r].settled \in Snapshots
           /\ starts[r].session \in Nat /\ starts[r].stake \in Nat
           /\ RequestOK(starts[r], books.sessions, books.games)
<1>1. starts[r] \in RequestStates /\ RequestOK(starts[r], books.sessions, books.games)
  BY BooksFields DEF GamesInv, RequestsOK
<1> QED
  BY <1>1, StateFields

\* The state s of a request that takes another step, with another snapshot or session.
goesTo(s, pc) == [s EXCEPT !.pc = pc]
goesWith(s, pc, t) == [s EXCEPT !.pc = pc, !.snapshot = t]
goesIn(s, pc, n) == [s EXCEPT !.pc = pc, !.session = n]
goesSettled(s, t) == [s EXCEPT !.pc = "prefer", !.settled = t]

isState(u, pc, t, n) ==
    u \in RequestStates /\ u.pc = pc /\ u.snapshot = t /\ u.session = n

LEMMA StateMoves ==
    ASSUME NEW s \in RequestStates, NEW pc \in RequestSteps, NEW t \in Snapshots, NEW n \in Nat
    PROVE  /\ isState(goesTo(s, pc), pc, s.snapshot, s.session)
           /\ isState(goesWith(s, pc, t), pc, t, s.session)
           /\ isState(goesIn(s, pc, n), pc, s.snapshot, n)
           /\ isState(goesSettled(s, t), "prefer", s.snapshot, s.session)
<1> DEFINE x == [s EXCEPT !.pc = pc]
           y == [x EXCEPT !.snapshot = t]
           z == [x EXCEPT !.session = n]
<1>1. /\ x \in RequestStates /\ x.pc = pc /\ x.snapshot = s.snapshot /\ x.session = s.session
  BY DEF RequestStates, RequestSteps
<1> HIDE DEF x
<1>2. y \in RequestStates /\ y.pc = x.pc /\ y.snapshot = t /\ y.session = x.session
  BY <1>1 DEF RequestStates
<1>3. z \in RequestStates /\ z.pc = x.pc /\ z.snapshot = x.snapshot /\ z.session = n
  BY <1>1 DEF RequestStates
<1> HIDE DEF y, z
<1>4. /\ isState(x, pc, s.snapshot, s.session) /\ isState(y, pc, t, s.session)
      /\ isState(z, pc, s.snapshot, n)
  BY <1>1, <1>2, <1>3 DEF isState
<1> DEFINE v == [s EXCEPT !.pc = "prefer", !.settled = t]
<1>5. v \in RequestStates /\ v.pc = "prefer" /\ v.snapshot = s.snapshot /\ v.session = s.session
  BY DEF RequestStates
<1> HIDE DEF v
<1>6. isState(v, "prefer", s.snapshot, s.session)
  BY <1>5 DEF isState
<1> QED
  BY <1>4, <1>6, Zenon DEF v, x, y, z, goesTo, goesWith, goesIn, goesSettled

LEMMA SameBooks ==
    ASSUME GamesInv, UNCHANGED bookVars
    PROVE  Leaves(books, books) /\ books' = books
<1>1. Frame(books, books, {})
  BY SameRowsKept
<1>2. HandsOK(books.games)
  BY BooksFields DEF GamesInv
<1> QED
  BY <1>1, <1>2, Unchanged DEF Leaves, GamesInv

\* The books of a state, and what a transaction that saves a preference leaves.
LEMMA SoundBooks ==
    ASSUME GamesInv
    PROVE  books \in Rows /\ SoundGames(books) /\ HandsOK(books.games) /\ Linked(books.sessions, books.games)
BY BooksFields DEF GamesInv, SoundGames

LEMMA Saves ==
    ASSUME NEW b, SoundGames(b), HandsOK(b.games), NEW snapshot \in Snapshots
    PROVE  LET c == saveUserPlayModeState(b, snapshot)
           IN  c \in Rows /\ Leaves(b, c) /\ c.sessions = b.sessions /\ c.games = b.games
<1>1. b \in Rows
  BY DEF SoundGames
<1> QED
  BY <1>1, SavedState DEF Leaves

LEMMA LoadedSnapshot ==
    ASSUME NEW b, SoundGames(b), NEW mode \in Modes
    PROVE  LET s == loadPlayModeSnapshotForMode(b, mode)
           IN  s \in Snapshots /\ s.type = mode
<1> DEFINE rows == b.sessions
           started == {i \in DOMAIN rows : rows[i].mode = mode}
<1>1. b \in Rows /\ References(rows, b.games)
  BY DEF SoundGames, Linked
<1>2. rows \in Seq(SessionRows)
  BY <1>1, RowsFields
<1>3. CASE started = {}
  BY <1>3, SnapshotFields DEF loadPlayModeSnapshotForMode
<1>4. CASE started # {}
  <2>1. Len(rows) \in Nat /\ started \in SUBSET (0..Len(rows))
    BY <1>2, ListFacts
  <2>2. Max(started) \in started
    <3>1. PICK i \in started : TRUE
      BY <1>4
    <3> HIDE DEF started
    <3> QED
      BY <2>1, <3>1, MaxOfNaturals
  <2>3. PICK m : m = Max(started)
    OBVIOUS
  <2>4. m \in DOMAIN rows /\ rows[m].mode = mode /\ rows[m] \in SessionRows
    BY <1>2, <2>2, <2>3, ListFacts
  <2>5. rows[m].snapshot \in Snapshots /\ rows[m].snapshot.type = mode
    BY <1>1, <2>4 DEF References, SessionRows
  <2>6. loadPlayModeSnapshotForMode(b, mode) = rows[m].snapshot
    BY <1>4, <2>3 DEF loadPlayModeSnapshotForMode
  <2> QED
    BY <2>5, <2>6
<1> QED
  BY <1>3, <1>4

-----------------------------------------------------------------------------
(* The transactions of a start request *)

LEMMA StartKeeps ==
    ASSUME GamesInv, NEW r \in StartRequests, NEW mode \in Modes, NEW stake \in Stakes,
           startBlackjackWithMode(r, mode, stake)
    PROVE  GamesInv'
<1> DEFINE snapshot == loadPlayModeSnapshotForMode(books, mode)
           c == saveUserPlayModeState(books, snapshot)
           s == newRequest(snapshot, stake)
<1>1. snapshot \in Snapshots
  BY SoundBooks, LoadedSnapshot
<1>2. c \in Rows /\ Leaves(books, c)
  BY <1>1, SoundBooks, Saves
<1>3. committed(c) /\ starts' = [starts EXCEPT ![r] = s]
  BY DEF startBlackjackWithMode, newRequest
<1>4. books' = c
  BY <1>2, <1>3, Committed
<1>5. s \in RequestStates /\ s.pc = "refresh"
  <2>1. stake \in Nat
    BY BlackjackAssumption
  <2> QED
    BY <1>1, <2>1, NewRequest
<1> HIDE DEF c, s
<1>6. RequestOK(s, c.sessions, c.games) /\ s.pc \notin Holding
  BY <1>5 DEF RequestOK, Holding
<1> QED
  BY <1>2, <1>3, <1>4, <1>5, <1>6, RequestMoves

LEMMA RefreshKeeps ==
    ASSUME GamesInv, NEW r \in StartRequests, refreshSnapshotAfterPendingRelease(r)
    PROVE  GamesInv'
<1> DEFINE q == starts[r]
           s == q.snapshot
           released == s.type = "deferred_double" /\ s.pending > 0 /\ deferred[s.type] > 0
           cleared == [s EXCEPT !.pending = 0]
           pc == IF s.type = "dual_bet" THEN "dual" ELSE "session"
           b == releasePendingDeferredPayoutsForMode(books, s.type)
           c == saveUserPlayModeState(b, cleared)
<1>1. q \in RequestStates /\ s \in Snapshots /\ s.type \in Modes
  BY RequestState, SnapshotFields
<1>2. pc \in RequestSteps
  BY DEF RequestSteps
<1>3. CASE released
  <2>1. cleared \in Snapshots
    BY <1>1 DEF Snapshots
  <2>2. Moved(b, books)
    BY <1>1, SoundBooks, Released
  <2>3. ~onlyStandard(books.games)
    BY <1>1, <1>3, BooksFields DEF GamesInv, SoundGames, NothingHeld
  <2>4. SoundGames(b) /\ HandsOK(b.games) /\ Frame(books, b, {})
    <3>1. SoundGames(b) /\ b.sessions = books.sessions /\ b.games = books.games
      BY <2>2, <2>3, SoundBooks, MovedIsSound DEF Moved
    <3> QED
      BY <3>1, SoundBooks, SameRowsKept
  <2>5. c \in Rows /\ Leaves(b, c)
    BY <2>1, <2>4, Saves
  <2>6. Leaves(books, c)
    BY <2>4, <2>5, FramedTwice DEF Leaves
  <2> DEFINE u == goesWith(q, "session", cleared)
  <2>7. committed(c) /\ starts' = [starts EXCEPT ![r] = u]
    <3>1. pc = "session"
      BY <1>3
    <3>2. committed(c) /\ starts' = [starts EXCEPT ![r] = [q EXCEPT !.pc = pc, !.snapshot = cleared]]
      BY <1>3 DEF refreshSnapshotAfterPendingRelease, goes
    <3> QED
      BY <3>1, <3>2 DEF goesWith
  <2>8. books' = c
    BY <2>5, <2>7, Committed
  <2>9. isState(u, "session", cleared, q.session)
    BY <1>1, <2>1, StateMoves DEF RequestSteps
  <2> HIDE DEF u, c
  <2>10. RequestOK(u, c.sessions, c.games) /\ u.pc \notin Holding /\ u \in RequestStates
    BY <2>9 DEF RequestOK, Holding, isState
  <2> QED
    BY <2>6, <2>7, <2>8, <2>10, RequestMoves
<1>4. CASE ~released
  <2> DEFINE u == goesTo(q, pc)
  <2>1. UNCHANGED bookVars /\ starts' = [starts EXCEPT ![r] = u]
    BY <1>4 DEF refreshSnapshotAfterPendingRelease, goes, goesTo
  <2>2. isState(u, pc, s, q.session)
    BY <1>1, <1>2, StateMoves
  <2> HIDE DEF u
  <2>3. RequestOK(u, books.sessions, books.games) /\ u.pc \notin Holding /\ u \in RequestStates
    BY <2>2 DEF RequestOK, Holding, isState
  <2> QED
    BY <2>1, <2>3, SameBooks, RequestMoves
<1> QED
  BY <1>3, <1>4

LEMMA DualBetKeeps ==
    ASSUME GamesInv, NEW r \in StartRequests, startDualBet(r)
    PROVE  GamesInv'
<1> DEFINE q == starts[r]
           results == openDualBet(books, q.snapshot, q.stake)
<1>1. q.snapshot \in Snapshots /\ q.stake \in Nat /\ q.snapshot.type = "dual_bet"
  BY RequestState DEF startDualBet, at, RequestOK
<1>2. starts' = [starts EXCEPT ![r] = NoStart]
  BY DEF startDualBet, ends, goes
<1>3. CASE UNCHANGED bookVars
  BY <1>2, <1>3, SameBooks, RequestEnds
<1>4. CASE \E b \in results : committed(b)
  <2>1. PICK b \in results : committed(b)
    BY <1>4
  <2>2. Leaves(books, b)
    BY <1>1, <2>1, SoundBooks, DualBetOpens
  <2>3. books' = b
    BY <2>1, <2>2, Committed DEF Leaves, SoundGames
  <2> QED
    BY <1>2, <2>2, <2>3, RequestEnds
<1> QED
  BY <1>3, <1>4 DEF startDualBet

LEMMA OpenKeeps ==
    ASSUME GamesInv, NEW r \in StartRequests, opensSession(r)
    PROVE  GamesInv'
<1> DEFINE q == starts[r]
           n == Len(books.sessions) + 1
           c == startPlayModeSession(books, q.snapshot, 0)
           u == goesIn(q, "start", n)
<1>1. q \in RequestStates /\ q.snapshot \in Snapshots /\ q.stake \in Nat
  BY RequestState
<1>2. startsIn(c, books, n, q.snapshot, 0)
  BY <1>1, SoundBooks, SessionStarts
<1>3. n \in Nat
  BY SoundBooks, RowsFields, ListFacts
<1>4. committed(c) /\ starts' = [starts EXCEPT ![r] = u]
  BY BooksFields DEF opensSession, goes, goesIn
<1>5. u \in RequestStates /\ u.pc = "start" /\ u.snapshot = q.snapshot /\ u.session = n
  <2>1. isState(u, "start", q.snapshot, n)
    BY <1>1, <1>3, StateMoves DEF RequestSteps
  <2> QED
    BY <2>1 DEF isState
<1> HIDE DEF c, u
<1>6. SoundGames(c) /\ HandsOK(c.games) /\ books' = c
  BY <1>2, <1>4, SoundBooks, Committed DEF startsIn, SoundGames
<1> DEFINE X == {0}
<1>7. Frame(books, c, X)
  BY <1>2 DEF startsIn
<1>8. RequestOK(u, c.sessions, c.games)
  BY <1>2, <1>5 DEF startsIn, RequestOK, OwnsSession
<1>9. \A p \in StartRequests : holdsSession(p) => starts[p].session \in DOMAIN books.sessions
  BY RequestState DEF holdsSession, RequestOK, OwnsSession
<1>10. n \notin DOMAIN books.sessions /\ 0 \notin DOMAIN books.sessions
  BY SoundBooks, RowsFields, ListFacts
<1>11. \A p \in StartRequests : holdsSession(p) => starts[p].session \notin X /\ starts[p].session # n
  BY <1>9, <1>10
<1> HIDE DEF X, n
<1> QED
  BY <1>4, <1>5, <1>6, <1>7, <1>8, <1>11, RequestStep

\* A game that was just dealt for a session leaves the sessions of other requests alone.
LEMMA ResolvedKeeps ==
    ASSUME GamesInv, NEW r \in StartRequests, startResolvedBlackjack(r)
    PROVE  GamesInv'
<1> DEFINE q == starts[r]
           i == q.session
           results == startResolvedBlackjackInTransaction(books, i, q.snapshot, q.stake, 0)
<1>1. /\ q \in RequestStates /\ q.snapshot \in Snapshots /\ q.stake \in Nat /\ i \in Nat
      /\ q.pc = "start" /\ RequestOK(q, books.sessions, books.games)
  <2>1. q.pc = "start"
    BY Zenon DEF startResolvedBlackjack, at
  <2> QED
    BY <2>1, RequestState
<1>2. /\ i \in DOMAIN books.sessions /\ books.sessions[i].mode = q.snapshot.type
      /\ books.sessions[i].parent = 0 /\ ~isParent(books.sessions, i)
      /\ books.sessions[i].game = 0 /\ books.sessions[i].status = "active"
  BY <1>1 DEF RequestOK, OwnsSession
<1>3. \A p \in StartRequests \ {r} : holdsSession(p) => starts[p].session # i
  BY <1>1 DEF GamesInv, RequestsOK, holdsSession
<1>4. CASE UNCHANGED bookVars /\ goes(r, [q EXCEPT !.pc = "cancel"])
  <2> DEFINE u == goesTo(q, "cancel")
  <2>1. starts' = [starts EXCEPT ![r] = u]
    BY <1>4 DEF goes, goesTo
  <2>2. isState(u, "cancel", q.snapshot, i)
    BY <1>1, StateMoves DEF RequestSteps
  <2> HIDE DEF u
  <2>3. OwnsSession(u, books.sessions)
    BY <1>2, <2>2 DEF OwnsSession, isState
  <2>4. 0 \notin active(books.games)
    BY SoundBooks, RowsFields, ListFacts DEF active
  <2>5. RequestOK(u, books.sessions, books.games)
    BY <1>2, <2>2, <2>3, <2>4 DEF RequestOK, isState
  <2>6. u \in RequestStates /\ u.session = q.session /\ q.pc \in Holding
    BY <1>1, <2>2 DEF isState, Holding
  <2> QED
    BY <1>4, <2>1, <2>5, <2>6, SameBooks, RequestMoves
<1>5. ASSUME NEW b \in results, committed(b),
             goes(r, IF b.games[Len(b.games)].status = "active" THEN NoStart
                     ELSE [q EXCEPT !.pc = "prefer", !.settled = b.preference])
      PROVE  GamesInv'
  <2>1. dealLeaves(b, books, i)
    <3>1. Waits(books.sessions, i)
      BY <1>2 DEF Waits
    <3>2. b \in startResolvedBlackjackInTransaction(books, i, q.snapshot, q.stake, 0)
      BY <1>5
    <3>3. 0 \in Nat
      OBVIOUS
    <3> QED
      BY <1>1, <1>2, <3>1, <3>2, <3>3, SoundBooks, StartedGame
  <2>2. /\ SoundGames(b) /\ b \in Rows /\ HandsOK(b.games) /\ Frame(books, b, {i})
        /\ Linked(b.sessions, b.games)
    BY <2>1 DEF dealLeaves, SoundGames
  <2>3. books' = b
    BY <1>5, <2>2, Committed
  <2> DEFINE n == Len(books.games) + 1
             u == goesSettled(q, b.preference)
             s == IF b.games[Len(b.games)].status = "active" THEN NoStart ELSE u
  <2>4. starts' = [starts EXCEPT ![r] = s]
    BY <1>5 DEF goes, goesSettled
  <2>5. n \in Nat /\ n # 0
    BY SoundBooks, RowsFields, ListFacts
  <2>6. b.preference \in Snapshots
    BY <2>2, RowsFields
  <2>7. isState(u, "prefer", q.snapshot, i)
    BY <1>1, <2>6, StateMoves DEF RequestSteps
  <2>8. CASE b.games[Len(b.games)].status = "active"
    <3>1. NoStart \in RequestStates /\ NoStart.pc = "idle" /\ s = NoStart
      BY <2>8, StateFields
    <3>2. RequestOK(NoStart, b.sessions, b.games) /\ NoStart.pc \notin Holding
      BY <3>1 DEF RequestOK, Holding
    <3> DEFINE X == {i}
    <3>3. \A p \in StartRequests \ {r} : holdsSession(p) => starts[p].session \notin X
      BY <1>3
    <3>4. Frame(books, b, X)
      BY <2>2
    <3> HIDE DEF X, s
    <3> QED
      BY <2>2, <2>3, <2>4, <3>1, <3>2, <3>3, <3>4, RequestStep
  <2>9. CASE b.games[Len(b.games)].status # "active"
    <3>1. s = u
      BY <2>9
    <3> HIDE DEF u, s
    <3>2. b.sessions[i].game = n /\ Len(b.games) = n
      BY <2>1 DEF dealLeaves
    <3> HIDE DEF n
    <3>3. /\ i \in DOMAIN b.sessions /\ b.sessions[i].mode = books.sessions[i].mode
          /\ b.sessions[i].parent = 0
      BY <1>2, <2>2 DEF Frame, KeepsGames
    <3>4. ~isParent(b.sessions, i)
      <4>1. b.sessions \in Seq(SessionRows)
        BY <2>2, RowsFields
      <4> QED
        BY <2>2, <2>5, <3>2, <3>3, <4>1, ParentFacts DEF Linked, isParent
    <3>5. OwnsSession(u, b.sessions)
      BY <1>2, <2>7, <3>2, <3>3, <3>4 DEF OwnsSession, isState
    <3>6. n \notin active(b.games)
      BY <2>9, <3>2 DEF active
    <3>7. RequestOK(u, b.sessions, b.games) /\ u \in RequestStates /\ u.session = i
      BY <2>7, <3>2, <3>5, <3>6 DEF RequestOK, isState
    <3> DEFINE X == {i}
    <3>8. \A p \in StartRequests \ {r} :
            holdsSession(p) => starts[p].session \notin X /\ starts[p].session # u.session
      BY <1>3, <3>7
    <3>9. Frame(books, b, X)
      BY <2>2
    <3> HIDE DEF X
    <3> QED
      BY <2>2, <2>3, <2>4, <3>1, <3>7, <3>8, <3>9, RequestStep
  <2> QED
    BY <2>8, <2>9
<1>6. \/ UNCHANGED bookVars /\ goes(r, [q EXCEPT !.pc = "cancel"])
      \/ \E b \in results :
            /\ committed(b)
            /\ goes(r, IF b.games[Len(b.games)].status = "active" THEN NoStart
                       ELSE [q EXCEPT !.pc = "prefer", !.settled = b.preference])
  BY Zenon DEF startResolvedBlackjack
<1> QED
  BY <1>4, <1>5, <1>6, Zenon

LEMMA PreferenceKeeps ==
    ASSUME GamesInv, NEW r \in StartRequests, persistSettledPreference(r)
    PROVE  GamesInv'
<1> DEFINE c == saveUserPlayModeState(books, starts[r].settled)
<1>1. c \in Rows /\ Leaves(books, c)
  BY RequestState, SoundBooks, Saves
<1>2. committed(c) /\ starts' = [starts EXCEPT ![r] = NoStart]
  BY DEF persistSettledPreference, ends, goes
<1>3. books' = c
  BY <1>1, <1>2, Committed
<1> HIDE DEF c
<1> QED
  BY <1>1, <1>2, <1>3, RequestEnds

LEMMA CancelKeeps ==
    ASSUME GamesInv, NEW r \in StartRequests, cancelsSession(r)
    PROVE  GamesInv'
<1> DEFINE q == starts[r]
           i == q.session
           c == cancelPlayModeSession(books, i, q.snapshot)
           X == {i}
<1>1. /\ q.snapshot \in Snapshots /\ q.pc = "cancel" /\ RequestOK(q, books.sessions, books.games)
  BY RequestState DEF cancelsSession, at
<1>2. /\ i \in DOMAIN books.sessions /\ books.sessions[i].mode = q.snapshot.type
      /\ books.sessions[i].parent = 0 /\ ~isParent(books.sessions, i)
      /\ books.sessions[i].game \notin active(books.games)
  BY <1>1 DEF RequestOK, OwnsSession
<1>3. SoundGames(c) /\ c.games = books.games /\ Frame(books, c, X)
  BY <1>1, <1>2, SoundBooks, SessionCancelled
<1>4. committed(c) /\ starts' = [starts EXCEPT ![r] = NoStart]
  BY DEF cancelsSession, ends, goes
<1> HIDE DEF c
<1>5. books' = c /\ HandsOK(c.games)
  BY <1>3, <1>4, SoundBooks, Committed DEF SoundGames
<1>6. NoStart \in RequestStates /\ NoStart.pc = "idle"
  BY StateFields
<1>7. RequestOK(NoStart, c.sessions, c.games) /\ NoStart.pc \notin Holding
  BY <1>6 DEF RequestOK, Holding
<1>8. \A p \in StartRequests \ {r} : holdsSession(p) => starts[p].session \notin X
  BY <1>1 DEF GamesInv, RequestsOK, holdsSession
<1> HIDE DEF X
<1> QED
  BY <1>3, <1>4, <1>5, <1>6, <1>7, <1>8, RequestStep

LEMMA FailureKeeps ==
    ASSUME GamesInv, NEW r \in StartRequests, statementFails(r)
    PROVE  GamesInv'
<1> DEFINE q == starts[r]
           i == q.session
           u == goesTo(q, "cancel")
<1>1. /\ q \in RequestStates /\ q.pc \in {"start", "prefer"} /\ q.pc \in Holding
      /\ q.snapshot \in Snapshots /\ i \in Nat /\ RequestOK(q, books.sessions, books.games)
  BY RequestState DEF statementFails, Holding
<1>2. UNCHANGED bookVars /\ starts' = [starts EXCEPT ![r] = u]
  BY DEF statementFails, goesTo
<1>3. isState(u, "cancel", q.snapshot, i)
  BY <1>1, StateMoves DEF RequestSteps
<1> HIDE DEF u
<1>4. 0 \notin active(books.games)
  BY SoundBooks, RowsFields, ListFacts DEF active
<1>5. OwnsSession(u, books.sessions)
  BY <1>1, <1>3 DEF RequestOK, OwnsSession, isState
<1>6. RequestOK(u, books.sessions, books.games)
  BY <1>1, <1>3, <1>4, <1>5 DEF RequestOK, isState
<1> QED
  BY <1>1, <1>2, <1>3, <1>6, SameBooks, RequestMoves DEF isState

LEMMA LossKeeps ==
    ASSUME GamesInv, NEW r \in StartRequests, requestLost(r)
    PROVE  GamesInv'
BY SameBooks, RequestEnds DEF requestLost

-----------------------------------------------------------------------------
(* The player's moves, the deadlines and the preference *)

LEMMA SetPreferenceKeeps ==
    ASSUME GamesInv, NEW mode \in Modes, setUserPlayModePreference(mode)
    PROVE  GamesInv'
<1> DEFINE c == saveUserPlayModeState(books, loadPlayModeSnapshotForMode(books, mode))
<1>1. loadPlayModeSnapshotForMode(books, mode) \in Snapshots
  BY SoundBooks, LoadedSnapshot
<1>2. c \in Rows /\ Leaves(books, c)
  BY <1>1, SoundBooks, Saves
<1>3. committed(c) /\ UNCHANGED starts
  BY DEF setUserPlayModePreference
<1> HIDE DEF c
<1> QED
  BY <1>2, <1>3, Committed, GamesStep

LEMMA StandKeeps ==
    ASSUME GamesInv, NEW k \in activeGames(books), NEW c \in stood(books, k), committed(c),
           UNCHANGED starts
    PROVE  GamesInv'
<1>1. k \in active(books.games)
  BY DEF activeGames, active
<1>2. Leaves(books, c)
  BY <1>1, SoundBooks, StoodHand
<1> QED
  BY <1>2, Committed, GamesStep DEF Leaves, SoundGames

LEMMA ActKeeps ==
    ASSUME GamesInv, NEW k \in DOMAIN games, NEW action \in Actions, actOnBlackjack(k, action)
    PROVE  GamesInv'
<1>1. k \in activeGames(books) /\ UNCHANGED starts
  BY DEF actOnBlackjack
<1>2. CASE games[k].clock = "expired"
  BY <1>1, <1>2, StandKeeps DEF actOnBlackjack
<1>3. CASE games[k].clock # "expired"
  <2>1. PICK c \in moved(books, k, action) : committed(c)
    BY <1>3 DEF actOnBlackjack
  <2>2. k \in active(books.games)
    BY <1>1 DEF activeGames, active
  <2>3. action \in getAvailableActions(books.games[k], books.funds)
    BY <1>3, BooksFields DEF actOnBlackjack
  <2>4. Leaves(books, c)
    BY <2>1, <2>2, <2>3, SoundBooks, MovesLeave
  <2> QED
    BY <1>1, <2>1, <2>4, Committed, GamesStep DEF Leaves, SoundGames
<1> QED
  BY <1>2, <1>3

LEMMA ExpiryKeeps ==
    ASSUME GamesInv, processExpiredBlackjackTurnForUser
    PROVE  GamesInv'
<1>1. expiredGames \in SUBSET Nat /\ expiredGames # {}
  <2>1. expiredGames \subseteq DOMAIN books.games
    BY DEF expiredGames, activeGames
  <2>2. DOMAIN books.games \subseteq Nat
    BY SoundBooks, RowsFields, ListFacts
  <2> QED
    BY <2>1, <2>2 DEF processExpiredBlackjackTurnForUser
<1>2. PICK k : k = Min(expiredGames)
  OBVIOUS
<1>3. k \in expiredGames
  BY <1>1, <1>2, MinOfNaturals
<1>4. PICK c \in stood(books, k) : committed(c)
  BY <1>2 DEF processExpiredBlackjackTurnForUser
<1>5. k \in activeGames(books) /\ UNCHANGED starts
  BY <1>3 DEF expiredGames, processExpiredBlackjackTurnForUser
<1> QED
  BY <1>4, <1>5, StandKeeps

\* A game whose turn has no time left.
expired(g) == [g EXCEPT !.clock = "expired"]

LEMMA ExpiredGame ==
    ASSUME NEW g \in GameRows
    PROVE  LET e == expired(g)
           IN  /\ e \in GameRows /\ e.status = g.status /\ e.total = g.total
               /\ e.payout = g.payout /\ e.mode = g.mode /\ e.hands = g.hands
               /\ e.turn = g.turn /\ e.clock = "expired"
BY DEF GameRows, expired

LEMMA DeadlineKeeps ==
    ASSUME GamesInv, NEW k \in DOMAIN games, turnDeadlinePasses(k)
    PROVE  GamesInv'
<1> DEFINE g == books.games[k]
           e == expired(g)
           c == withGame(books, k, e, 0, 0)
<1>1. k \in active(books.games) /\ k \in DOMAIN books.games
  BY DEF turnDeadlinePasses, activeGames, active
<1>2. /\ g \in GameRows /\ g.total \in Nat /\ g.payout = 0 /\ g.status = "active" /\ InPlay(g)
      /\ books.funds \in Nat /\ books.bank \in Int
  <2>1. g \in GameRows /\ books.funds \in Nat /\ books.bank \in Int
    BY <1>1, SoundBooks, RowsFields, ListFacts
  <2>2. InPlay(g) /\ g.payout = 0 /\ g.status = "active"
    BY <1>1, SoundBooks DEF HandsOK, SoundGames, Unpaid, active
  <2> QED
    BY <2>1, <2>2 DEF GameRows
<1>3. /\ e \in GameRows /\ e.status = "active" /\ e.total = g.total
      /\ e.payout = 0 /\ e.mode = g.mode /\ e.hands = g.hands /\ e.turn = g.turn
      /\ e.clock = "expired"
  BY <1>2, ExpiredGame
<1>4. InPlay(e)
  BY <1>2, <1>3 DEF InPlay, waitsForHand
<1>5. changed(c, books, k, e, 0, 0)
  <2>1. Prudent(books.games) => covers(books.bank + 0, e)
    <3>1. books.bank + 0 = books.bank
      BY <1>2
    <3> QED
      BY <1>1, <1>3, <3>1, SoundBooks, PoolCovers DEF covers
  <2>2. e.total - e.payout = g.total + 0 /\ 0 <= books.funds /\ 0 \in Int
    <3> HIDE DEF e, g
    <3> QED
      BY <1>2, <1>3
  <2> HIDE DEF e
  <2> QED
    BY <1>1, <1>3, <2>1, <2>2, SoundBooks, GameChanges
<1>6. committed(c) /\ UNCHANGED starts
  <2>1. /\ c.preference = preference /\ c.sessions = sessions /\ c.deferred = deferred
        /\ c.games = [books.games EXCEPT ![k] = e]
        /\ c.funds = books.funds - 0 /\ c.bank = books.bank + 0
    <3>1. 0 \in Int /\ 0 <= books.funds
      BY <1>2
    <3> HIDE DEF e
    <3> QED
      BY <1>1, <1>3, <3>1, SoundBooks, GameReplaced, BooksFields
  <2>2. c.funds = funds /\ c.bank = bank
    BY <1>2, <2>1, BooksFields
  <2>3. /\ UNCHANGED <<preference, sessions, deferred, funds, bank, starts>>
        /\ games' = [books.games EXCEPT ![k] = e]
    BY BooksFields DEF turnDeadlinePasses, expired
  <2> HIDE DEF c, e
  <2> QED
    BY <2>1, <2>2, <2>3 DEF committed
<1> HIDE DEF c, e
<1>7. HandsOK(c.games)
  <2>1. \A j \in active(books.games) : j \in DOMAIN books.games /\ InPlay(books.games[j])
    BY SoundBooks DEF HandsOK, active
  <2> QED
    BY <1>3, <1>4, <1>5, <2>1 DEF HandsOK, changed
<1>8. Leaves(books, c)
  BY <1>5, <1>7 DEF Leaves, changed
<1> QED
  BY <1>6, <1>8, Committed, GamesStep DEF Leaves, SoundGames

-----------------------------------------------------------------------------
(* The invariant of the games of a user *)

LEMMA GamesBegin ==
    ASSUME BlackjackInit
    PROVE  GamesInv
<1>1. /\ books.preference = createDefaultPlayModeSnapshot("standard") /\ books.sessions = <<>>
      /\ books.deferred = [m \in Modes |-> 0] /\ books.games = <<>>
      /\ books.funds = Wallet /\ books.bank = Pool
      /\ starts = [r \in StartRequests |-> NoStart]
  BY BooksFields DEF BlackjackInit, PlayModesInit
<1>2. books \in Rows
  <2>1. createDefaultPlayModeSnapshot("standard") \in Snapshots
    BY SnapshotFields, ModesAssumption
  <2>2. \A S : <<>> \in Seq(S)
    OBVIOUS
  <2>3. books.deferred \in [Modes -> Nat] /\ books.funds \in Nat /\ books.bank \in Int
    BY <1>1, Multipliers
  <2> QED
    BY <1>1, <2>1, <2>2, <2>3 DEF Rows, books
<1>3. DOMAIN books.games = {} /\ DOMAIN books.sessions = {} /\ active(books.games) = {}
  BY <1>1 DEF active
<1>4. Balanced(books)
  <2>1. heldOf(books.deferred) = 0
    BY <1>1, ModesFinite, SumOfZeros DEF heldOf
  <2>2. totalsOf(books.games) = 0 /\ payoutsOf(books.games) = 0
    BY <1>3, SumOfNone DEF totalsOf, payoutsOf
  <2>3. Cardinality(paidIn(books.games)) = 0
    BY <1>3, FS_EmptySet DEF paidIn
  <2> QED
    BY <1>1, <2>1, <2>2, <2>3, Multipliers DEF Balanced
<1>5. Linked(books.sessions, books.games) /\ Unpaid(books.games)
  BY <1>3 DEF Linked, References, Followed, Families, Unpaid
<1>6. NothingHeld(books.games, books.deferred)
  BY <1>1 DEF NothingHeld
<1>7. Reserved(books.games, books.bank)
  BY <1>1, <1>3, Multipliers DEF Reserved, Prudent
<1>8. HandsOK(games)
  BY <1>3, BooksFields DEF HandsOK
<1>9. RequestsOK
  <2>1. NoStart \in RequestStates /\ NoStart.pc \notin Holding /\ NoStart.pc = "idle"
    BY StateFields DEF Holding
  <2>2. \A r \in StartRequests : starts[r] = NoStart
    BY <1>1
  <2>3. RequestOK(NoStart, sessions, games)
    BY <2>1 DEF RequestOK
  <2> QED
    BY <1>1, <2>1, <2>2, <2>3 DEF RequestsOK, holdsSession, Holding
<1> QED
  BY <1>2, <1>4, <1>5, <1>6, <1>7, <1>8, <1>9 DEF GamesInv, SoundGames

LEMMA GamesContinue ==
    ASSUME GamesInv, [BlackjackNext]_blackjackVars
    PROVE  GamesInv'
<1>1. CASE UNCHANGED blackjackVars
  BY <1>1, SameBooks, GamesStep DEF blackjackVars, bookVars
<1>2. ASSUME NEW r \in StartRequests,
             \/ \E mode \in Modes, stake \in Stakes : startBlackjackWithMode(r, mode, stake)
             \/ refreshSnapshotAfterPendingRelease(r)
             \/ startDualBet(r)
             \/ opensSession(r)
             \/ startResolvedBlackjack(r)
             \/ persistSettledPreference(r)
             \/ cancelsSession(r)
             \/ statementFails(r)
             \/ requestLost(r)
      PROVE  GamesInv'
  BY <1>2, StartKeeps, RefreshKeeps, DualBetKeeps, OpenKeeps, ResolvedKeeps, PreferenceKeeps,
     CancelKeeps, FailureKeeps, LossKeeps
<1>3. ASSUME NEW mode \in Modes, setUserPlayModePreference(mode)
      PROVE  GamesInv'
  BY <1>3, SetPreferenceKeeps
<1>4. ASSUME NEW k \in DOMAIN games, NEW action \in Actions, actOnBlackjack(k, action)
      PROVE  GamesInv'
  BY <1>4, ActKeeps
<1>5. CASE processExpiredBlackjackTurnForUser
  BY <1>5, ExpiryKeeps
<1>6. ASSUME NEW k \in DOMAIN games, turnDeadlinePasses(k)
      PROVE  GamesInv'
  BY <1>6, DeadlineKeeps
<1> QED
  BY <1>1, <1>2, <1>3, <1>4, <1>5, <1>6, Zenon DEF BlackjackNext

(***************************************************************************)
(* The rows of the games of a user stay as every transaction left them     *)
(* sound, whatever requests, moves and deadlines come in between.          *)
(***************************************************************************)
THEOREM GamesAlwaysSound == BlackjackSpec => []GamesInv
<1>1. BlackjackInit => GamesInv
  BY GamesBegin
<1>2. GamesInv /\ [BlackjackNext]_blackjackVars => GamesInv'
  BY GamesContinue
<1> QED
  BY <1>1, <1>2, PTL DEF BlackjackSpec

(***************************************************************************)
(* Types of the rows; the turn of an active game is at the one hand that   *)
(* may still move, and a game has at most MaxSplitHands hands.             *)
(***************************************************************************)
THEOREM BlackjackTypeCorrect == BlackjackSpec => []BlackjackTypeOK
<1>1. GamesInv => BlackjackTypeOK
  <2> SUFFICES ASSUME GamesInv PROVE BlackjackTypeOK
    OBVIOUS
  <2>1. /\ preference \in Snapshots /\ sessions \in Seq(SessionRows)
        /\ deferred \in [Modes -> Nat] /\ games \in Seq(GameRows)
        /\ funds \in Nat /\ bank \in Int
    BY SoundBooks, RowsFields, BooksFields
  <2>2. \A i \in DOMAIN sessions : sessions[i].snapshot.type = sessions[i].mode
    BY SoundBooks, BooksFields DEF Linked, References
  <2>3. PlayModesTypeOK
    BY <2>1, <2>2 DEF PlayModesTypeOK, SessionRows, Snapshots
  <2>4. \A k \in DOMAIN games : games[k].status \in GameStatuses
    <3>1. \A k \in DOMAIN games : games[k] \in GameRows
      BY <2>1, ListFacts
    <3> QED
      BY <3>1 DEF GameRows
  <2>5. \A k \in DOMAIN games : games[k].status = "active" => InPlay(games[k])
    BY DEF GamesInv, HandsOK, active
  <2> QED
    BY <2>1, <2>3, <2>4, <2>5 DEF BlackjackTypeOK, GameStatuses, InPlay, waitsForHand
<1> QED
  BY <1>1, GamesAlwaysSound, PTL

(***************************************************************************)
(* The wallet and the prize pool have what the games won and lost, a       *)
(* game's hands carry what was staked on it, and the pool keeps its        *)
(* reserve (BlackjackMoneyKept), for any cards and multipliers.            *)
(***************************************************************************)
THEOREM BlackjackMoneyAlwaysKept == BlackjackSpec => []BlackjackMoneyKept
<1>1. GamesInv => BlackjackMoneyKept
  <2> SUFFICES ASSUME GamesInv PROVE BlackjackMoneyKept
    OBVIOUS
  <2>1. /\ deferred \in [Modes -> Nat] /\ games \in Seq(GameRows) /\ funds \in Nat /\ bank \in Int
    BY SoundBooks, RowsFields, BooksFields
  <2>2. /\ heldBack = heldOf(deferred) /\ wagered = totalsOf(games) /\ paidOut = payoutsOf(games)
    BY DEF heldBack, heldOf, wagered, totalsOf, paidOut, payoutsOf
  <2>3. heldBack \in Int /\ wagered \in Int /\ paidOut \in Int
    BY <2>1, <2>2, HeldIsInt, TotalsAreInt
  <2>4. /\ funds + heldBack = Wallet - wagered + paidOut
        /\ funds + bank - (Wallet + Pool) \in 0..Cardinality(paidIn(games))
    BY <2>2, BooksFields DEF GamesInv, SoundGames, Balanced
  <2>5. funds = Wallet - wagered + paidOut - heldBack
    <3> DEFINE h == heldBack
               w == wagered
               p == paidOut
    <3>1. h \in Int /\ w \in Int /\ p \in Int /\ funds + h = Wallet - w + p
      BY <2>3, <2>4
    <3> HIDE DEF h, w, p
    <3>2. funds = Wallet - w + p - h
      BY <2>1, <3>1, Multipliers
    <3> QED
      BY <3>2 DEF h, w, p
  <2>6. \A k \in activeGames(books) : games[k].total = stakesOf(games[k].hands)
    BY BooksFields DEF GamesInv, HandsOK, InPlay, active, activeGames
  <2>7. Reserved(games, bank)
    BY BooksFields DEF GamesInv, SoundGames
  <2>8. paidGames = paidIn(games)
    BY DEF paidGames, paidIn
  <2> QED
    BY <2>4, <2>5, <2>6, <2>7, <2>8 DEF BlackjackMoneyKept, Reserved, Prudent, onlyStandard
<1> QED
  BY <1>1, GamesAlwaysSound, PTL

(***************************************************************************)
(* Requests that fail or are lost between their transactions, and moves,   *)
(* deadlines and other requests in between, do not cut an active game from *)
(* its one session, and a dual bet's parent is active exactly while one of *)
(* its legs is (SessionFollowsGame).                                       *)
(***************************************************************************)
THEOREM SessionAlwaysFollowsGame == BlackjackSpec => []SessionFollowsGame
<1>1. GamesInv => SessionFollowsGame
  <2> SUFFICES ASSUME GamesInv PROVE SessionFollowsGame
    OBVIOUS
  <2>1. /\ sessions \in Seq(SessionRows) /\ games \in Seq(GameRows)
        /\ References(sessions, games) /\ Followed(sessions, games) /\ Families(sessions)
    BY SoundBooks, RowsFields, BooksFields DEF Linked
  <2>2. ASSUME NEW k \in activeGames(books)
        PROVE  LET own == {i \in DOMAIN sessions : sessions[i].game = k}
               IN  /\ Cardinality(own) = 1
                   /\ \A i \in own : sessions[i].status = "active"
                                     /\ sessions[i].mode = games[k].mode.type
    <3> DEFINE own == {i \in DOMAIN sessions : sessions[i].game = k}
    <3>1. k \in active(games) /\ k # 0
      BY <2>1, ListFacts, BooksFields DEF activeGames, active
    <3>2. PICK i \in DOMAIN sessions : follows(sessions[i], k, games[k])
      BY <2>1, <3>1 DEF Followed
    <3>3. \A j \in DOMAIN sessions : sessions[j].game = k => j = i
      BY <2>1, <3>1, <3>2 DEF References, follows
    <3>4. own = {i}
      BY <3>2, <3>3 DEF follows
    <3> HIDE DEF own
    <3>5. Cardinality(own) = 1
      BY <3>4, FS_Singleton
    <3> QED
      BY <3>2, <3>4, <3>5 DEF follows, own
  <2>3. ASSUME NEW p \in {sessions[i].parent : i \in DOMAIN sessions} \ {0}
        PROVE  (sessions[p].status = "active") =
                (\E i \in DOMAIN sessions : sessions[i].parent = p /\ sessions[i].status = "active")
    <3>1. PICK i \in DOMAIN sessions : sessions[i].parent = p
      OBVIOUS
    <3>2. p \in DOMAIN sessions
      BY <2>1, <3>1, ParentFacts
    <3> QED
      BY <2>1, <3>1, <3>2 DEF Families, isParent
  <2> QED
    BY <2>2, <2>3 DEF SessionFollowsGame
<1> QED
  BY <1>1, GamesAlwaysSound, PTL

-----------------------------------------------------------------------------
(* Both games *)

(***************************************************************************)
(* The rows of both games keep their types and no balance falls below      *)
(* zero, whatever is played beside it (GamesTypeOK).                       *)
(***************************************************************************)
THEOREM GamesTypeCorrect == GamesSpec => []GamesTypeOK
  BY TableTypeCorrect, BlackjackTypeCorrect, PTL DEF GamesSpec, GamesTypeOK

(***************************************************************************)
(* Money neither appears nor disappears, at a hold'em table or in          *)
(* blackjack: buy-ins, pots, rake, cash-outs and prizes, raised stakes,    *)
(* settlements and held-back payouts only move it (MoneyKept).             *)
(***************************************************************************)
THEOREM MoneyAlwaysKept == GamesSpec => []MoneyKept
  BY TableMoneyAlwaysKept, BlackjackMoneyAlwaysKept, PTL DEF GamesSpec, MoneyKept
=============================================================================
