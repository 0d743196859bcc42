---------------------------- MODULE EconomyProofs ----------------------------
(***************************************************************************)
(* Theorems about Economy for any number of users, positions, requests and *)
(* workers and any amounts: stakes stay locked, a settlement pays its pool *)
(* to the cent, and the tables explain every balance.  Theorems about      *)
(* TenantRewards follow.                                                   *)
(***************************************************************************)
EXTENDS Economy, TenantRewards, SumTheorems, TLAPS

(***************************************************************************)
(* Totals over the rows of a list of positions.  Every sum the properties  *)
(* name is the total of some value of a row.                               *)
(***************************************************************************)
total(val, rows) == SumFunctionOnSet([i \in DOMAIN rows |-> val[rows[i]]], DOMAIN rows)

lockedValue(u) ==
    [r \in Position |-> IF r.status = "open" /\ r.user = u THEN r.stake ELSE 0]

openValue == [r \in Position |-> IF r.status = "open" THEN r.stake ELSE 0]

wonValue(u) == [r \in Position |-> IF r.user = u THEN r.payout - r.stake ELSE 0]

paidValue == [r \in Position |-> IF r.status # "sold" THEN r.payout ELSE 0]

Values == [Position -> Int]

LEMMA PositionFacts ==
    ASSUME NEW r \in Position
    PROVE  r.stake \in Nat /\ r.stake > 0 /\ r.payout \in Nat
<1>1. r.stake \in Stakes /\ r.payout \in Nat
  BY DEF Position
<1>2. Stakes \subseteq Nat \ {0}
  BY PredictionMarketsAssumption
<1>3. r.stake \in Nat /\ r.stake # 0
  BY <1>1, <1>2
<1> QED
  BY <1>1, <1>3

LEMMA RowFacts ==
    ASSUME NEW rows \in Seq(Position)
    PROVE  /\ Len(rows) \in Nat
           /\ DOMAIN rows = 1..Len(rows)
           /\ IsFiniteSet(DOMAIN rows)
           /\ \A i \in DOMAIN rows :
                /\ rows[i] \in Position
                /\ rows[i].stake \in Nat /\ rows[i].stake > 0
                /\ rows[i].payout \in Nat
<1>1. Len(rows) \in Nat /\ DOMAIN rows = 1..Len(rows) /\ \A i \in DOMAIN rows : rows[i] \in Position
  OBVIOUS
<1>2. IsFiniteSet(1..Len(rows))
  BY <1>1, FS_Interval
<1>3. \A r \in Position : r.stake \in Nat /\ r.stake > 0 /\ r.payout \in Nat
  BY PositionFacts
<1> QED
  BY <1>1, <1>2, <1>3

LEMMA ValueTypes ==
    /\ \A u : lockedValue(u) \in Values /\ wonValue(u) \in Values
    /\ openValue \in Values /\ paidValue \in Values
<1>1. \A r \in Position : r.stake \in Int /\ r.payout \in Int
  BY PositionFacts
<1> QED
  BY <1>1 DEF lockedValue, wonValue, openValue, paidValue, Values

LEMMA TotalIsInt ==
    ASSUME NEW val \in Values, NEW rows \in Seq(Position)
    PROVE  total(val, rows) \in Int
<1> DEFINE f == [i \in DOMAIN rows |-> val[rows[i]]]
<1>1. \A i \in DOMAIN rows : f[i] \in Int
  BY RowFacts DEF Values
<1>2. total(val, rows) = SumFunctionOnSet(f, DOMAIN rows)
  BY DEF total
<1> HIDE DEF f
<1> QED
  BY <1>1, <1>2, RowFacts, SumIsInt

\* A new row adds its value.
LEMMA TotalAppend ==
    ASSUME NEW val \in Values, NEW rows \in Seq(Position), NEW r \in Position
    PROVE  total(val, Append(rows, r)) = total(val, rows) + val[r]
<1> DEFINE more == Append(rows, r)
           n == Len(rows) + 1
           D == DOMAIN rows
           f == [i \in D |-> val[rows[i]]]
           g == [i \in DOMAIN more |-> val[more[i]]]
<1>1. n \in Nat /\ D = 1..(n - 1) /\ IsFiniteSet(D)
  BY RowFacts
<1>2. /\ more \in Seq(Position)
      /\ DOMAIN more = D \cup {n}
      /\ more[n] = r
      /\ \A i \in D : more[i] = rows[i]
  BY <1>1
<1>3. n \notin D
  BY <1>1
<1>4. \A i \in D \cup {n} : g[i] \in Int
  BY <1>2, RowFacts DEF Values
<1>5. g[n] = val[r] /\ \A i \in D : g[i] = f[i]
  BY <1>2
<1>6. total(val, rows) = SumFunctionOnSet(f, D) /\ total(val, more) = SumFunctionOnSet(g, D \cup {n})
  BY <1>2 DEF total
<1> HIDE DEF f, g, D, n, more
<1>7. SumFunctionOnSet(g, D) = SumFunctionOnSet(f, D)
  BY <1>1, <1>5, SumOfEqual
<1>8. SumFunctionOnSet(g, D \cup {n}) = g[n] + SumFunctionOnSet(g, D)
  BY <1>1, <1>3, <1>4, SumWith
<1>9. total(val, rows) \in Int /\ val[r] \in Int
  BY TotalIsInt DEF Values
<1>10. total(val, more) = total(val, rows) + val[r]
  BY <1>5, <1>6, <1>7, <1>8, <1>9
<1> QED
  BY <1>10 DEF more

\* A changed row moves a total by the change of its value.
LEMMA TotalUpdate ==
    ASSUME NEW val \in Values, NEW rows \in Seq(Position), NEW now \in Seq(Position),
           Len(now) = Len(rows), NEW i \in DOMAIN rows,
           \A j \in DOMAIN rows : j # i => now[j] = rows[j]
    PROVE  total(val, now) = total(val, rows) + val[now[i]] - val[rows[i]]
<1> DEFINE D == DOMAIN rows
           f == [j \in D |-> val[rows[j]]]
           g == [j \in D |-> val[now[j]]]
<1>1. DOMAIN now = D /\ IsFiniteSet(D) /\ i \in D
  BY RowFacts
<1>2. \A j \in D : f[j] \in Int /\ g[j] \in Int
  BY <1>1, RowFacts DEF Values
<1>3. \A j \in D \ {i} : g[j] = f[j]
  OBVIOUS
<1>4. total(val, rows) = SumFunctionOnSet(f, D) /\ total(val, now) = SumFunctionOnSet(g, D)
  BY <1>1 DEF total
<1>5. f[i] = val[rows[i]] /\ g[i] = val[now[i]]
  OBVIOUS
<1> HIDE DEF f, g, D
<1>6. SumFunctionOnSet(g, D) = SumFunctionOnSet(f, D) + g[i] - f[i]
  BY <1>1, <1>2, <1>3, SumOfUpdate
<1> QED
  BY <1>4, <1>5, <1>6

(***************************************************************************)
(* A change of many rows adds up what it adds to each.                     *)
(***************************************************************************)
MovesBy(val, rows, now, T, more) ==
    \A i \in DOMAIN rows : val[now[i]] = val[rows[i]] + IF i \in T THEN more[i] ELSE 0

LEMMA TotalMoves ==
    ASSUME NEW val \in Values, NEW rows \in Seq(Position), NEW now \in Seq(Position),
           Len(now) = Len(rows), NEW T \in SUBSET (DOMAIN rows), NEW more \in [T -> Int],
           MovesBy(val, rows, now, T, more)
    PROVE  total(val, now) = total(val, rows) + SumFunctionOnSet(more, T)
<1> DEFINE D == DOMAIN rows
           f == [j \in D |-> val[rows[j]]]
           g == [j \in D |-> val[now[j]]]
           d == [j \in D |-> IF j \in T THEN more[j] ELSE 0]
<1>1. DOMAIN now = D /\ IsFiniteSet(D) /\ T \in SUBSET D /\ IsFiniteSet(T)
  BY RowFacts, FS_Subset
<1>2. \A j \in D : f[j] \in Int /\ d[j] \in Int /\ g[j] = f[j] + d[j]
  BY RowFacts DEF Values, MovesBy
<1>3. (\A j \in D \ T : d[j] = 0) /\ (\A j \in T : d[j] = more[j])
  OBVIOUS
<1>4. total(val, rows) = SumFunctionOnSet(f, D) /\ total(val, now) = SumFunctionOnSet(g, D)
  BY <1>1 DEF total
<1> HIDE DEF f, g, d, D
<1>5. SumFunctionOnSet(g, D) = SumFunctionOnSet(f, D) + SumFunctionOnSet(d, D)
  BY <1>1, <1>2, SumOfSums
<1>6. SumFunctionOnSet(d, D) = SumFunctionOnSet(d, T)
  BY <1>1, <1>2, <1>3, SumOfPart
<1>7. SumFunctionOnSet(d, T) = SumFunctionOnSet(more, T)
  BY <1>1, <1>3, SumOfEqual
<1> QED
  BY <1>4, <1>5, <1>6, <1>7

\* A sum over the rows of interest is the total of a value that is 0 on the others.
LEMMA TotalOfPart ==
    ASSUME NEW val \in Values, NEW rows \in Seq(Position), NEW T \in SUBSET (DOMAIN rows),
           NEW f, \A i \in T : f[i] = val[rows[i]],
           \A i \in DOMAIN rows \ T : val[rows[i]] = 0
    PROVE  SumFunctionOnSet(f, T) = total(val, rows)
<1> DEFINE D == DOMAIN rows
           g == [j \in D |-> val[rows[j]]]
<1>1. IsFiniteSet(D) /\ T \in SUBSET D /\ IsFiniteSet(T)
  BY RowFacts, FS_Subset
<1>2. \A j \in D : g[j] \in Int
  BY RowFacts DEF Values
<1>3. (\A j \in D \ T : g[j] = 0) /\ (\A j \in T : f[j] = g[j])
  OBVIOUS
<1>4. total(val, rows) = SumFunctionOnSet(g, D)
  BY DEF total
<1> HIDE DEF g, D
<1>5. SumFunctionOnSet(g, D) = SumFunctionOnSet(g, T)
  BY <1>1, <1>2, <1>3, SumOfPart
<1>6. SumFunctionOnSet(f, T) = SumFunctionOnSet(g, T)
  BY <1>1, <1>3, SumOfEqual
<1> QED
  BY <1>4, <1>5, <1>6

-----------------------------------------------------------------------------
(* The sums of the properties, for a list of rows *)

openIn(rows) == {i \in DOMAIN rows : rows[i].status = "open"}

heldIn(rows, u) == {i \in openIn(rows) : rows[i].user = u}

stakeIn(rows, is) == SumFunctionOnSet([i \in DOMAIN rows |-> rows[i].stake], is)

wonIn(rows, u) ==
    LET mine == {i \in DOMAIN rows : rows[i].user = u}
    IN  SumFunctionOnSet([i \in mine |-> rows[i].payout - rows[i].stake], mine)

paidIn(rows) ==
    LET unsold == {i \in DOMAIN rows : rows[i].status # "sold"}
    IN  SumFunctionOnSet([i \in unsold |-> rows[i].payout], unsold)

LEMMA SumsAreTotals ==
    ASSUME NEW rows \in Seq(Position)
    PROVE  /\ \A u : stakeIn(rows, heldIn(rows, u)) = total(lockedValue(u), rows)
           /\ stakeIn(rows, openIn(rows)) = total(openValue, rows)
           /\ \A u : wonIn(rows, u) = total(wonValue(u), rows)
           /\ paidIn(rows) = total(paidValue, rows)
<1> DEFINE D == DOMAIN rows
           f == [i \in D |-> rows[i].stake]
<1>1. \A i \in D : rows[i] \in Position
  BY RowFacts
<1>2. ASSUME NEW u PROVE stakeIn(rows, heldIn(rows, u)) = total(lockedValue(u), rows)
  <2>1. /\ heldIn(rows, u) \in SUBSET D
        /\ \A i \in heldIn(rows, u) : f[i] = lockedValue(u)[rows[i]]
        /\ \A i \in D \ heldIn(rows, u) : lockedValue(u)[rows[i]] = 0
    BY <1>1 DEF lockedValue, heldIn, openIn
  <2>2. stakeIn(rows, heldIn(rows, u)) = SumFunctionOnSet(f, heldIn(rows, u))
    BY DEF stakeIn
  <2> HIDE DEF f
  <2> QED
    BY <2>1, <2>2, ValueTypes, TotalOfPart
<1>3. stakeIn(rows, openIn(rows)) = total(openValue, rows)
  <2>1. /\ openIn(rows) \in SUBSET D
        /\ \A i \in openIn(rows) : f[i] = openValue[rows[i]]
        /\ \A i \in D \ openIn(rows) : openValue[rows[i]] = 0
    BY <1>1 DEF openValue, openIn
  <2>2. stakeIn(rows, openIn(rows)) = SumFunctionOnSet(f, openIn(rows))
    BY DEF stakeIn
  <2> HIDE DEF f
  <2> QED
    BY <2>1, <2>2, ValueTypes, TotalOfPart
<1>4. ASSUME NEW u PROVE wonIn(rows, u) = total(wonValue(u), rows)
  <2> DEFINE mine == {i \in D : rows[i].user = u}
             g == [i \in mine |-> rows[i].payout - rows[i].stake]
  <2>1. /\ mine \in SUBSET D
        /\ \A i \in mine : g[i] = wonValue(u)[rows[i]]
        /\ \A i \in D \ mine : wonValue(u)[rows[i]] = 0
    BY <1>1 DEF wonValue
  <2>2. wonIn(rows, u) = SumFunctionOnSet(g, mine)
    BY DEF wonIn
  <2> HIDE DEF g, mine
  <2> QED
    BY <2>1, <2>2, ValueTypes, TotalOfPart
<1>5. paidIn(rows) = total(paidValue, rows)
  <2> DEFINE unsold == {i \in D : rows[i].status # "sold"}
             g == [i \in unsold |-> rows[i].payout]
  <2>1. /\ unsold \in SUBSET D
        /\ \A i \in unsold : g[i] = paidValue[rows[i]]
        /\ \A i \in D \ unsold : paidValue[rows[i]] = 0
    BY <1>1 DEF paidValue
  <2>2. paidIn(rows) = SumFunctionOnSet(g, unsold)
    BY DEF paidIn
  <2> HIDE DEF g, unsold
  <2> QED
    BY <2>1, <2>2, ValueTypes, TotalOfPart
<1> QED
  BY <1>2, <1>3, <1>4, <1>5

-----------------------------------------------------------------------------
(* The settlement *)

LEMMA Factors ==
    ASSUME NEW a \in Nat, NEW b \in Nat, NEW c \in Nat
    PROVE  /\ a * c \in Nat
           /\ a <= b => a * c <= b * c
           /\ c > 0 /\ a * c <= b * c => a <= b
OBVIOUS

LEMMA BasisPointsIsPositive == BasisPoints \in Nat /\ BasisPoints > 0
BY DEF BasisPoints

\* What a settlement needs of the state before it.
CanSettle == positions \in Seq(Position) /\ market.vig \in 0..BasisPoints

LEMMA TypedCanSettle ==
    ASSUME MarketTypeOK
    PROVE  CanSettle
<1>1. market.vig \in Vigs \cup {0} /\ positions \in Seq(Position)
  BY DEF MarketTypeOK
<1>2. \A v \in Vigs \cup {0} : v \in 0..BasisPoints
  BY PredictionMarketsAssumption, BasisPointsIsPositive
<1> QED
  BY <1>1, <1>2 DEF CanSettle

LEMMA StakeFacts ==
    ASSUME positions \in Seq(Position), NEW T \in SUBSET (DOMAIN positions)
    PROVE  /\ IsFiniteSet(T)
           /\ stakeOf(T) \in Nat
           /\ \A i \in T : positions[i].stake <= stakeOf(T)
<1> DEFINE f == [i \in DOMAIN positions |-> positions[i].stake]
<1>1. IsFiniteSet(T)
  BY RowFacts, FS_Subset
<1>2. \A i \in T : f[i] \in Nat /\ f[i] = positions[i].stake
  BY RowFacts
<1>3. stakeOf(T) = SumFunctionOnSet(f, T)
  BY DEF stakeOf
<1> HIDE DEF f
<1>4. \A i \in T : f[i] <= SumFunctionOnSet(f, T)
  BY <1>1, <1>2, TermIsAtMostSum
<1>5. SumFunctionOnSet(f, T) \in Nat
  BY <1>1, <1>2, SumIsNat
<1> QED
  BY <1>1, <1>2, <1>3, <1>4, <1>5

LEMMA PoolFacts ==
    ASSUME CanSettle, NEW o
    PROVE  /\ openPositions \in SUBSET (DOMAIN positions)
           /\ feeAmount(o) \in Nat
           /\ payoutPool(o) \in Nat
           /\ stakeOf(openPositions) = payoutPool(o) + feeAmount(o)
           /\ winners(o) = {} => feeAmount(o) = 0
<1>1. openPositions \in SUBSET (DOMAIN positions)
  BY DEF openPositions
<1>2. PICK pool \in Nat : pool = stakeOf(openPositions)
  BY <1>1, StakeFacts DEF CanSettle
<1>3. (pool * market.vig) \div BasisPoints \in 0..pool
  <2>1. PICK whole \in Nat : whole = BasisPoints /\ whole > 0
    BY BasisPointsIsPositive
  <2>2. PICK vig \in 0..whole : vig = market.vig
    BY <2>1 DEF CanSettle
  <2>3. PICK n \in Nat : n = pool * vig
    OBVIOUS
  <2>4. PICK q, r \in Nat : q = n \div whole /\ n = q * whole + r
    BY <2>1, Division
  <2>5. vig * pool <= whole * pool
    BY Factors
  <2>6. q * whole <= pool * whole
    BY <2>3, <2>4, <2>5
  <2>7. q <= pool
    BY <2>1, <2>6, Factors
  <2> QED
    BY <2>1, <2>2, <2>3, <2>4, <2>7
<1>4. feeAmount(o) \in 0..pool /\ (winners(o) = {} => feeAmount(o) = 0)
  BY <1>2, <1>3 DEF feeAmount
<1>5. payoutPool(o) = pool - feeAmount(o)
  BY <1>2 DEF payoutPool
<1> QED
  BY <1>1, <1>2, <1>4, <1>5

LEMMA WinnerFacts ==
    ASSUME CanSettle, NEW o, winners(o) # {}
    PROVE  /\ winners(o) \in SUBSET openPositions
           /\ IsFiniteSet(winners(o))
           /\ Cardinality(winners(o)) \in Nat /\ Cardinality(winners(o)) > 0
           /\ winningPool(o) \in Nat /\ winningPool(o) > 0
           /\ \A i \in winners(o) : positions[i].stake \in Nat
<1>1. winners(o) \in SUBSET openPositions /\ openPositions \in SUBSET (DOMAIN positions)
  BY DEF winners, openPositions
<1>2. winners(o) \in SUBSET (DOMAIN positions)
  BY <1>1
<1>3. /\ IsFiniteSet(winners(o))
      /\ winningPool(o) \in Nat
      /\ \A i \in winners(o) : positions[i].stake <= winningPool(o)
  BY <1>2, StakeFacts DEF CanSettle, winningPool
<1>4. \A i \in winners(o) : positions[i].stake \in Nat /\ positions[i].stake > 0
  BY <1>2, RowFacts DEF CanSettle
<1>5. PICK i \in winners(o) : TRUE
  OBVIOUS
<1>6. winningPool(o) > 0
  BY <1>3, <1>4, <1>5
<1>7. Cardinality(winners(o)) \in Nat /\ Cardinality(winners(o)) # 0
  BY <1>3, FS_CardinalityType, FS_EmptySet
<1> QED
  BY <1>1, <1>3, <1>4, <1>6, <1>7

LEMMA ShareFacts ==
    ASSUME CanSettle, NEW o, NEW i \in winners(o)
    PROVE  /\ roundedDown(i, o) \in Nat
           /\ remainder(i, o) \in Nat /\ remainder(i, o) < winningPool(o)
           /\ exactPayout(i, o) = positions[i].stake * payoutPool(o)
           /\ exactPayout(i, o) \in Nat
           /\ exactPayout(i, o) = roundedDown(i, o) * winningPool(o) + remainder(i, o)
<1>1. positions[i].stake \in Nat /\ winningPool(o) \in Nat /\ winningPool(o) > 0
  BY WinnerFacts
<1>2. payoutPool(o) \in Nat
  BY PoolFacts
<1>3. exactPayout(i, o) = positions[i].stake * payoutPool(o) /\ exactPayout(i, o) \in Nat
  BY <1>1, <1>2, Factors DEF exactPayout
<1>4. PICK q, r \in Nat :
        /\ q = exactPayout(i, o) \div winningPool(o) /\ r = exactPayout(i, o) % winningPool(o)
        /\ exactPayout(i, o) = q * winningPool(o) + r /\ r < winningPool(o)
  BY <1>1, <1>3, Division
<1>5. roundedDown(i, o) = q /\ remainder(i, o) = r
  BY <1>4, Zenon DEF roundedDown, remainder
<1> QED
  BY <1>3, <1>4, <1>5

(***************************************************************************)
(* Rounding down never pays more than the pool, so the cents left over are *)
(* a natural number: the code's own check of it never fails.               *)
(***************************************************************************)
LEMMA CentsFacts ==
    ASSUME CanSettle, NEW o, winners(o) # {}
    PROVE  /\ centsRemaining(o) \in Nat
           /\ centsRemaining(o) <= payoutPool(o)
           /\ SumFunctionOnSet([i \in winners(o) |-> roundedDown(i, o)], winners(o))
                    = payoutPool(o) - centsRemaining(o)
<1> DEFINE W == winners(o)
           stake == [i \in W |-> positions[i].stake]
           exact == [i \in W |-> exactPayout(i, o)]
           down == [i \in W |-> roundedDown(i, o)]
           kept == [i \in W |-> roundedDown(i, o) * winningPool(o)]
           rest == [i \in W |-> remainder(i, o)]
<1>1. IsFiniteSet(W) /\ winningPool(o) \in Nat /\ winningPool(o) > 0 /\ payoutPool(o) \in Nat
  BY WinnerFacts, PoolFacts
<1>2. \A i \in W : /\ stake[i] \in Nat /\ exact[i] = stake[i] * payoutPool(o)
                   /\ exact[i] \in Nat
                   /\ down[i] \in Nat /\ rest[i] \in Nat
                   /\ kept[i] = down[i] * winningPool(o)
                   /\ kept[i] \in Nat
                   /\ exact[i] = kept[i] + rest[i]
  BY <1>1, ShareFacts, WinnerFacts, Factors
<1>3. SumFunctionOnSet(stake, W) = winningPool(o)
  <2> DEFINE all == [i \in DOMAIN positions |-> positions[i].stake]
  <2>1. winningPool(o) = SumFunctionOnSet(all, W)
    BY DEF winningPool, stakeOf
  <2>2. \A i \in W : stake[i] = all[i]
    BY DEF winners, openPositions
  <2> HIDE DEF all, stake, W
  <2> QED
    BY <1>1, <2>1, <2>2, SumOfEqual
<1>4. centsRemaining(o) = payoutPool(o) - SumFunctionOnSet(down, W)
  BY DEF centsRemaining
<1> HIDE DEF W, stake, exact, down, kept, rest
<1>5. SumFunctionOnSet(exact, W) = winningPool(o) * payoutPool(o)
  <2>1. SumFunctionOnSet(exact, W) = SumFunctionOnSet(stake, W) * payoutPool(o)
    BY <1>1, <1>2, SumOfMultiples
  <2> QED
    BY <1>3, <2>1
<1>6. SumFunctionOnSet(kept, W) = SumFunctionOnSet(down, W) * winningPool(o)
  BY <1>1, <1>2, SumOfMultiples
<1>7. SumFunctionOnSet(exact, W) = SumFunctionOnSet(kept, W) + SumFunctionOnSet(rest, W)
  BY <1>1, <1>2, SumOfSums
<1>8. SumFunctionOnSet(down, W) \in Nat /\ SumFunctionOnSet(rest, W) \in Nat
  BY <1>1, <1>2, SumIsNat
<1>9. SumFunctionOnSet(down, W) <= payoutPool(o)
  <2>1. PICK d \in Nat : d = SumFunctionOnSet(down, W)
    BY <1>8
  <2>2. PICK r \in Nat : r = SumFunctionOnSet(rest, W)
    BY <1>8
  <2>3. PICK w \in Nat, pp \in Nat : w = winningPool(o) /\ pp = payoutPool(o) /\ w > 0
    BY <1>1
  <2>4. w * pp = d * w + r
    BY <1>5, <1>6, <1>7, <2>1, <2>2, <2>3
  <2>5. d * w <= pp * w
    BY <2>4
  <2>6. d <= pp
    BY <2>3, <2>5, Factors
  <2> QED
    BY <2>1, <2>3, <2>6
<1>10. SumFunctionOnSet(down, W) = payoutPool(o) - centsRemaining(o)
  BY <1>1, <1>4, <1>8
<1> QED
  BY <1>1, <1>4, <1>8, <1>9, <1>10 DEF down, W

(***************************************************************************)
(* The winners are ranked without a tie by their remainders and ids.       *)
(***************************************************************************)
LEMMA RankFacts ==
    ASSUME CanSettle, NEW o, winners(o) # {}
    PROVE  /\ \A i \in winners(o) : Cardinality(ahead(i, o)) \in 0..(Cardinality(winners(o)) - 1)
           /\ \A i, j \in winners(o) :
                    i \in ahead(j, o) => Cardinality(ahead(i, o)) < Cardinality(ahead(j, o))
           /\ \A i, j \in winners(o) : i # j => i \in ahead(j, o) \/ j \in ahead(i, o)
<1> DEFINE W == winners(o)
<1>1. IsFiniteSet(W) /\ W \in SUBSET (DOMAIN positions) /\ Cardinality(W) \in Nat
  BY WinnerFacts DEF openPositions
<1>2. W \in SUBSET Int
  BY <1>1, RowFacts DEF CanSettle
<1>3. \A i \in W : remainder(i, o) \in Nat
  BY ShareFacts
<1>4. \A i, j \in W : i \in ahead(j, o) <=> \/ remainder(i, o) > remainder(j, o)
                                            \/ remainder(i, o) = remainder(j, o) /\ i < j
  BY DEF ahead
<1>5. \A i \in W : ahead(i, o) \in SUBSET W
  BY DEF ahead
<1> HIDE DEF W
<1>6. \A i \in W : i \notin ahead(i, o)
  BY <1>2, <1>3, <1>4
<1>7. \A i, j, k \in W : i \in ahead(j, o) /\ j \in ahead(k, o) => i \in ahead(k, o)
  BY <1>2, <1>3, <1>4
<1>8. \A i, j \in W : i # j => i \in ahead(j, o) \/ j \in ahead(i, o)
  BY <1>2, <1>3, <1>4
<1>9. ASSUME NEW i \in W
      PROVE  IsFiniteSet(ahead(i, o)) /\ Cardinality(ahead(i, o)) \in 0..(Cardinality(W) - 1)
  <2>1. /\ IsFiniteSet(ahead(i, o)) /\ Cardinality(ahead(i, o)) <= Cardinality(W)
        /\ (Cardinality(W) = Cardinality(ahead(i, o)) => W = ahead(i, o))
    BY <1>1, <1>5, FS_Subset
  <2>2. Cardinality(ahead(i, o)) \in Nat
    BY <2>1, FS_CardinalityType
  <2> QED
    BY <1>1, <1>6, <2>1, <2>2
<1>10. ASSUME NEW i \in W, NEW j \in W, i \in ahead(j, o)
       PROVE  Cardinality(ahead(i, o)) < Cardinality(ahead(j, o))
  <2>1. ahead(i, o) \in SUBSET ahead(j, o)
    BY <1>5, <1>7, <1>10
  <2>2. /\ Cardinality(ahead(i, o)) <= Cardinality(ahead(j, o))
        /\ (Cardinality(ahead(j, o)) = Cardinality(ahead(i, o)) => ahead(j, o) = ahead(i, o))
    BY <1>9, <2>1, FS_Subset
  <2>3. ahead(j, o) # ahead(i, o)
    BY <1>6, <1>10
  <2> QED
    BY <1>9, <2>2, <2>3
<1> QED
  BY <1>8, <1>9, <1>10 DEF W

LEMMA ExtraFacts ==
    ASSUME CanSettle, NEW o, winners(o) # {}
    PROVE  /\ \A i \in winners(o) : extraCents(i, o) \in Nat
           /\ SumFunctionOnSet([i \in winners(o) |-> extraCents(i, o)], winners(o)) = centsRemaining(o)
           /\ \A i, j \in winners(o) : i \in ahead(j, o) => extraCents(i, o) >= extraCents(j, o)
           /\ \A i, j \in winners(o) : extraCents(i, o) >= extraCents(j, o) - 1
           /\ centsRemaining(o) = 0 => \A i \in winners(o) : extraCents(i, o) = 0
<1> DEFINE W == winners(o)
           rank == [i \in W |-> Cardinality(ahead(i, o))]
<1>1. PICK n \in Nat : n = Cardinality(W) /\ n > 0
  BY WinnerFacts
<1>2. PICK c \in Nat : c = centsRemaining(o)
  BY CentsFacts
<1>3. PICK q, last \in Nat : q = c \div n /\ last = c % n /\ c = q * n + last /\ last < n
  BY <1>1, Division
<1> DEFINE one == [i \in W |-> IF rank[i] < last THEN 1 ELSE 0]
           every == [i \in W |-> q]
           extra == [i \in W |-> extraCents(i, o)]
           T == {i \in W : rank[i] < last}
<1>4. \A i \in W : extra[i] = extraCents(i, o) /\ extra[i] = every[i] + one[i]
  BY <1>1, <1>2, <1>3 DEF extraCents
<1>5. \A i \in W : every[i] = q /\ one[i] \in {0, 1} /\ one[i] = IF i \in T THEN 1 ELSE 0
  OBVIOUS
<1>6. IsFiniteSet(W) /\ T \in SUBSET W
  BY WinnerFacts
<1>7. rank \in [W -> 0..(n - 1)]
  BY <1>1, RankFacts
<1>8. \A i, j \in W : i # j => rank[i] # rank[j]
  <2> SUFFICES ASSUME NEW i \in W, NEW j \in W, i # j PROVE rank[i] # rank[j]
    OBVIOUS
  <2>1. rank[i] \in Int /\ rank[j] \in Int
    BY <1>7
  <2>2. rank[i] < rank[j] \/ rank[j] < rank[i]
    BY RankFacts
  <2> QED
    BY <2>1, <2>2
<1>9. \A i, j \in W : i \in ahead(j, o) => rank[i] < rank[j]
  BY RankFacts
<1>10. Cardinality(T) = last
  <2> HIDE DEF W, rank
  <2>1. last \in 0..Cardinality(W)
    BY <1>1, <1>3
  <2>2. rank \in [W -> 0..(Cardinality(W) - 1)]
    BY <1>1, <1>7
  <2> QED
    BY <1>6, <1>8, <2>1, <2>2, RanksBelow
<1>11. ASSUME NEW i \in W, NEW j \in W, i \in ahead(j, o) PROVE one[i] >= one[j]
  <2>1. rank[i] \in Int /\ rank[j] \in Int /\ rank[i] < rank[j]
    BY <1>7, <1>9, <1>11
  <2> HIDE DEF rank
  <2> QED
    BY <1>3, <2>1
<1> HIDE DEF W, rank, one, every, extra, T
<1>12. SumFunctionOnSet(every, W) = n * q
  BY <1>1, <1>5, <1>6, SumOfConstant
<1>13. SumFunctionOnSet(one, W) = last
  BY <1>5, <1>6, <1>10, SumCounts
<1>14. \A i \in W : every[i] \in Int /\ one[i] \in Int
  BY <1>5
<1>15. SumFunctionOnSet(extra, W) = n * q + last
  <2>1. \A i \in W : extra[i] = every[i] + one[i]
    BY <1>4
  <2>2. SumFunctionOnSet(extra, W) = SumFunctionOnSet(every, W) + SumFunctionOnSet(one, W)
    BY <1>6, <1>14, <2>1, SumOfSums
  <2> QED
    BY <1>12, <1>13, <2>2
<1>16. n * q = q * n
  OBVIOUS
<1>17. SumFunctionOnSet(extra, W) = centsRemaining(o)
  BY <1>2, <1>3, <1>15, <1>16
<1>18. c = 0 => q = 0 /\ last = 0
  BY <1>1, <1>3
<1>19. last = 0 => \A i \in W : one[i] = 0
  BY <1>7 DEF one
<1>20. ASSUME NEW i \in W PROVE extraCents(i, o) \in Nat /\ (c = 0 => extraCents(i, o) = 0)
  BY <1>4, <1>5, <1>18, <1>19
<1>21. ASSUME NEW i \in W, NEW j \in W
       PROVE  /\ i \in ahead(j, o) => extraCents(i, o) >= extraCents(j, o)
              /\ extraCents(i, o) >= extraCents(j, o) - 1
  BY <1>4, <1>5, <1>11
<1> QED
  BY <1>2, <1>17, <1>20, <1>21 DEF W, extra

\* A larger stake has a larger share: rounded down, or else in what is cut off.
LEMMA LargerStakeLargerShare ==
    ASSUME CanSettle, NEW o, NEW i \in winners(o), NEW j \in winners(o),
           positions[i].stake > positions[j].stake
    PROVE  /\ roundedDown(i, o) >= roundedDown(j, o)
           /\ roundedDown(i, o) = roundedDown(j, o) =>
                remainder(i, o) > remainder(j, o) \/ payoutPool(o) = 0
<1>1. PICK wp \in Nat, pp \in Nat : wp = winningPool(o) /\ wp > 0 /\ pp = payoutPool(o)
  BY WinnerFacts, PoolFacts
<1>2. PICK q1, r1, s1 \in Nat :
        /\ q1 = roundedDown(i, o) /\ r1 = remainder(i, o) /\ s1 = positions[i].stake
        /\ s1 * pp = q1 * wp + r1 /\ r1 < wp
  BY <1>1, ShareFacts, WinnerFacts
<1>3. PICK q2, r2, s2 \in Nat :
        /\ q2 = roundedDown(j, o) /\ r2 = remainder(j, o) /\ s2 = positions[j].stake
        /\ s2 * pp = q2 * wp + r2 /\ r2 < wp
  BY <1>1, ShareFacts, WinnerFacts
<1>4. s1 > s2
  BY <1>2, <1>3
<1>5. PICK d \in Nat : s1 = s2 + 1 + d
  <2>1. s1 - s2 - 1 \in Nat
    BY <1>4
  <2> QED
    BY <2>1
<1>6. s1 * pp = s2 * pp + pp + d * pp /\ d * pp \in Nat
  BY <1>5
<1>7. q1 * wp + r1 >= q2 * wp + r2 + pp
  <2>1. s1 * pp \in Nat /\ s2 * pp \in Nat
    OBVIOUS
  <2> QED
    BY <1>2, <1>3, <1>6, <2>1
<1>8. q1 >= q2
  <2> SUFFICES ASSUME q1 < q2 PROVE FALSE
    OBVIOUS
  <2>1. PICK e \in Nat : q2 = q1 + 1 + e
    <3>1. q2 - q1 - 1 \in Nat
      OBVIOUS
    <3> QED
      BY <3>1
  <2>2. q2 * wp = q1 * wp + wp + e * wp /\ e * wp \in Nat /\ q1 * wp \in Nat
    BY <2>1
  <2> QED
    BY <1>2, <1>7, <2>2
<1>9. q1 = q2 => r1 > r2 \/ pp = 0
  BY <1>7
<1> QED
  BY <1>1, <1>2, <1>3, <1>8, <1>9

(***************************************************************************)
(* What a settlement computes: natural payouts that with the fee make up   *)
(* the stakes, and of two winners the larger stake never receives less.    *)
(***************************************************************************)
LEMMA SettlementFacts ==
    ASSUME CanSettle, NEW o
    PROVE  /\ \A i \in openPositions : payoutOf(i, o) \in Nat
           /\ SumFunctionOnSet([i \in openPositions |-> payoutOf(i, o)], openPositions) + feeAmount(o)
                    = stakeOf(openPositions)
           /\ \A i, j \in winners(o) :
                    positions[i].stake > positions[j].stake => payoutOf(i, o) >= payoutOf(j, o)
<1> DEFINE O == openPositions
           W == winners(o)
           pay == [i \in O |-> payoutOf(i, o)]
<1>1. /\ O \in SUBSET (DOMAIN positions) /\ IsFiniteSet(O)
      /\ feeAmount(o) \in Nat /\ payoutPool(o) \in Nat
      /\ stakeOf(O) = payoutPool(o) + feeAmount(o)
  BY PoolFacts, StakeFacts DEF CanSettle
<1>2. CASE W = {}
  <2> DEFINE all == [i \in DOMAIN positions |-> positions[i].stake]
  <2>1. \A i \in O : pay[i] = all[i] /\ payoutOf(i, o) = positions[i].stake
    BY <1>1, <1>2 DEF payoutOf
  <2>2. \A i \in O : payoutOf(i, o) \in Nat
    <3>1. \A i \in O : positions[i].stake \in Nat
      BY <1>1, RowFacts DEF CanSettle
    <3> QED
      BY <2>1, <3>1
  <2>3. stakeOf(O) = SumFunctionOnSet(all, O)
    BY DEF stakeOf
  <2>4. feeAmount(o) = 0
    BY <1>2, PoolFacts
  <2>5. SumFunctionOnSet(pay, O) = stakeOf(O)
    <3> HIDE DEF pay, all, O
    <3> QED
      BY <1>1, <2>1, <2>3, SumOfEqual
  <2>6. SumFunctionOnSet(pay, O) + feeAmount(o) = stakeOf(O)
    BY <1>1, <2>4, <2>5
  <2> QED
    BY <1>2, <2>2, <2>6
<1>3. CASE W # {}
  <2> DEFINE down == [i \in W |-> roundedDown(i, o)]
             extra == [i \in W |-> extraCents(i, o)]
  <2>1. \A i \in O : payoutOf(i, o) = IF i \in W THEN roundedDown(i, o) + extraCents(i, o) ELSE 0
    BY <1>3 DEF payoutOf, winners
  <2>2. \A i \in W : roundedDown(i, o) \in Nat /\ extraCents(i, o) \in Nat
    BY <1>3, ShareFacts, ExtraFacts
  <2>3. W \in SUBSET O /\ IsFiniteSet(W)
    BY <1>3, WinnerFacts
  <2>4. \A i \in O : payoutOf(i, o) \in Nat
    BY <2>1, <2>2
  <2>5. SumFunctionOnSet(pay, O) = payoutPool(o)
    <3>1. SumFunctionOnSet(down, W) = payoutPool(o) - centsRemaining(o) /\ centsRemaining(o) \in Nat
      BY <1>3, CentsFacts
    <3>2. SumFunctionOnSet(extra, W) = centsRemaining(o)
      BY <1>3, ExtraFacts
    <3>3. /\ \A i \in O \ W : pay[i] = 0
          /\ \A i \in O : pay[i] \in Int
      BY <2>1, <2>4
    <3>4. \A i \in W : down[i] \in Int /\ extra[i] \in Int /\ pay[i] = down[i] + extra[i]
      BY <2>1, <2>2, <2>3
    <3> HIDE DEF pay, O, W, down, extra
    <3>5. SumFunctionOnSet(pay, O) = SumFunctionOnSet(pay, W)
      BY <1>1, <2>3, <3>3, SumOfPart
    <3>6. SumFunctionOnSet(pay, W) = SumFunctionOnSet(down, W) + SumFunctionOnSet(extra, W)
      BY <2>3, <3>4, SumOfSums
    <3> QED
      BY <1>1, <3>1, <3>2, <3>5, <3>6
  <2>6. ASSUME NEW i \in W, NEW j \in W, positions[i].stake > positions[j].stake
        PROVE  payoutOf(i, o) >= payoutOf(j, o)
    <3>1. payoutOf(i, o) = roundedDown(i, o) + extraCents(i, o)
          /\ payoutOf(j, o) = roundedDown(j, o) + extraCents(j, o)
      BY <2>1, <2>3
    <3>2. roundedDown(i, o) >= roundedDown(j, o)
      BY <1>3, <2>6, LargerStakeLargerShare
    <3>3. CASE roundedDown(i, o) > roundedDown(j, o)
      <4>1. extraCents(i, o) >= extraCents(j, o) - 1
        BY <1>3, ExtraFacts
      <4> QED
        BY <2>2, <3>1, <3>3, <4>1
    <3>4. CASE roundedDown(i, o) = roundedDown(j, o)
      <4>1. extraCents(i, o) >= extraCents(j, o)
        <5>1. remainder(i, o) > remainder(j, o) \/ payoutPool(o) = 0
          BY <1>3, <2>6, <3>4, LargerStakeLargerShare
        <5>2. CASE payoutPool(o) = 0
          <6>0. centsRemaining(o) \in Nat /\ centsRemaining(o) <= payoutPool(o)
            BY <1>3, CentsFacts
          <6>1. centsRemaining(o) = 0
            BY <5>2, <6>0
          <6>2. extraCents(i, o) = 0 /\ extraCents(j, o) = 0
            BY <1>3, <6>1, ExtraFacts
          <6> QED
            BY <6>2
        <5>3. CASE remainder(i, o) > remainder(j, o)
          <6>1. i \in ahead(j, o)
            BY <5>3 DEF ahead
          <6> QED
            BY <1>3, <6>1, ExtraFacts
        <5> QED
          BY <5>1, <5>2, <5>3
      <4> QED
        BY <2>2, <3>1, <3>4, <4>1
    <3> QED
      BY <2>2, <3>2, <3>3, <3>4
  <2>7. SumFunctionOnSet(pay, O) + feeAmount(o) = stakeOf(O)
    BY <1>1, <2>5
  <2> QED
    BY <2>4, <2>6, <2>7
<1> QED
  BY <1>2, <1>3

-----------------------------------------------------------------------------
(***************************************************************************)
(* The inductive invariant.  A market that does not exist yet has no       *)
(* positions, and time stands still for it; until it is final every        *)
(* position is open or sold, and an open one was paid nothing.             *)
(***************************************************************************)
\* The keys of the order's movements, the only ones besides the gifts'.
StoreKeys == {"fulfill", "restore"} \cup FINAL_STATUSES

LedgerShape ==
    /\ LedgerTypeOK
    /\ keys \in [Accounts -> SUBSET StoreKeys]

MarketShape ==
    /\ MarketTypeOK
    /\ market.status = "none" => clock \in {1, 2} /\ positions = <<>>
    /\ \A i \in DOMAIN positions :
        /\ positions[i].status = "open" => market.status \notin Final /\ positions[i].payout = 0
        /\ market.status \notin Final => positions[i].status \in {"open", "sold"}

(***************************************************************************)
(* Only an existing order is read.  One that needed no approval and was    *)
(* not restored is delivered once; if it was ever seen reversed, the key   *)
(* of a reversal has an entry, the reversal's own or a gift's, or the      *)
(* owner was frozen.                                                       *)
(***************************************************************************)
OrderRow ==
    [status : {"none", "verified", "fulfilled"} \cup FINAL_STATUSES,
     delivery : {"voucher", "gift_pack"}, manual : BOOLEAN,
     account : Accounts \cup {CHOOSE a \in Accounts : TRUE}]

EverReversed ==
    \/ order.status \in FINAL_STATUSES
    \/ \E s \in Sessions : session[s].seen \in FINAL_STATUSES

deliveredOnce == order.status # "none" /\ ~order.manual /\ "restore" \notin keys[order.account]

reversalPosted == \E k \in FINAL_STATUSES : findLedgerEntry(order.account, k)

StoreShape ==
    /\ StoreTypeOK
    /\ order \in OrderRow
    /\ \A s \in Sessions : session[s].call # "none" => session[s].seen # "none"
    /\ order.status = "none" =>
        /\ \A a \in Accounts : keys[a] \cap StoreKeys = {}
        /\ \A s \in Sessions : session[s].seen = "none"
    /\ deliveredOnce =>
        /\ order.status # "verified"
        /\ \A s \in Sessions : session[s].seen # "verified"
        /\ EverReversed => reversalPosted \/ order.account[1] \in frozen

EconomyInv ==
    LedgerShape /\ MarketShape /\ StoreShape
        /\ StakesAreLocked /\ SettlementPaysPool /\ BalanceIsExplained

-----------------------------------------------------------------------------
(* What the movements do to a balance row *)

withAvailable(b, n) == [b EXCEPT !.available = n]
withLocked(b, n) == [b EXCEPT !.locked = n]
withEarned(b, n) == [b EXCEPT !.earned = n]
withSpent(b, n) == [b EXCEPT !.spent = n]

LEMMA FieldChanged ==
    ASSUME NEW b \in Balance, NEW n \in Nat
    PROVE  /\ withAvailable(b, n) \in Balance
           /\ withAvailable(b, n).available = n
           /\ withAvailable(b, n).locked = b.locked
           /\ withLocked(b, n) \in Balance
           /\ withLocked(b, n).available = b.available
           /\ withLocked(b, n).locked = n
           /\ withEarned(b, n) \in Balance
           /\ withEarned(b, n).available = b.available
           /\ withEarned(b, n).locked = b.locked
           /\ withSpent(b, n) \in Balance
           /\ withSpent(b, n).available = b.available
           /\ withSpent(b, n).locked = b.locked
BY DEF Balance, withAvailable, withLocked, withEarned, withSpent

LEMMA FieldTypes ==
    ASSUME NEW b \in Balance
    PROVE  b.available \in Nat /\ b.locked \in Nat /\ b.earned \in Nat /\ b.spent \in Nat
BY DEF Balance

LEMMA CreditedRow ==
    ASSUME NEW b \in Balance, NEW n \in Nat
    PROVE  /\ creditAsset(b, n) \in Balance
           /\ creditAsset(b, n).available = b.available + n
           /\ creditAsset(b, n).locked = b.locked
<1>1. PICK m, e \in Nat : m = b.available + n /\ e = b.earned + n
  BY FieldTypes
<1>2. PICK c : c = withAvailable(b, m)
  OBVIOUS
<1>3. c \in Balance /\ c.available = m /\ c.locked = b.locked
  BY <1>2, FieldChanged
<1>4. creditAsset(b, n) = withEarned(c, e)
  BY <1>1, <1>2, Zenon DEF creditAsset, withAvailable, withEarned
<1>5. withEarned(c, e) \in Balance /\ withEarned(c, e).available = m /\ withEarned(c, e).locked = b.locked
  BY <1>3, FieldChanged
<1> QED
  BY <1>1, <1>4, <1>5

LEMMA DebitedRow ==
    ASSUME NEW b \in Balance, NEW n \in Nat, canDebit(b, n)
    PROVE  /\ debitAsset(b, n) \in Balance
           /\ debitAsset(b, n).available = b.available - n
           /\ debitAsset(b, n).locked = b.locked
           /\ lockAsset(b, n) \in Balance
           /\ lockAsset(b, n).available = b.available - n
           /\ lockAsset(b, n).locked = b.locked + n
<1>1. PICK m, e, k \in Nat : m = b.available - n /\ e = b.spent + n /\ k = b.locked + n
  BY FieldTypes DEF canDebit
<1>2. PICK c : c = withAvailable(b, m)
  OBVIOUS
<1>3. c \in Balance /\ c.available = m /\ c.locked = b.locked
  BY <1>2, FieldChanged
<1>4. debitAsset(b, n) = withSpent(c, e)
  BY <1>1, <1>2, Zenon DEF debitAsset, withAvailable, withSpent
<1>5. lockAsset(b, n) = withLocked(c, k)
  BY <1>1, <1>2, Zenon DEF lockAsset, withAvailable, withLocked
<1>6. withSpent(c, e) \in Balance /\ withSpent(c, e).available = m /\ withSpent(c, e).locked = b.locked
  BY <1>3, FieldChanged
<1>7. withLocked(c, k) \in Balance /\ withLocked(c, k).available = m /\ withLocked(c, k).locked = k
  BY <1>3, FieldChanged
<1> QED
  BY <1>1, <1>4, <1>5, <1>6, <1>7

LEMMA UnlockedRow ==
    ASSUME NEW b \in Balance, NEW n \in Nat, canUnlock(b, n)
    PROVE  /\ unlockAsset(b, n) \in Balance
           /\ unlockAsset(b, n).available = b.available + n
           /\ unlockAsset(b, n).locked = b.locked - n
<1>1. PICK m, k \in Nat : m = b.available + n /\ k = b.locked - n
  BY FieldTypes DEF canUnlock
<1>2. PICK c : c = withAvailable(b, m)
  OBVIOUS
<1>3. c \in Balance /\ c.available = m /\ c.locked = b.locked
  BY <1>2, FieldChanged
<1>4. unlockAsset(b, n) = withLocked(c, k)
  BY <1>1, <1>2, Zenon DEF unlockAsset, withAvailable, withLocked
<1>5. withLocked(c, k) \in Balance /\ withLocked(c, k).available = m /\ withLocked(c, k).locked = k
  BY <1>3, FieldChanged
<1> QED
  BY <1>1, <1>4, <1>5

LEMMA SettledRow ==
    ASSUME NEW b \in Balance, NEW n \in Nat, NEW m \in Nat, canUnlock(b, n)
    PROVE  /\ settleLockedAsset(b, n, m) \in Balance
           /\ settleLockedAsset(b, n, m).available = b.available + m
           /\ settleLockedAsset(b, n, m).locked = b.locked - n
<1>1. positivePart(m - n) \in Nat /\ positivePart(n - m) \in Nat
  BY DEF positivePart
<1>2. PICK v, k, e, s \in Nat :
        /\ v = b.available + m /\ k = b.locked - n
        /\ e = b.earned + positivePart(m - n) /\ s = b.spent + positivePart(n - m)
  <2>1. PICK g, l \in Nat : g = positivePart(m - n) /\ l = positivePart(n - m)
    BY <1>1
  <2>2. b.available \in Nat /\ b.locked \in Nat /\ b.earned \in Nat /\ b.spent \in Nat
    BY FieldTypes
  <2>3. /\ b.available + m \in Nat /\ b.locked - n \in Nat
        /\ b.earned + g \in Nat /\ b.spent + l \in Nat
    BY <2>2 DEF canUnlock
  <2> QED
    BY <2>1, <2>3
<1>3. PICK c : c = withAvailable(b, v)
  OBVIOUS
<1>4. PICK d : d = withLocked(c, k)
  OBVIOUS
<1>5. PICK f : f = withEarned(d, e)
  OBVIOUS
<1>6. c \in Balance /\ c.available = v
  BY <1>3, FieldChanged
<1>7. d \in Balance /\ d.available = v /\ d.locked = k
  BY <1>4, <1>6, FieldChanged
<1>8. f \in Balance /\ f.available = v /\ f.locked = k
  BY <1>5, <1>7, FieldChanged
<1>9. settleLockedAsset(b, n, m) = withSpent(f, s)
  BY <1>2, <1>3, <1>4, <1>5, Zenon DEF settleLockedAsset, withAvailable, withLocked, withEarned, withSpent
<1>10. withSpent(f, s) \in Balance /\ withSpent(f, s).available = v /\ withSpent(f, s).locked = k
  BY <1>8, FieldChanged
<1> QED
  BY <1>2, <1>9, <1>10

LEMMA BalanceAt ==
    ASSUME LedgerShape, NEW a \in Accounts
    PROVE  /\ balances[a] \in Balance
           /\ balances[a].available \in Nat
           /\ balances[a].locked \in Nat
           /\ adjusted[a] \in Int
<1>1. balances[a] \in Balance /\ adjusted[a] \in Int
  BY DEF LedgerShape, LedgerTypeOK
<1> QED
  BY <1>1 DEF Balance

LEMMA AccountFacts ==
    /\ \A u \in Users : Luck(u) \in Accounts /\ Luck(u)[1] = u /\ Luck(u)[2] = "B_LUCK"
    /\ \A a \in Accounts : a[1] \in Users /\ a = <<a[1], a[2]>>
    /\ \A a \in Accounts : a[2] = "B_LUCK" => a = Luck(a[1])
    /\ \A u, v : Luck(u) = Luck(v) => u = v
BY DEF Luck, Accounts, Assets

-----------------------------------------------------------------------------
(* The explanation's terms *)

giftsIn(gifts, u) ==
    SumFunctionOnSet([t \in gifts |-> IF t.to = u THEN t.amount ELSE 0], gifts)
        - SumFunctionOnSet([t \in gifts |-> IF t.from = u THEN t.amount ELSE 0], gifts)

netIn(posted) ==
    Cardinality(posted \cap {"fulfill", "restore"}) - Cardinality(posted \cap FINAL_STATUSES)

LEMMA NetIsInt ==
    ASSUME NEW posted
    PROVE  /\ netIn(posted) \in Int
           /\ \A n \in Int : n * PurchaseAmount \in Int
           /\ PurchaseAmount \in Nat
<1>1. IsFiniteSet({"fulfill", "restore"}) /\ IsFiniteSet(FINAL_STATUSES)
  <2>1. IsFiniteSet({"fulfill"} \cup {"restore"}) /\ IsFiniteSet({"refunded"} \cup {"revoked"})
    BY FS_Singleton, FS_AddElement
  <2>2. {"fulfill"} \cup {"restore"} = {"fulfill", "restore"}
        /\ {"refunded"} \cup {"revoked"} = FINAL_STATUSES
    BY DEF FINAL_STATUSES
  <2> QED
    BY <2>1, <2>2
<1>2. /\ Cardinality(posted \cap {"fulfill", "restore"}) \in Nat
      /\ Cardinality(posted \cap FINAL_STATUSES) \in Nat
  BY <1>1, FS_Subset, FS_CardinalityType
<1>3. PurchaseAmount \in Nat
  BY StorePurchasesAssumption
<1> QED
  BY <1>2, <1>3 DEF netIn

LEMMA NetOfStoreKeys ==
    ASSUME NEW posted, NEW later, posted \cap StoreKeys = later \cap StoreKeys
    PROVE  netIn(posted) = netIn(later)
<1>1. /\ posted \cap {"fulfill", "restore"} = later \cap {"fulfill", "restore"}
      /\ posted \cap FINAL_STATUSES = later \cap FINAL_STATUSES
  BY DEF StoreKeys
<1> QED
  BY <1>1 DEF netIn

boughtOf(a, o, posted) ==
    IF a = o.account /\ o.status # "none" THEN netIn(posted) * PurchaseAmount ELSE 0

LEMMA BoughtIsInt ==
    ASSUME NEW a, NEW o, NEW posted
    PROVE  boughtOf(a, o, posted) \in Int
<1>1. netIn(posted) * PurchaseAmount \in Int
  BY NetIsInt
<1> QED
  BY <1>1 DEF boughtOf

LEMMA BoughtIs ==
    ASSUME NEW a
    PROVE  /\ bought(a) = boughtOf(a, order, keys[a])
           /\ bought(a)' = boughtOf(a, order', keys'[a])
<1>1. 0 * PurchaseAmount = 0
  BY NetIsInt
<1>2. bought(a) = boughtOf(a, order, keys[a])
  <2>1. netDelivered = IF order.status = "none" THEN 0 ELSE netIn(keys[order.account])
    BY DEF netDelivered, netIn
  <2>2. CASE a = order.account
    BY <1>1, <2>1, <2>2 DEF bought, boughtOf
  <2>3. CASE a # order.account
    BY <2>3 DEF bought, boughtOf
  <2> QED
    BY <2>2, <2>3
<1>3. bought(a)' = boughtOf(a, order', keys'[a])
  <2>1. netDelivered' = IF order'.status = "none" THEN 0 ELSE netIn(keys'[order'.account])
    BY DEF netDelivered, netIn
  <2>2. CASE a = order'.account
    BY <1>1, <2>1, <2>2 DEF bought, boughtOf
  <2>3. CASE a # order'.account
    BY <2>3 DEF bought, boughtOf
  <2> QED
    BY <2>2, <2>3
<1> QED
  BY <1>2, <1>3

LEMMA GiftsAreInt ==
    ASSUME NEW gifts \in SUBSET GiftTransfer, IsFiniteSet(gifts), NEW u
    PROVE  giftsIn(gifts, u) \in Int
<1> DEFINE f == [t \in gifts |-> IF t.to = u THEN t.amount ELSE 0]
           g == [t \in gifts |-> IF t.from = u THEN t.amount ELSE 0]
<1>1. \A t \in gifts : t.amount \in Nat
  <2>1. \A t \in gifts : t.amount \in GiftAmounts
    BY DEF GiftTransfer
  <2>2. GiftAmounts \subseteq Nat
    BY AssetLedgerAssumption
  <2> QED
    BY <2>1, <2>2
<1>2. \A t \in gifts : f[t] \in Int /\ g[t] \in Int
  BY <1>1
<1>3. giftsIn(gifts, u) = SumFunctionOnSet(f, gifts) - SumFunctionOnSet(g, gifts)
  BY DEF giftsIn
<1> HIDE DEF f, g
<1>4. SumFunctionOnSet(f, gifts) \in Int /\ SumFunctionOnSet(g, gifts) \in Int
  BY <1>2, SumIsInt
<1> QED
  BY <1>3, <1>4

\* A new gift.
LEMMA GiftAdded ==
    ASSUME NEW gifts \in SUBSET GiftTransfer, IsFiniteSet(gifts),
           NEW t \in GiftTransfer, t \notin gifts, t.from # t.to, NEW u
    PROVE  giftsIn(gifts \cup {t}, u) =
               giftsIn(gifts, u) + IF u = t.to THEN t.amount
                                   ELSE IF u = t.from THEN 0 - t.amount ELSE 0
<1> DEFINE more == gifts \cup {t}
           f == [x \in gifts |-> IF x.to = u THEN x.amount ELSE 0]
           g == [x \in gifts |-> IF x.from = u THEN x.amount ELSE 0]
           f2 == [x \in more |-> IF x.to = u THEN x.amount ELSE 0]
           g2 == [x \in more |-> IF x.from = u THEN x.amount ELSE 0]
<1>1. \A x \in more : x.amount \in Nat
  <2>1. \A x \in more : x.amount \in GiftAmounts
    BY DEF GiftTransfer
  <2>2. GiftAmounts \subseteq Nat
    BY AssetLedgerAssumption
  <2> QED
    BY <2>1, <2>2
<1>2. /\ \A x \in gifts \cup {t} : f2[x] \in Int /\ g2[x] \in Int
      /\ \A x \in gifts : f2[x] = f[x] /\ g2[x] = g[x] /\ f[x] \in Int /\ g[x] \in Int
  BY <1>1
<1>3. /\ giftsIn(gifts, u) = SumFunctionOnSet(f, gifts) - SumFunctionOnSet(g, gifts)
      /\ giftsIn(more, u) = SumFunctionOnSet(f2, gifts \cup {t}) - SumFunctionOnSet(g2, gifts \cup {t})
  BY DEF giftsIn
<1>4. f2[t] = (IF t.to = u THEN t.amount ELSE 0) /\ g2[t] = (IF t.from = u THEN t.amount ELSE 0)
  OBVIOUS
<1>5. t.amount \in Nat
  BY <1>1
<1> HIDE DEF f, g, f2, g2, more
<1>6. /\ SumFunctionOnSet(f2, gifts \cup {t}) = f2[t] + SumFunctionOnSet(f2, gifts)
      /\ SumFunctionOnSet(g2, gifts \cup {t}) = g2[t] + SumFunctionOnSet(g2, gifts)
  BY <1>2, SumWith
<1>7. /\ SumFunctionOnSet(f2, gifts) = SumFunctionOnSet(f, gifts)
      /\ SumFunctionOnSet(g2, gifts) = SumFunctionOnSet(g, gifts)
  BY <1>2, SumOfEqual
<1>8. SumFunctionOnSet(f, gifts) \in Int /\ SumFunctionOnSet(g, gifts) \in Int
  BY <1>2, SumIsInt
<1>9. giftsIn(more, u) = giftsIn(gifts, u) + f2[t] - g2[t]
  BY <1>3, <1>4, <1>5, <1>6, <1>7, <1>8
<1>10. giftsIn(gifts, u) \in Int
  BY GiftsAreInt
<1>11. giftsIn(more, u) = giftsIn(gifts, u) + (IF u = t.to THEN t.amount
                                   ELSE IF u = t.from THEN 0 - t.amount ELSE 0)
  BY <1>4, <1>5, <1>9, <1>10
<1> QED
  BY <1>11 DEF more

LEMMA WonIsInt ==
    ASSUME NEW rows \in Seq(Position), NEW u
    PROVE  wonIn(rows, u) \in Int
BY SumsAreTotals, TotalIsInt, ValueTypes

(***************************************************************************)
(* The explanation in these terms, before and after a step.                *)
(***************************************************************************)
explained(a, adj, gifts, rows, o, posted) ==
    adj + luck(a, giftsIn(gifts, a[1])) + luck(a, wonIn(rows, a[1])) + boughtOf(a, o, posted)

LEMMA ExplainedIs ==
    /\ BalanceIsExplained <=>
        \A a \in Accounts : balances[a].available =
            explained(a, adjusted[a], giftTransfers, positions, order, keys[a])
    /\ BalanceIsExplained' <=>
        \A a \in Accounts : balances'[a].available =
            explained(a, adjusted'[a], giftTransfers', positions', order', keys'[a])
<1>1. \A u : giftedTo(u) = giftsIn(giftTransfers, u) /\ giftedTo(u)' = giftsIn(giftTransfers', u)
  BY DEF giftedTo, giftsIn
<1>2. \A u : wonBy(u) = wonIn(positions, u) /\ wonBy(u)' = wonIn(positions', u)
  BY DEF wonBy, wonIn
<1>3. \A a : /\ bought(a) = boughtOf(a, order, keys[a])
             /\ bought(a)' = boughtOf(a, order', keys'[a])
  BY BoughtIs
<1> QED
  BY <1>1, <1>2, <1>3 DEF BalanceIsExplained, explained, luck

(***************************************************************************)
(* Locked stakes and paid pools as totals of the positions.                *)
(***************************************************************************)
lockedByRows(b, m, rows) ==
    /\ \A u \in Users : b[Luck(u)].locked = total(lockedValue(u), rows)
    /\ m.status \notin Final => m.pool = total(openValue, rows)

paysPool(m, rows) ==
    m.status = "resolved" =>
        /\ total(paidValue, rows) + m.fee = m.pool
        /\ \A i, j \in DOMAIN rows :
                /\ rows[i].status = "won" /\ rows[j].status = "won"
                /\ rows[i].stake > rows[j].stake
                => rows[i].payout >= rows[j].payout

LEMMA LockedIs ==
    /\ positions \in Seq(Position) =>
        /\ StakesAreLocked <=> lockedByRows(balances, market, positions)
        /\ SettlementPaysPool <=> paysPool(market, positions)
    /\ positions' \in Seq(Position) =>
        /\ StakesAreLocked' <=> lockedByRows(balances', market', positions')
        /\ SettlementPaysPool' <=> paysPool(market', positions')
<1>1. /\ StakesAreLocked <=>
            /\ \A u \in Users : balances[Luck(u)].locked = stakeIn(positions, heldIn(positions, u))
            /\ market.status \notin Final => market.pool = stakeIn(positions, openIn(positions))
      /\ StakesAreLocked' <=>
            /\ \A u \in Users : balances'[Luck(u)].locked = stakeIn(positions', heldIn(positions', u))
            /\ market'.status \notin Final => market'.pool = stakeIn(positions', openIn(positions'))
  BY DEF StakesAreLocked, stakeOf, positionsOf, openPositions, stakeIn, heldIn, openIn, Luck
<1>2. ASSUME NEW rows \in Seq(Position)
      PROVE  /\ \A u : stakeIn(rows, heldIn(rows, u)) = total(lockedValue(u), rows)
             /\ stakeIn(rows, openIn(rows)) = total(openValue, rows)
             /\ paidIn(rows) = total(paidValue, rows)
  BY SumsAreTotals
<1>3. ASSUME positions \in Seq(Position)
      PROVE  /\ StakesAreLocked <=> lockedByRows(balances, market, positions)
             /\ SettlementPaysPool <=> paysPool(market, positions)
  <2>1. paidIn(positions) = total(paidValue, positions)
    BY <1>2, <1>3
  <2> QED
    BY <1>1, <1>2, <1>3, <2>1 DEF lockedByRows, SettlementPaysPool, paysPool, paidIn
<1>4. ASSUME positions' \in Seq(Position)
      PROVE  /\ StakesAreLocked' <=> lockedByRows(balances', market', positions')
             /\ SettlementPaysPool' <=> paysPool(market', positions')
  <2>1. paidIn(positions') = total(paidValue, positions')
    BY <1>2, <1>4
  <2> QED
    BY <1>1, <1>2, <1>4, <2>1 DEF lockedByRows, SettlementPaysPool, paysPool, paidIn
<1> QED
  BY <1>3, <1>4

-----------------------------------------------------------------------------
(***************************************************************************)
(* The steps.  A step keeps the invariant if it keeps the shapes, the      *)
(* locked stakes, the paid pool and the explanation of every balance.      *)
(***************************************************************************)
explainedBy(b, adj, gifts, rows, o, ks) ==
    \A a \in Accounts : b[a].available = explained(a, adj[a], gifts, rows, o, ks[a])

LEMMA InvParts ==
    ASSUME EconomyInv
    PROVE  /\ LedgerShape /\ MarketShape /\ StoreShape
           /\ positions \in Seq(Position)
           /\ lockedByRows(balances, market, positions)
           /\ paysPool(market, positions)
           /\ explainedBy(balances, adjusted, giftTransfers, positions, order, keys)
<1>1. positions \in Seq(Position)
  BY DEF EconomyInv, MarketShape, MarketTypeOK
<1>2. lockedByRows(balances, market, positions) /\ paysPool(market, positions)
  BY <1>1, LockedIs DEF EconomyInv
<1>3. explainedBy(balances, adjusted, giftTransfers, positions, order, keys)
  BY ExplainedIs DEF EconomyInv, explainedBy
<1> QED
  BY <1>1, <1>2, <1>3 DEF EconomyInv

LEMMA InvFromParts ==
    ASSUME LedgerShape', MarketShape', StoreShape',
           lockedByRows(balances', market', positions'),
           paysPool(market', positions'),
           explainedBy(balances', adjusted', giftTransfers', positions', order', keys')
    PROVE  EconomyInv'
<1>1. positions' \in Seq(Position)
  BY DEF MarketShape, MarketTypeOK
<1>2. StakesAreLocked' /\ SettlementPaysPool'
  BY <1>1, LockedIs
<1>3. BalanceIsExplained'
  BY ExplainedIs DEF explainedBy
<1> QED
  BY <1>2, <1>3 DEF EconomyInv

\* No step takes an entry out of the ledger.
LEMMA EntriesStay ==
    ASSUME NEW a, NEW k, findLedgerEntry(a, k),
           keys[a] \subseteq keys'[a], giftTransfers \subseteq giftTransfers'
    PROVE  findLedgerEntry(a, k)'
<1>1. giftKeysOf(a) \subseteq giftKeysOf(a)'
  BY DEF giftKeysOf
<1> QED
  BY <1>1 DEF findLedgerEntry

\* Steps that leave the market and the order alone.
LEMMA LedgerStep ==
    ASSUME EconomyInv, UNCHANGED <<marketVars, storeVars, frozen>>, LedgerShape',
           keys' = keys, giftTransfers \subseteq giftTransfers',
           \A a \in Accounts :
                /\ balances'[a].locked = balances[a].locked
                /\ balances'[a].available = balances[a].available + (adjusted'[a] - adjusted[a])
                        + luck(a, giftsIn(giftTransfers', a[1]) - giftsIn(giftTransfers, a[1]))
    PROVE  EconomyInv'
<1>1. /\ positions' = positions /\ market' = market /\ order' = order /\ frozen' = frozen
      /\ session' = session
  BY DEF marketVars, storeVars
<1>2. MarketShape'
  BY InvParts DEF marketVars, MarketShape, MarketTypeOK
<1>3. StoreShape'
  <2>1. StoreTypeOK'
    BY <1>1, InvParts DEF StoreShape, StoreTypeOK
  <2>2. /\ deliveredOnce' <=> deliveredOnce
        /\ EverReversed' <=> EverReversed
    BY <1>1 DEF deliveredOnce, EverReversed
  <2>3. reversalPosted => reversalPosted'
    BY <1>1, EntriesStay DEF reversalPosted
  <2> QED
    BY <1>1, <2>1, <2>2, <2>3, InvParts DEF StoreShape
<1>4. lockedByRows(balances', market', positions')
  BY <1>1, InvParts, AccountFacts DEF lockedByRows
<1>5. paysPool(market', positions')
  BY <1>1, InvParts
<1>6. explainedBy(balances', adjusted', giftTransfers', positions', order', keys')
  <2> SUFFICES ASSUME NEW a \in Accounts
               PROVE  balances'[a].available =
                        explained(a, adjusted'[a], giftTransfers', positions', order', keys'[a])
    BY DEF explainedBy
  <2>1. boughtOf(a, order', keys'[a]) = boughtOf(a, order, keys[a])
    BY <1>1 DEF boughtOf
  <2>2. PICK g \in Int, h \in Int, w \in Int, b \in Int, m \in Int, n \in Int :
            /\ g = giftsIn(giftTransfers, a[1]) /\ h = giftsIn(giftTransfers', a[1])
            /\ w = wonIn(positions, a[1]) /\ b = boughtOf(a, order, keys[a])
            /\ m = adjusted[a] /\ n = adjusted'[a]
    <3>1. /\ giftsIn(giftTransfers, a[1]) \in Int /\ giftsIn(giftTransfers', a[1]) \in Int
          /\ adjusted[a] \in Int /\ adjusted'[a] \in Int
      BY InvParts, GiftsAreInt DEF LedgerShape, LedgerTypeOK
    <3>2. wonIn(positions, a[1]) \in Int /\ boughtOf(a, order, keys[a]) \in Int
      BY InvParts, WonIsInt, BoughtIsInt
    <3> QED
      BY <3>1, <3>2
  <2>3. balances[a].available = m + luck(a, g) + luck(a, w) + b
    BY <2>2, InvParts DEF explainedBy, explained
  <2>4. balances'[a].available = balances[a].available + (n - m) + luck(a, h - g)
    BY <2>2
  <2>5. explained(a, adjusted'[a], giftTransfers', positions', order', keys'[a])
            = n + luck(a, h) + luck(a, w) + b
    BY <1>1, <2>1, <2>2 DEF explained
  <2> QED
    BY <2>3, <2>4, <2>5 DEF luck
<1> QED
  BY <1>2, <1>3, <1>4, <1>5, <1>6, InvFromParts

LEMMA GrantKeeps ==
    ASSUME EconomyInv, UNCHANGED <<marketVars, storeVars>>, NEW c \in Accounts, NEW n \in Nat,
           grantBonus(c, n) \/ createAdminEconomyAdjustment(c, n)
    PROVE  EconomyInv'
<1>1. LedgerShape /\ balances \in [Accounts -> Balance] /\ adjusted \in [Accounts -> Int]
  BY InvParts DEF LedgerShape, LedgerTypeOK
<1>2. /\ UNCHANGED <<keys, giftTransfers, giftEnergy, frozen>>
      /\ \E row \in Balance, m \in Int :
            /\ balances' = [balances EXCEPT ![c] = row]
            /\ row.locked = balances[c].locked
            /\ row.available = balances[c].available + m
            /\ adjusted' = [adjusted EXCEPT ![c] = adjusted[c] + m]
  <2>1. CASE grantBonus(c, n)
    <3>1. /\ creditAsset(balances[c], n) \in Balance
          /\ creditAsset(balances[c], n).available = balances[c].available + n
          /\ creditAsset(balances[c], n).locked = balances[c].locked
      BY <1>1, CreditedRow
    <3>2. /\ balances' = [balances EXCEPT ![c] = creditAsset(balances[c], n)]
          /\ adjusted' = [adjusted EXCEPT ![c] = adjusted[c] + n]
          /\ UNCHANGED <<keys, giftTransfers, giftEnergy, frozen>>
      BY <2>1 DEF grantBonus
    <3>3. PICK row \in Balance, m \in Int : row = creditAsset(balances[c], n) /\ m = n
      BY <3>1
    <3> QED
      BY <3>1, <3>2, <3>3
  <2>2. CASE createAdminEconomyAdjustment(c, n)
    <3>1. /\ balances' = [balances EXCEPT ![c] = debitAsset(balances[c], n)]
          /\ adjusted' = [adjusted EXCEPT ![c] = adjusted[c] - n]
          /\ UNCHANGED <<keys, giftTransfers, giftEnergy, frozen>>
          /\ canDebit(balances[c], n)
      BY <2>2 DEF createAdminEconomyAdjustment
    <3>2. /\ debitAsset(balances[c], n) \in Balance
          /\ debitAsset(balances[c], n).available = balances[c].available - n
          /\ debitAsset(balances[c], n).locked = balances[c].locked
      BY <1>1, <3>1, DebitedRow
    <3>3. PICK m \in Int : m = 0 - n
      OBVIOUS
    <3>4. balances[c].available - n = balances[c].available + m /\ adjusted[c] - n = adjusted[c] + m
      BY <1>1, <3>3, BalanceAt
    <3> QED
      BY <3>1, <3>2, <3>3, <3>4
  <2> QED
    BY <2>1, <2>2
<1>3. PICK row \in Balance, m \in Int :
            /\ balances' = [balances EXCEPT ![c] = row]
            /\ row.locked = balances[c].locked
            /\ row.available = balances[c].available + m
            /\ adjusted' = [adjusted EXCEPT ![c] = adjusted[c] + m]
  BY <1>2
<1>4. balances' \in [Accounts -> Balance] /\ adjusted' \in [Accounts -> Int]
  BY <1>1, <1>3
<1>5. LedgerShape'
  BY <1>1, <1>2, <1>4 DEF LedgerShape, LedgerTypeOK
<1>6. ASSUME NEW a \in Accounts
      PROVE  /\ balances'[a].locked = balances[a].locked
             /\ balances'[a].available = balances[a].available + (adjusted'[a] - adjusted[a])
                   + luck(a, giftsIn(giftTransfers', a[1]) - giftsIn(giftTransfers, a[1]))
  <2>1. giftTransfers' = giftTransfers /\ keys' = keys
    BY <1>2
  <2>2. PICK g \in Int : g = giftsIn(giftTransfers, a[1])
    BY <1>1, GiftsAreInt DEF LedgerTypeOK, LedgerShape
  <2>3. luck(a, g - g) = 0
    BY DEF luck
  <2>4. /\ balances'[a].locked = balances[a].locked
        /\ balances'[a].available = balances[a].available + (adjusted'[a] - adjusted[a])
    <3>1. CASE a = c
      BY <1>1, <1>3, <3>1, BalanceAt
    <3>2. CASE a # c
      BY <1>1, <1>3, <3>2, BalanceAt
    <3> QED
      BY <3>1, <3>2
  <2>5. PICK v \in Int : v = balances[a].available + (adjusted'[a] - adjusted[a])
    BY <1>1, <1>4, BalanceAt
  <2>6. balances'[a].available = v + luck(a, g - g)
    BY <2>3, <2>4, <2>5
  <2> QED
    BY <2>1, <2>2, <2>4, <2>5, <2>6
<1> QED
  BY <1>2, <1>5, <1>6, LedgerStep

LEMMA RefillKeeps ==
    ASSUME EconomyInv, UNCHANGED <<marketVars, storeVars>>, applyGiftEnergyRefill
    PROVE  EconomyInv'
<1>1. LedgerShape /\ UNCHANGED <<balances, keys, giftTransfers, frozen, adjusted>>
  BY InvParts DEF applyGiftEnergyRefill
<1>2. LedgerShape'
  <2>1. giftEnergy' \in [Users -> 0..MaxGiftEnergy]
    BY AssetLedgerAssumption DEF applyGiftEnergyRefill
  <2> QED
    BY <1>1, <2>1 DEF LedgerShape, LedgerTypeOK
<1>3. ASSUME NEW a \in Accounts
      PROVE  balances'[a].available = balances[a].available + (adjusted'[a] - adjusted[a])
                   + luck(a, giftsIn(giftTransfers', a[1]) - giftsIn(giftTransfers, a[1]))
  <2>1. PICK g \in Int : g = giftsIn(giftTransfers, a[1])
    BY <1>1, GiftsAreInt DEF LedgerTypeOK, LedgerShape
  <2>2. luck(a, g - g) = 0
    BY DEF luck
  <2>3. balances[a].available + (adjusted[a] - adjusted[a]) + luck(a, g - g) = balances[a].available
    BY <1>1, <2>2, BalanceAt
  <2> QED
    BY <1>1, <2>1, <2>3
<1> QED
  BY <1>1, <1>2, <1>3, LedgerStep

LEMMA GiftKeeps ==
    ASSUME EconomyInv, UNCHANGED <<marketVars, storeVars>>, NEW key \in GiftKeys,
           NEW from \in Users, NEW to \in Users, NEW n \in GiftAmounts,
           transferAssetGift(key, from, to, n)
    PROVE  EconomyInv'
<1> DEFINE t == [key |-> key, from |-> from, to |-> to, amount |-> n]
<1>1. /\ LedgerShape /\ balances \in [Accounts -> Balance] /\ adjusted \in [Accounts -> Int]
      /\ keys \in [Accounts -> SUBSET StoreKeys]
      /\ giftTransfers \in SUBSET GiftTransfer /\ IsFiniteSet(giftTransfers)
      /\ giftEnergy \in [Users -> 0..MaxGiftEnergy]
  BY InvParts DEF LedgerShape, LedgerTypeOK
<1>2. n \in Nat
  BY AssetLedgerAssumption
<1>3. /\ from # to /\ ~existingTransfer(key) /\ giftEnergy[from] >= 1
      /\ canDebit(balances[Luck(from)], n)
      /\ giftEnergy' = [giftEnergy EXCEPT ![from] = giftEnergy[from] - 1]
      /\ giftTransfers' = giftTransfers \cup {t}
      /\ UNCHANGED <<keys, frozen, adjusted>>
  BY DEF transferAssetGift
<1>4. PICK source \in Accounts, target \in Accounts :
        /\ source = Luck(from) /\ target = Luck(to) /\ source # target
        /\ source[1] = from /\ target[1] = to /\ source[2] = "B_LUCK" /\ target[2] = "B_LUCK"
        /\ \A a \in Accounts : a[2] = "B_LUCK" => (a = source <=> a[1] = from) /\ (a = target <=> a[1] = to)
  BY <1>3, AccountFacts
<1>5. /\ balances' = [balances EXCEPT ![source] = debitAsset(balances[source], n),
                                      ![target] = creditAsset(balances[target], n)]
  BY <1>1, <1>4 DEF transferAssetGift
<1>6. /\ debitAsset(balances[source], n) \in Balance
      /\ debitAsset(balances[source], n).available = balances[source].available - n
      /\ debitAsset(balances[source], n).locked = balances[source].locked
      /\ creditAsset(balances[target], n) \in Balance
      /\ creditAsset(balances[target], n).available = balances[target].available + n
      /\ creditAsset(balances[target], n).locked = balances[target].locked
  BY <1>1, <1>2, <1>3, <1>4, DebitedRow, CreditedRow
<1>7. PICK sent \in Balance, received \in Balance :
        sent = debitAsset(balances[source], n) /\ received = creditAsset(balances[target], n)
  BY <1>6
<1>8. t \in GiftTransfer /\ t \notin giftTransfers /\ t.from = from /\ t.to = to /\ t.amount = n /\ t.key = key
  BY <1>3 DEF GiftTransfer, existingTransfer
<1>9. LedgerShape'
  <2>1. balances' \in [Accounts -> Balance]
    BY <1>1, <1>4, <1>5, <1>7
  <2>2. keys' \in [Accounts -> SUBSET StoreKeys]
    BY <1>1, <1>3
  <2>3. giftTransfers' \in SUBSET GiftTransfer /\ IsFiniteSet(giftTransfers')
    BY <1>1, <1>3, <1>8, FS_AddElement
  <2>4. giftEnergy' \in [Users -> 0..MaxGiftEnergy]
    <3>1. giftEnergy[from] - 1 \in 0..MaxGiftEnergy
      BY <1>1, <1>3, AssetLedgerAssumption
    <3> QED
      BY <1>1, <1>3, <3>1
  <2>5. \A x \in giftTransfers' : x.from # x.to
    BY <1>1, <1>3, <1>8 DEF LedgerShape, LedgerTypeOK
  <2>6. frozen' \subseteq Users /\ adjusted' \in [Accounts -> Int]
    BY <1>1, <1>3 DEF LedgerShape, LedgerTypeOK
  <2> QED
    BY <2>1, <2>2, <2>3, <2>4, <2>5, <2>6 DEF LedgerShape, LedgerTypeOK
<1>10. ASSUME NEW a \in Accounts
       PROVE  /\ balances'[a].locked = balances[a].locked
              /\ balances'[a].available = balances[a].available + (adjusted'[a] - adjusted[a])
                    + luck(a, giftsIn(giftTransfers', a[1]) - giftsIn(giftTransfers, a[1]))
  <2>3. balances'[a] = IF a = source THEN sent ELSE IF a = target THEN received ELSE balances[a]
    BY <1>1, <1>4, <1>5, <1>7
  <2>4. PICK g \in Int, h \in Int, m \in Int, v \in Nat :
            /\ g = giftsIn(giftTransfers, a[1]) /\ h = giftsIn(giftTransfers', a[1])
            /\ m = adjusted[a] /\ v = balances[a].available
    <3>1. IsFiniteSet(giftTransfers') /\ giftTransfers' \in SUBSET GiftTransfer
      BY <1>9 DEF LedgerShape, LedgerTypeOK
    <3>2. /\ giftsIn(giftTransfers, a[1]) \in Int /\ giftsIn(giftTransfers', a[1]) \in Int
      BY <1>1, <3>1, GiftsAreInt
    <3> QED
      BY <1>1, <3>2, BalanceAt
  <2>5. h = g + IF a[1] = to THEN n ELSE IF a[1] = from THEN 0 - n ELSE 0
    <3> HIDE DEF t
    <3>1. giftsIn(giftTransfers \cup {t}, a[1]) =
             giftsIn(giftTransfers, a[1]) + IF a[1] = t.to THEN t.amount
                                   ELSE IF a[1] = t.from THEN 0 - t.amount ELSE 0
      BY <1>1, <1>3, <1>8, GiftAdded
    <3> QED
      BY <1>3, <1>8, <2>4, <3>1
  <2>6. balances'[a].available = v + (IF a = source THEN 0 - n ELSE IF a = target THEN n ELSE 0)
    BY <1>2, <1>6, <1>7, <2>3, <2>4
  <2>7. balances'[a].available = v + (m - m) + luck(a, h - g)
    BY <1>2, <1>3, <1>4, <2>5, <2>6 DEF luck
  <2>8. balances'[a].locked = balances[a].locked
    BY <1>6, <1>7, <2>3
  <2> QED
    BY <1>3, <2>4, <2>7, <2>8
<1> QED
  BY <1>3, <1>9, <1>10, LedgerStep

LEMMA LedgerKeeps ==
    ASSUME EconomyInv, LedgerNext, UNCHANGED <<marketVars, storeVars>>
    PROVE  EconomyInv'
<1>1. GiftAmounts \subseteq Nat
  BY AssetLedgerAssumption
<1>2. CASE \E a \in Accounts, n \in GiftAmounts : grantBonus(a, n)
  BY <1>1, <1>2, GrantKeeps
<1>3. CASE \E a \in Accounts, n \in GiftAmounts : createAdminEconomyAdjustment(a, n)
  BY <1>1, <1>3, GrantKeeps
<1>4. CASE \E key \in GiftKeys, from, to \in Users, n \in GiftAmounts :
                transferAssetGift(key, from, to, n)
  BY <1>4, GiftKeeps
<1>5. CASE applyGiftEnergyRefill
  BY <1>5, RefillKeeps
<1> QED
  BY <1>2, <1>3, <1>4, <1>5 DEF LedgerNext

-----------------------------------------------------------------------------
(* Steps of the market *)

\* Steps that move stakes and payouts between balances and positions.
LEMMA MarketStep ==
    ASSUME EconomyInv, UNCHANGED storeVars, balances' \in [Accounts -> Balance],
           UNCHANGED <<keys, giftTransfers, giftEnergy, frozen, adjusted>>,
           MarketShape', lockedByRows(balances', market', positions'), paysPool(market', positions'),
           \A a \in Accounts : balances'[a].available = balances[a].available
                + luck(a, total(wonValue(a[1]), positions') - total(wonValue(a[1]), positions))
    PROVE  EconomyInv'
<1>1. LedgerShape'
  BY InvParts DEF LedgerShape, LedgerTypeOK
<1>2. StoreShape'
  <2>1. reversalPosted' <=> reversalPosted
    BY DEF reversalPosted, findLedgerEntry, giftKeysOf, storeVars
  <2> QED
    BY <2>1, InvParts DEF StoreShape, StoreTypeOK, EverReversed, deliveredOnce, storeVars
<1>3. explainedBy(balances', adjusted', giftTransfers', positions', order', keys')
  <2> SUFFICES ASSUME NEW a \in Accounts
               PROVE  balances'[a].available =
                        explained(a, adjusted'[a], giftTransfers', positions', order', keys'[a])
    BY DEF explainedBy
  <2>1. positions \in Seq(Position) /\ positions' \in Seq(Position)
    BY InvParts DEF MarketShape, MarketTypeOK
  <2>2. PICK g \in Int, w \in Int, x \in Int, b \in Int, m \in Int :
            /\ g = giftsIn(giftTransfers, a[1])
            /\ w = wonIn(positions, a[1]) /\ x = wonIn(positions', a[1])
            /\ b = boughtOf(a, order, keys[a]) /\ m = adjusted[a]
    <3>1. giftsIn(giftTransfers, a[1]) \in Int /\ adjusted[a] \in Int
      BY InvParts, GiftsAreInt DEF LedgerShape, LedgerTypeOK
    <3>2. /\ wonIn(positions, a[1]) \in Int /\ wonIn(positions', a[1]) \in Int
          /\ boughtOf(a, order, keys[a]) \in Int
      BY <2>1, WonIsInt, BoughtIsInt
    <3> QED
      BY <3>1, <3>2
  <2>3. w = total(wonValue(a[1]), positions) /\ x = total(wonValue(a[1]), positions')
    BY <2>1, <2>2, SumsAreTotals
  <2>4. balances[a].available = m + luck(a, g) + luck(a, w) + b
    BY <2>2, InvParts DEF explainedBy, explained
  <2>5. balances'[a].available = balances[a].available + luck(a, x - w)
    BY <2>3
  <2>6. explained(a, adjusted'[a], giftTransfers', positions', order', keys'[a])
            = m + luck(a, g) + luck(a, x) + b
    BY <2>2 DEF explained, storeVars
  <2> QED
    BY <2>4, <2>5, <2>6 DEF luck
<1> QED
  BY <1>1, <1>2, <1>3, InvFromParts

\* Steps that leave balances and positions alone.
LEMMA QuietStep ==
    ASSUME EconomyInv, UNCHANGED <<ledgerVars, storeVars, positions>>, MarketShape',
           \/ market' = market
           \/ market.status = "none" /\ market'.status \notin Final /\ market'.pool = market.pool
    PROVE  EconomyInv'
<1>1. balances' = balances /\ balances \in [Accounts -> Balance] /\ positions' = positions
  BY InvParts DEF LedgerShape, LedgerTypeOK, ledgerVars
<1>2. /\ UNCHANGED storeVars
      /\ UNCHANGED <<keys, giftTransfers, giftEnergy, frozen, adjusted>>
  BY DEF ledgerVars
<1>3. lockedByRows(balances', market', positions') /\ paysPool(market', positions')
  BY <1>1, InvParts DEF lockedByRows, paysPool, Final
<1>4. ASSUME NEW a \in Accounts
      PROVE  balances'[a].available = balances[a].available
                + luck(a, total(wonValue(a[1]), positions') - total(wonValue(a[1]), positions))
  <2>1. PICK w \in Int : w = total(wonValue(a[1]), positions)
    BY InvParts, ValueTypes, TotalIsInt
  <2>2. balances[a].available + luck(a, w - w) = balances[a].available
    BY InvParts, BalanceAt DEF luck
  <2> QED
    BY <1>1, <2>1, <2>2
<1> QED
  BY <1>1, <1>2, <1>3, <1>4, MarketStep

MarketRow ==
    [status : {"none", "draft", "open"} \cup Final, manual : BOOLEAN,
     pool : Nat, vig : Vigs \cup {0}, fee : Nat]

withStatus(m, s) == [m EXCEPT !.status = s]
withManual(m, b) == [m EXCEPT !.manual = b]
withPool(m, n) == [m EXCEPT !.pool = n]
withVig(m, n) == [m EXCEPT !.vig = n]
withFee(m, n) == [m EXCEPT !.fee = n]

LEMMA MarketChanged ==
    ASSUME NEW m \in MarketRow
    PROVE  /\ \A s \in {"none", "draft", "open"} \cup Final :
                /\ withStatus(m, s) \in MarketRow /\ withStatus(m, s).status = s
                /\ withStatus(m, s).pool = m.pool
           /\ \A b \in BOOLEAN :
                /\ withManual(m, b) \in MarketRow /\ withManual(m, b).status = m.status
                /\ withManual(m, b).pool = m.pool
           /\ \A n \in Nat :
                /\ withPool(m, n) \in MarketRow /\ withPool(m, n).status = m.status
                /\ withPool(m, n).pool = n
                /\ withFee(m, n) \in MarketRow /\ withFee(m, n).status = m.status
                /\ withFee(m, n).pool = m.pool /\ withFee(m, n).fee = n
           /\ \A n \in Vigs :
                /\ withVig(m, n) \in MarketRow /\ withVig(m, n).status = m.status
                /\ withVig(m, n).pool = m.pool
BY DEF MarketRow, withStatus, withManual, withPool, withVig, withFee

LEMMA CreateKeeps ==
    ASSUME EconomyInv, UNCHANGED storeVars, NEW manual \in BOOLEAN, NEW vig \in Vigs,
           createPredictionMarket(manual, vig)
    PROVE  EconomyInv'
<1>1. MarketShape /\ MarketTypeOK /\ market \in MarketRow
  BY InvParts DEF MarketShape, MarketTypeOK, MarketRow
<1>2. market.status = "none" /\ clock \in {1, 2} /\ positions = <<>>
  BY <1>1 DEF createPredictionMarket, MarketShape
<1>3. PICK s \in {"draft", "open"} : s = Moments[clock]
  BY <1>2 DEF Moments
<1>4. PICK m \in MarketRow, n \in MarketRow, o \in MarketRow :
        /\ m = withStatus(market, s) /\ n = withManual(m, manual) /\ o = withVig(n, vig)
        /\ o.status = s /\ o.pool = market.pool
  <2>1. /\ withStatus(market, s) \in MarketRow /\ withStatus(market, s).status = s
        /\ withStatus(market, s).pool = market.pool
    BY <1>1, <1>3, MarketChanged
  <2>2. PICK m \in MarketRow : m = withStatus(market, s)
    BY <2>1
  <2>3. /\ withManual(m, manual) \in MarketRow /\ withManual(m, manual).status = s
        /\ withManual(m, manual).pool = market.pool
    BY <2>1, <2>2, MarketChanged
  <2>4. PICK n \in MarketRow : n = withManual(m, manual)
    BY <2>3
  <2>5. withVig(n, vig) \in MarketRow /\ withVig(n, vig).status = s /\ withVig(n, vig).pool = market.pool
    BY <2>3, <2>4, MarketChanged
  <2> QED
    BY <2>2, <2>4, <2>5
<1>5. market' = o
  <2>1. market' = [market EXCEPT !.status = s, !.manual = manual, !.vig = vig]
    BY <1>3 DEF createPredictionMarket
  <2> QED
    BY <1>4, <2>1, Zenon DEF withStatus, withManual, withVig
<1>6. /\ UNCHANGED <<ledgerVars, positions, clock, appeals, oracle, ack>>
      /\ binding' \in {"manual_only", "active"}
  BY DEF createPredictionMarket
<1>7. MarketShape'
  <2>1. MarketTypeOK'
    BY <1>1, <1>4, <1>5, <1>6 DEF MarketTypeOK, MarketRow
  <2> QED
    BY <1>2, <1>3, <1>4, <1>5, <1>6, <2>1 DEF MarketShape
<1>8. market'.status \notin Final /\ market'.pool = market.pool
  BY <1>3, <1>4, <1>5 DEF Final
<1> QED
  BY <1>2, <1>6, <1>7, <1>8, QuietStep

\* Appeals and the oracle workers' cycles, other than a settlement.
oracleQuietStep(k) ==
    \/ selectDueMarket(k)
    \/ applyOracleEvaluationStatus(k)
    \/ \E r \in Reasons : evaluationAppeals(k, r)
    \/ \E o \in Outcomes : evaluationResolves(k, o)
    \/ workerSettlementFails(k)
    \/ workerStops(k)

LEMMA OracleKeeps ==
    ASSUME EconomyInv, UNCHANGED storeVars,
           \/ timePasses
           \/ \E r \in Reasons : acknowledgeReads(r)
           \/ acknowledgePredictionMarketAppeal
           \/ \E k \in Workers : oracleQuietStep(k)
    PROVE  EconomyInv'
<1>1. MarketShape /\ MarketTypeOK
  BY InvParts DEF MarketShape
<1>2. UNCHANGED <<ledgerVars, positions, market>> /\ market' = market
  BY DEF timePasses, acknowledgeReads, acknowledgePredictionMarketAppeal, oracleQuietStep,
         selectDueMarket, applyOracleEvaluationStatus, evaluationAppeals, evaluationResolves,
         workerSettlementFails, workerStops
<1>3. /\ clock' \in DOMAIN Moments
      /\ binding' \in {"none", "manual_only", "active", "pending", "appealed"} \cup Final
      /\ appeals' \in [Reasons -> {"none", "open", "acknowledged", "resolved"}]
      /\ oracle' \in [Workers -> [phase : {"idle", "polling", "settling"},
                                  outcome : Outcomes \cup {"none"}]]
      /\ ack' \in Reasons \cup {NoReason}
      /\ market.status = "none" => clock' = clock
  <2>1. CASE timePasses
    <3>1. clock + 1 \in DOMAIN Moments
      BY <1>1, <2>1 DEF timePasses, MarketTypeOK, Moments
    <3> QED
      BY <1>1, <2>1, <3>1 DEF timePasses, MarketTypeOK
  <2>2. CASE \E r \in Reasons : acknowledgeReads(r)
    BY <1>1, <2>2 DEF acknowledgeReads, MarketTypeOK
  <2>3. CASE acknowledgePredictionMarketAppeal
    BY <1>1, <2>3 DEF acknowledgePredictionMarketAppeal, MarketTypeOK
  <2>4. CASE \E k \in Workers : oracleQuietStep(k)
    <3>1. PICK k \in Workers : oracleQuietStep(k)
      BY <2>4
    <3>2. /\ Resting \in [phase : {"idle", "polling", "settling"}, outcome : Outcomes \cup {"none"}]
          /\ \A o \in Outcomes : [phase |-> "settling", outcome |-> o]
                \in [phase : {"idle", "polling", "settling"}, outcome : Outcomes \cup {"none"}]
          /\ \A x \in [phase : {"idle", "polling", "settling"}, outcome : Outcomes \cup {"none"}] :
                [x EXCEPT !.phase = "polling"]
                    \in [phase : {"idle", "polling", "settling"}, outcome : Outcomes \cup {"none"}]
      BY DEF Resting
    <3>3. clock' = clock /\ ack' = ack
      BY <3>1 DEF oracleQuietStep, selectDueMarket, applyOracleEvaluationStatus, evaluationAppeals,
                  evaluationResolves, workerSettlementFails, workerStops
    <3>4. binding' \in {binding, "pending", "appealed"}
      BY <3>1 DEF oracleQuietStep, selectDueMarket, applyOracleEvaluationStatus, evaluationAppeals,
                  evaluationResolves, workerSettlementFails, workerStops
    <3>5. appeals' = appeals \/ \E r \in Reasons : appeals' = [appeals EXCEPT ![r] = "open"]
      <4>1. "oracle_fetch_failed" \in Reasons
        BY PredictionMarketsAssumption
      <4> QED
        BY <3>1, <4>1 DEF oracleQuietStep, selectDueMarket, applyOracleEvaluationStatus,
                  evaluationAppeals, evaluationResolves, workerSettlementFails, workerStops,
                  queuePredictionMarketAppeal
    <3>6. \/ oracle' = [oracle EXCEPT ![k] = Resting]
          \/ oracle' = [oracle EXCEPT ![k] = [oracle[k] EXCEPT !.phase = "polling"]]
          \/ \E o \in Outcomes : oracle' = [oracle EXCEPT ![k] = [phase |-> "settling", outcome |-> o]]
      BY <3>1, Zenon DEF oracleQuietStep, selectDueMarket, applyOracleEvaluationStatus,
                  evaluationAppeals, evaluationResolves, workerSettlementFails, workerStops
    <3>7. oracle' \in [Workers -> [phase : {"idle", "polling", "settling"},
                                  outcome : Outcomes \cup {"none"}]]
      <4>1. \E x \in [phase : {"idle", "polling", "settling"}, outcome : Outcomes \cup {"none"}] :
                oracle' = [oracle EXCEPT ![k] = x]
        <5>1. oracle[k] \in [phase : {"idle", "polling", "settling"}, outcome : Outcomes \cup {"none"}]
          BY <1>1, <3>1 DEF MarketTypeOK
        <5> QED
          BY <3>2, <3>6, <5>1, Zenon
      <4> QED
        BY <1>1, <3>1, <4>1 DEF MarketTypeOK
    <3> QED
      BY <1>1, <3>3, <3>4, <3>5, <3>7 DEF MarketTypeOK
  <2> QED
    BY <2>1, <2>2, <2>3, <2>4
<1>4. MarketShape'
  BY <1>1, <1>2, <1>3 DEF MarketShape, MarketTypeOK
<1> QED
  BY <1>2, <1>4, QuietStep

\* An effective status that is not final is the stored one's.
LEMMA EffectiveStatus ==
    ASSUME MarketShape,
           \/ market.status # "none" /\ getEffectivePredictionMarketStatus = "open"
           \/ getEffectivePredictionMarketStatus = "locked"
           \/ market.status \notin Final \cup {"none"}
    PROVE  /\ market.status \in {"draft", "open"}
           /\ market.status \notin Final
           /\ market \in MarketRow
           /\ getEffectivePredictionMarketStatus = "open" => clock = 2
<1>1. market \in MarketRow /\ clock \in DOMAIN Moments /\ (market.status = "none" => clock \in {1, 2})
  BY DEF MarketShape, MarketTypeOK, MarketRow
<1>2. market.status \in {"none", "draft", "open"} \cup Final /\ clock \in 1..4
  BY <1>1 DEF MarketRow, Moments
<1>3. Moments[1] = "draft" /\ Moments[2] = "open" /\ Moments[3] = "locked" /\ Moments[4] = "due"
  BY DEF Moments
<1> QED
  BY <1>1, <1>2, <1>3 DEF getEffectivePredictionMarketStatus, Final

LEMMA PlaceKeeps ==
    ASSUME EconomyInv, UNCHANGED storeVars, NEW u \in Users, NEW o \in Outcomes, NEW n \in Stakes,
           placePredictionPosition(u, o, n)
    PROVE  EconomyInv'
<1> DEFINE r == [user |-> u, outcome |-> o, stake |-> n, status |-> "open", payout |-> 0]
<1>1. /\ MarketShape /\ MarketTypeOK /\ LedgerShape
      /\ balances \in [Accounts -> Balance] /\ positions \in Seq(Position)
  BY InvParts DEF MarketShape, LedgerShape, LedgerTypeOK
<1>2. /\ market.status \in {"draft", "open"} /\ market.status \notin Final
      /\ market \in MarketRow
  BY <1>1, EffectiveStatus DEF placePredictionPosition
<1>3. n \in Nat
  BY PredictionMarketsAssumption
<1>4. PICK c \in Accounts :
        /\ c = Luck(u) /\ c[1] = u /\ c[2] = "B_LUCK"
        /\ \A a \in Accounts : a[2] = "B_LUCK" => (a = c <=> a[1] = u)
        /\ \A v \in Users : Luck(v) \in Accounts /\ (Luck(v) = c <=> v = u)
  BY AccountFacts
<1>5. /\ UNCHANGED <<keys, giftTransfers, giftEnergy, frozen, adjusted>>
      /\ UNCHANGED <<clock, binding, appeals, oracle, ack>>
      /\ positions' = Append(positions, r)
      /\ canDebit(balances[c], n)
      /\ balances' = [balances EXCEPT ![c] = lockAsset(balances[c], n)]
      /\ market' = withPool(market, market.pool + n)
  BY <1>4 DEF placePredictionPosition, withPool
<1>6. PICK row \in Balance :
        /\ balances' = [balances EXCEPT ![c] = row]
        /\ row.available = balances[c].available - n
        /\ row.locked = balances[c].locked + n
  BY <1>1, <1>3, <1>5, DebitedRow
<1>7. balances' \in [Accounts -> Balance]
  BY <1>1, <1>6
<1>8. /\ r \in Position /\ r.user = u /\ r.stake = n /\ r.status = "open" /\ r.payout = 0
      /\ \A v : lockedValue(v)[r] = (IF v = u THEN n ELSE 0)
      /\ openValue[r] = n
      /\ \A v : wonValue(v)[r] = (IF v = u THEN 0 - n ELSE 0)
  <2>1. r \in Position
    BY DEF Position
  <2> QED
    BY <2>1 DEF lockedValue, openValue, wonValue
<1> HIDE DEF r
<1>9. PICK now \in Seq(Position) : now = positions' /\ now = Append(positions, r)
  <2>1. Append(positions, r) \in Seq(Position)
    BY <1>1, <1>8
  <2> QED
    BY <1>5, <2>1
<1>10. /\ \A v : total(lockedValue(v), now) = total(lockedValue(v), positions) + lockedValue(v)[r]
       /\ \A v : total(wonValue(v), now) = total(wonValue(v), positions) + wonValue(v)[r]
       /\ total(openValue, now) = total(openValue, positions) + openValue[r]
  BY <1>1, <1>8, <1>9, TotalAppend, ValueTypes
<1>11. market' \in MarketRow /\ market'.status = market.status /\ market'.pool = market.pool + n
  <2>1. PICK p \in Nat : p = market.pool + n
    BY <1>2, <1>3 DEF MarketRow
  <2> QED
    BY <1>2, <1>5, <2>1, MarketChanged
<1>12. MarketShape'
  <2>1. MarketTypeOK'
    BY <1>1, <1>5, <1>9, <1>11 DEF MarketTypeOK, MarketRow
  <2>2. ASSUME NEW i \in DOMAIN now
        PROVE  now[i].status \in {"open", "sold"} /\ (now[i].status = "open" => now[i].payout = 0)
    <3>1. CASE i \in DOMAIN positions
      <4>1. now[i] = positions[i]
        BY <1>1, <1>8, <1>9, <3>1
      <4> QED
        BY <1>1, <1>2, <3>1, <4>1 DEF MarketShape
    <3>2. CASE i \notin DOMAIN positions
      <4>1. now[i] = r
        BY <1>1, <1>8, <1>9, <3>2
      <4> QED
        BY <1>8, <4>1
    <3> QED
      BY <3>1, <3>2
  <2> QED
    BY <1>2, <1>9, <1>11, <2>1, <2>2 DEF MarketShape
<1>13. lockedByRows(balances', market', positions')
  <2>1. ASSUME NEW v \in Users
        PROVE  balances'[Luck(v)].locked = total(lockedValue(v), now)
    <3>1. balances[Luck(v)].locked = total(lockedValue(v), positions)
      BY InvParts DEF lockedByRows
    <3>2. balances[Luck(v)].locked \in Nat
      BY <1>1, <1>4, BalanceAt
    <3>3. balances'[Luck(v)].locked = balances[Luck(v)].locked + (IF v = u THEN n ELSE 0)
      <4>1. CASE v = u
        BY <1>1, <1>4, <1>6, <4>1
      <4>2. CASE v # u
        BY <1>1, <1>4, <1>6, <3>2, <4>2
      <4> QED
        BY <4>1, <4>2
    <3> QED
      BY <1>8, <1>10, <3>1, <3>3
  <2>2. market'.pool = total(openValue, now)
    BY <1>2, <1>8, <1>10, <1>11, InvParts DEF lockedByRows
  <2> QED
    BY <1>9, <2>1, <2>2 DEF lockedByRows
<1>14. paysPool(market', positions')
  BY <1>2, <1>11 DEF paysPool, Final
<1>15. ASSUME NEW a \in Accounts
       PROVE  balances'[a].available = balances[a].available
                + luck(a, total(wonValue(a[1]), positions') - total(wonValue(a[1]), positions))
  <2>1. PICK w \in Int, x \in Int, v \in Nat :
            /\ w = total(wonValue(a[1]), positions) /\ x = total(wonValue(a[1]), now)
            /\ v = balances[a].available
    BY <1>1, <1>9, BalanceAt, TotalIsInt, ValueTypes
  <2>2. x = w + IF a[1] = u THEN 0 - n ELSE 0
    BY <1>8, <1>10, <2>1
  <2>3. balances'[a].available = v + IF a = c THEN 0 - n ELSE 0
    <3>1. CASE a = c
      BY <1>1, <1>3, <1>6, <2>1, <3>1
    <3>2. CASE a # c
      BY <1>1, <1>6, <2>1, <3>2
    <3> QED
      BY <3>1, <3>2
  <2>4. balances'[a].available = v + luck(a, x - w)
    BY <1>3, <1>4, <2>2, <2>3 DEF luck
  <2> QED
    BY <1>9, <2>1, <2>4
<1> QED
  BY <1>5, <1>7, <1>12, <1>13, <1>14, <1>15, MarketStep

rowStatus(rows, i, s) == [rows EXCEPT ![i].status = s]
rowPayout(rows, i, n) == [rows EXCEPT ![i].payout = n]

LEMMA RowChanged ==
    ASSUME NEW rows \in Seq(Position), NEW i \in DOMAIN rows,
           NEW s \in {"open", "sold", "won", "lost", "refunded"}, NEW n \in Nat
    PROVE  /\ rowStatus(rows, i, s) \in Seq(Position)
           /\ Len(rowStatus(rows, i, s)) = Len(rows)
           /\ \A j \in DOMAIN rows : j # i => rowStatus(rows, i, s)[j] = rows[j]
           /\ rowStatus(rows, i, s)[i].status = s
           /\ rowStatus(rows, i, s)[i].user = rows[i].user
           /\ rowStatus(rows, i, s)[i].stake = rows[i].stake
           /\ rowPayout(rows, i, n) \in Seq(Position)
           /\ Len(rowPayout(rows, i, n)) = Len(rows)
           /\ \A j \in DOMAIN rows : j # i => rowPayout(rows, i, n)[j] = rows[j]
           /\ rowPayout(rows, i, n)[i].payout = n
           /\ rowPayout(rows, i, n)[i].user = rows[i].user
           /\ rowPayout(rows, i, n)[i].stake = rows[i].stake
           /\ rowPayout(rows, i, n)[i].status = rows[i].status
<1> DEFINE p == [rows[i] EXCEPT !.status = s]
           q == [rows[i] EXCEPT !.payout = n]
<1>1. rows[i] \in Position
  OBVIOUS
<1>2. /\ p \in Position /\ p.status = s /\ p.user = rows[i].user /\ p.stake = rows[i].stake
      /\ q \in Position /\ q.payout = n /\ q.user = rows[i].user /\ q.stake = rows[i].stake
      /\ q.status = rows[i].status
  BY <1>1 DEF Position
<1>3. rowStatus(rows, i, s) = [rows EXCEPT ![i] = p] /\ rowPayout(rows, i, n) = [rows EXCEPT ![i] = q]
  BY DEF rowStatus, rowPayout
<1> HIDE DEF p, q
<1> QED
  BY <1>2, <1>3

LEMMA SellKeeps ==
    ASSUME EconomyInv, UNCHANGED storeVars, NEW i \in DOMAIN positions, sellPredictionPosition(i)
    PROVE  EconomyInv'
<1>1. /\ MarketShape /\ MarketTypeOK /\ LedgerShape
      /\ balances \in [Accounts -> Balance] /\ positions \in Seq(Position)
  BY InvParts DEF MarketShape, LedgerShape, LedgerTypeOK
<1>2. /\ market.status \in {"draft", "open"} /\ market.status \notin Final
      /\ market \in MarketRow
  <2>1. market.status # "none"
    BY <1>1 DEF MarketShape
  <2> QED
    BY <1>1, <2>1, EffectiveStatus DEF sellPredictionPosition
<1>3. PICK r \in Position, u \in Users, n \in Nat :
        /\ r = positions[i] /\ u = r.user /\ n = r.stake /\ r.status = "open" /\ r.payout = 0
  <2>1. positions[i] \in Position /\ positions[i].stake \in Nat
    BY <1>1, RowFacts
  <2>2. positions[i].status = "open" /\ positions[i].payout = 0
    BY <1>1 DEF sellPredictionPosition, MarketShape
  <2>3. positions[i].user \in Users
    BY <2>1 DEF Position
  <2> QED
    BY <2>1, <2>2, <2>3
<1>4. PICK c \in Accounts :
        /\ c = Luck(u) /\ c[1] = u /\ c[2] = "B_LUCK"
        /\ \A a \in Accounts : a[2] = "B_LUCK" => (a = c <=> a[1] = u)
        /\ \A v \in Users : Luck(v) \in Accounts /\ (Luck(v) = c <=> v = u)
  BY AccountFacts
<1>5. /\ UNCHANGED <<keys, giftTransfers, giftEnergy, frozen, adjusted>>
      /\ UNCHANGED <<clock, binding, appeals, oracle, ack>>
      /\ canUnlock(balances[c], n)
      /\ balances' = [balances EXCEPT ![c] = unlockAsset(balances[c], n)]
      /\ market.pool - n >= 0
      /\ market' = withPool(market, market.pool - n)
  BY <1>3, <1>4 DEF sellPredictionPosition, withPool, totalPoolAfter
<1>6. PICK row \in Balance :
        /\ balances' = [balances EXCEPT ![c] = row]
        /\ row.available = balances[c].available + n
        /\ row.locked = balances[c].locked - n
  BY <1>1, <1>3, <1>5, UnlockedRow
<1>7. balances' \in [Accounts -> Balance]
  BY <1>1, <1>6
<1>8. PICK now \in Seq(Position), s \in Position :
        /\ now = positions' /\ Len(now) = Len(positions)
        /\ \A j \in DOMAIN positions : j # i => now[j] = positions[j]
        /\ s = now[i] /\ s.status = "sold" /\ s.user = u /\ s.stake = n /\ s.payout = n
  <2>1. positions' = rowPayout(rowStatus(positions, i, "sold"), i, n)
    <3>1. positions' = [positions EXCEPT ![i].status = "sold", ![i].payout = n]
      BY <1>3 DEF sellPredictionPosition
    <3> QED
      BY <3>1, Zenon DEF rowPayout, rowStatus
  <2>2. PICK mid \in Seq(Position) :
          /\ mid = rowStatus(positions, i, "sold") /\ Len(mid) = Len(positions)
          /\ \A j \in DOMAIN positions : j # i => mid[j] = positions[j]
          /\ mid[i].status = "sold" /\ mid[i].user = u /\ mid[i].stake = n
    BY <1>1, <1>3, RowChanged
  <2>3. i \in DOMAIN mid /\ DOMAIN mid = DOMAIN positions
    BY <1>1, <2>2
  <2>4. PICK now \in Seq(Position) :
          /\ now = rowPayout(mid, i, n) /\ Len(now) = Len(positions)
          /\ \A j \in DOMAIN positions : j # i => now[j] = positions[j]
          /\ now[i].status = "sold" /\ now[i].user = u /\ now[i].stake = n /\ now[i].payout = n
    BY <2>2, <2>3, RowChanged
  <2>5. now = positions'
    BY <2>1, <2>2, <2>4
  <2>6. now[i] \in Position
    BY <2>3, <2>4, <2>2
  <2> QED
    BY <2>4, <2>5, <2>6
<1>9. /\ \A v : lockedValue(v)[r] = (IF v = u THEN n ELSE 0) /\ lockedValue(v)[s] = 0
      /\ openValue[r] = n /\ openValue[s] = 0
      /\ \A v : wonValue(v)[r] = (IF v = u THEN 0 - n ELSE 0) /\ wonValue(v)[s] = 0
  BY <1>3, <1>8 DEF lockedValue, openValue, wonValue
<1>10. /\ \A v : total(lockedValue(v), now)
                    = total(lockedValue(v), positions) + lockedValue(v)[s] - lockedValue(v)[r]
       /\ \A v : total(wonValue(v), now)
                    = total(wonValue(v), positions) + wonValue(v)[s] - wonValue(v)[r]
       /\ total(openValue, now) = total(openValue, positions) + openValue[s] - openValue[r]
  <2>1. ASSUME NEW val \in Values
        PROVE  total(val, now) = total(val, positions) + val[now[i]] - val[positions[i]]
    BY <1>1, <1>8, TotalUpdate
  <2> QED
    BY <1>3, <1>8, <2>1, ValueTypes
<1>11. market' \in MarketRow /\ market'.status = market.status /\ market'.pool = market.pool - n
  <2>1. PICK p \in Nat : p = market.pool - n
    BY <1>2, <1>3, <1>5 DEF MarketRow
  <2> QED
    BY <1>2, <1>5, <2>1, MarketChanged
<1>12. MarketShape'
  <2>1. MarketTypeOK'
    BY <1>1, <1>5, <1>8, <1>11 DEF MarketTypeOK, MarketRow
  <2>2. ASSUME NEW j \in DOMAIN now
        PROVE  now[j].status \in {"open", "sold"} /\ (now[j].status = "open" => now[j].payout = 0)
    <3>1. j \in DOMAIN positions
      BY <1>1, <1>8
    <3>2. CASE j # i
      <4>1. now[j] = positions[j]
        BY <1>8, <3>1, <3>2
      <4> QED
        BY <1>1, <1>2, <3>1, <4>1 DEF MarketShape
    <3>3. CASE j = i
      BY <1>8, <3>3
    <3> QED
      BY <3>2, <3>3
  <2> QED
    BY <1>2, <1>8, <1>11, <2>1, <2>2 DEF MarketShape
<1>13. lockedByRows(balances', market', positions')
  <2>1. ASSUME NEW v \in Users
        PROVE  balances'[Luck(v)].locked = total(lockedValue(v), now)
    <3>1. balances[Luck(v)].locked = total(lockedValue(v), positions)
      BY InvParts DEF lockedByRows
    <3>2. balances[Luck(v)].locked \in Nat
      BY <1>1, <1>4, BalanceAt
    <3>3. balances'[Luck(v)].locked = balances[Luck(v)].locked - (IF v = u THEN n ELSE 0)
      <4>1. CASE v = u
        BY <1>1, <1>4, <1>6, <4>1
      <4>2. CASE v # u
        BY <1>1, <1>4, <1>6, <3>2, <4>2
      <4> QED
        BY <4>1, <4>2
    <3>4. total(lockedValue(v), now) = total(lockedValue(v), positions) - (IF v = u THEN n ELSE 0)
      BY <1>3, <1>9, <1>10, <3>1, <3>2
    <3> QED
      BY <3>1, <3>3, <3>4
  <2>2. market'.pool = total(openValue, now)
    <3>1. market.pool = total(openValue, positions) /\ market.pool \in Nat
      BY <1>2, InvParts DEF lockedByRows, MarketRow
    <3> QED
      BY <1>3, <1>9, <1>10, <1>11, <3>1
  <2> QED
    BY <1>8, <2>1, <2>2 DEF lockedByRows
<1>14. paysPool(market', positions')
  BY <1>2, <1>11 DEF paysPool, Final
<1>15. ASSUME NEW a \in Accounts
       PROVE  balances'[a].available = balances[a].available
                + luck(a, total(wonValue(a[1]), positions') - total(wonValue(a[1]), positions))
  <2>1. PICK w \in Int, x \in Int, v \in Nat :
            /\ w = total(wonValue(a[1]), positions) /\ x = total(wonValue(a[1]), now)
            /\ v = balances[a].available
    BY <1>1, <1>8, BalanceAt, TotalIsInt, ValueTypes
  <2>2. x = w + IF a[1] = u THEN n ELSE 0
    BY <1>3, <1>9, <1>10, <2>1
  <2>3. balances'[a].available = v + IF a = c THEN n ELSE 0
    <3>1. CASE a = c
      BY <1>1, <1>3, <1>6, <2>1, <3>1
    <3>2. CASE a # c
      BY <1>1, <1>6, <2>1, <3>2
    <3> QED
      BY <3>1, <3>2
  <2>4. balances'[a].available = v + luck(a, x - w)
    BY <1>3, <1>4, <2>2, <2>3 DEF luck
  <2> QED
    BY <1>8, <2>1, <2>4
<1> QED
  BY <1>5, <1>7, <1>12, <1>13, <1>14, <1>15, MarketStep

(***************************************************************************)
(* What closing every open position at the given payouts does to the       *)
(* totals.                                                                 *)
(***************************************************************************)
closes(now, pay) ==
    /\ Len(now) = Len(positions)
    /\ \A i \in DOMAIN positions \ openPositions : now[i] = positions[i]
    /\ \A i \in openPositions :
        /\ now[i].user = positions[i].user /\ now[i].stake = positions[i].stake
        /\ now[i].status \in {"won", "lost", "refunded"} /\ now[i].payout = pay[i]

paidTo(u, pay) == SumFunctionOnSet([i \in positionsOf(u) |-> pay[i]], positionsOf(u))

LEMMA ClosedTotals ==
    ASSUME EconomyInv, market.status \notin Final, NEW pay \in [openPositions -> Nat],
           NEW now \in Seq(Position), closes(now, pay)
    PROVE  /\ \A u : total(lockedValue(u), now) = 0
           /\ \A u : total(wonValue(u), now) = total(wonValue(u), positions) + paidTo(u, pay)
           /\ \A u : paidTo(u, pay) \in Nat
           /\ total(paidValue, now) = SumFunctionOnSet(pay, openPositions)
<1> DEFINE D == DOMAIN positions
<1>1. /\ positions \in Seq(Position) /\ MarketShape /\ IsFiniteSet(D)
      /\ openPositions \in SUBSET D /\ Len(now) = Len(positions) /\ DOMAIN now = D
  BY InvParts, RowFacts DEF openPositions, closes
<1>2. ASSUME NEW i \in D
      PROVE  /\ positions[i] \in Position /\ now[i] \in Position
             /\ positions[i].payout \in Nat /\ positions[i].stake \in Nat
             /\ positions[i].status \in {"open", "sold"}
             /\ i \in openPositions <=> positions[i].status = "open"
             /\ positions[i].status = "open" => positions[i].payout = 0
             /\ i \notin openPositions => now[i] = positions[i]
             /\ i \in openPositions =>
                    /\ now[i].user = positions[i].user /\ now[i].stake = positions[i].stake
                    /\ now[i].status \in {"won", "lost", "refunded"} /\ now[i].payout = pay[i]
                    /\ pay[i] \in Nat
  <2>1. /\ positions[i] \in Position /\ now[i] \in Position
        /\ positions[i].payout \in Nat /\ positions[i].stake \in Nat
    BY <1>1, RowFacts
  <2>2. positions[i].status \in {"open", "sold"} /\ (positions[i].status = "open" => positions[i].payout = 0)
    BY <1>1 DEF MarketShape
  <2>3. i \in openPositions <=> positions[i].status = "open"
    BY DEF openPositions
  <2> QED
    BY <2>1, <2>2, <2>3 DEF closes
<1> HIDE DEF D
<1>3. ASSUME NEW u PROVE total(lockedValue(u), now) = 0
  <2>1. \A i \in DOMAIN now \ {} : lockedValue(u)[now[i]] = 0
    BY <1>1, <1>2 DEF lockedValue
  <2>2. SumFunctionOnSet(pay, {}) = total(lockedValue(u), now)
    BY <2>1, TotalOfPart, ValueTypes
  <2> QED
    BY <2>2, SumOfNone
<1>4. ASSUME NEW u
      PROVE  /\ paidTo(u, pay) \in Nat
             /\ total(wonValue(u), now) = total(wonValue(u), positions) + paidTo(u, pay)
  <2> DEFINE T == positionsOf(u)
             more == [i \in T |-> pay[i]]
  <2>1. /\ T \in SUBSET (DOMAIN positions) /\ IsFiniteSet(T) /\ more \in [T -> Int]
        /\ \A i \in T : more[i] \in Nat
    <3>1. T \in SUBSET openPositions
      BY DEF positionsOf
    <3> QED
      BY <1>1, <3>1, FS_Subset DEF D
  <2>2. ASSUME NEW i \in DOMAIN positions
        PROVE  wonValue(u)[now[i]] = wonValue(u)[positions[i]] + IF i \in T THEN more[i] ELSE 0
    <3>1. i \in D
      BY DEF D
    <3>2. i \in T <=> i \in openPositions /\ positions[i].user = u
      BY DEF positionsOf
    <3>3. i \in T => more[i] = pay[i]
      OBVIOUS
    <3> HIDE DEF T, more
    <3>4. /\ wonValue(u)[now[i]] = IF now[i].user = u THEN now[i].payout - now[i].stake ELSE 0
          /\ wonValue(u)[positions[i]]
                = IF positions[i].user = u THEN positions[i].payout - positions[i].stake ELSE 0
      BY <1>2, <3>1 DEF wonValue
    <3>5. CASE i \in openPositions
      <4>1. PICK n \in Nat, m \in Nat :
              /\ n = positions[i].stake /\ m = pay[i] /\ positions[i].payout = 0
              /\ now[i].user = positions[i].user /\ now[i].stake = n /\ now[i].payout = m
        BY <1>2, <3>1, <3>5
      <4>2. CASE positions[i].user = u
        <5>1. i \in T /\ more[i] = m
          BY <3>2, <3>3, <3>5, <4>1, <4>2
        <5>2. wonValue(u)[now[i]] = m - n /\ wonValue(u)[positions[i]] = 0 - n
          BY <3>4, <4>1, <4>2
        <5> QED
          BY <5>1, <5>2
      <4>3. CASE positions[i].user # u
        BY <3>2, <3>4, <4>1, <4>3
      <4> QED
        BY <4>2, <4>3
    <3>6. CASE i \notin openPositions
      BY <1>2, <3>1, <3>2, <3>3, <3>4, <3>6
    <3> QED
      BY <3>5, <3>6
  <2>3. paidTo(u, pay) = SumFunctionOnSet(more, T)
    BY DEF paidTo
  <2> HIDE DEF T, more
  <2>4. SumFunctionOnSet(more, T) \in Nat
    BY <2>1, SumIsNat
  <2>5. total(wonValue(u), now) = total(wonValue(u), positions) + SumFunctionOnSet(more, T)
    <3>1. PICK val \in Values : val = wonValue(u)
      BY ValueTypes
    <3>2. MovesBy(val, positions, now, T, more)
      BY <2>2, <3>1 DEF MovesBy
    <3>3. total(val, now) = total(val, positions) + SumFunctionOnSet(more, T)
      BY <1>1, <2>1, <3>2, TotalMoves
    <3> QED
      BY <3>1, <3>3
  <2> QED
    BY <2>3, <2>4, <2>5
<1>5. total(paidValue, now) = SumFunctionOnSet(pay, openPositions)
  <2>1. \A i \in openPositions : pay[i] = paidValue[now[i]]
    BY <1>1, <1>2 DEF paidValue
  <2>2. \A i \in DOMAIN now \ openPositions : paidValue[now[i]] = 0
    BY <1>1, <1>2 DEF paidValue
  <2>3. openPositions \in SUBSET (DOMAIN now)
    BY <1>1
  <2> QED
    BY <2>1, <2>2, <2>3, TotalOfPart, ValueTypes
<1> QED
  BY <1>3, <1>4, <1>5

\* A market that ends closes every open position and releases every stake.
LEMMA CloseKeeps ==
    ASSUME EconomyInv, UNCHANGED storeVars, balances' \in [Accounts -> Balance],
           UNCHANGED <<keys, giftTransfers, giftEnergy, frozen, adjusted>>,
           market.status \notin Final, market'.status \in Final, MarketTypeOK',
           NEW pay \in [openPositions -> Nat], closes(positions', pay),
           paysPool(market', positions'),
           \A a \in Accounts :
                /\ a[2] = "B_LUCK" =>
                        balances'[a].locked = balances[a].locked - stakeOf(positionsOf(a[1]))
                /\ balances'[a].available = balances[a].available + luck(a, paidTo(a[1], pay))
    PROVE  EconomyInv'
<1>1. /\ MarketShape /\ LedgerShape /\ positions \in Seq(Position) /\ StakesAreLocked
  BY InvParts DEF EconomyInv
<1>2. PICK now \in Seq(Position) : now = positions'
  BY DEF MarketTypeOK
<1>3. /\ \A u : total(lockedValue(u), now) = 0
      /\ \A u : total(wonValue(u), now) = total(wonValue(u), positions) + paidTo(u, pay)
      /\ \A u : paidTo(u, pay) \in Nat
  BY <1>2, ClosedTotals
<1>4. MarketShape'
  <2>1. market'.status # "none"
    BY DEF Final
  <2>2. ASSUME NEW i \in DOMAIN now PROVE now[i].status # "open"
    <3>1. i \in DOMAIN positions
      BY <1>1, <1>2 DEF closes
    <3>2. CASE i \in openPositions
      BY <1>2, <3>2 DEF closes
    <3>3. CASE i \notin openPositions
      BY <1>2, <3>1, <3>3 DEF closes, openPositions
    <3> QED
      BY <3>2, <3>3
  <2> QED
    BY <1>2, <2>1, <2>2 DEF MarketShape
<1>5. lockedByRows(balances', market', positions')
  <2>1. ASSUME NEW u \in Users
        PROVE  balances'[Luck(u)].locked = 0
    <3>1. Luck(u) \in Accounts /\ Luck(u)[1] = u /\ Luck(u)[2] = "B_LUCK"
      BY AccountFacts
    <3>2. balances[Luck(u)].locked \in Nat
      BY <1>1, <3>1, BalanceAt
    <3>3. balances[Luck(u)].locked = stakeOf(positionsOf(u))
      BY <1>1 DEF StakesAreLocked
    <3>4. balances'[Luck(u)].locked = balances[Luck(u)].locked - stakeOf(positionsOf(u))
      BY <3>1
    <3> QED
      BY <3>2, <3>3, <3>4
  <2> QED
    BY <1>2, <1>3, <2>1 DEF lockedByRows
<1>6. ASSUME NEW a \in Accounts
      PROVE  balances'[a].available = balances[a].available
                + luck(a, total(wonValue(a[1]), positions') - total(wonValue(a[1]), positions))
  <2>1. PICK w \in Int, p \in Nat :
          /\ w = total(wonValue(a[1]), positions) /\ p = paidTo(a[1], pay)
          /\ total(wonValue(a[1]), now) = w + p
    BY <1>1, <1>3, TotalIsInt, ValueTypes
  <2>2. balances'[a].available = balances[a].available + luck(a, p)
    BY <2>1
  <2>3. total(wonValue(a[1]), now) - total(wonValue(a[1]), positions) = p
    BY <2>1
  <2> QED
    BY <1>2, <2>2, <2>3
<1> QED
  BY <1>4, <1>5, <1>6, MarketStep

\* Those without open positions have nothing to release.
LEMMA NotHolding ==
    ASSUME NEW u, u \notin holdersOf(openPositions), NEW pay
    PROVE  stakeOf(positionsOf(u)) = 0 /\ paidTo(u, pay) = 0
<1>1. positionsOf(u) = {}
  BY DEF holdersOf, positionsOf
<1> QED
  BY <1>1, SumOfNone DEF stakeOf, paidTo

Results == {"won", "lost", "refunded"}

closedRow(r, s, n) == [r EXCEPT !.status = s, !.payout = n]
withResult(r, s) == [r EXCEPT !.status = s]
withPayout(r, n) == [r EXCEPT !.payout = n]

isClosed(q, r, s, n) ==
    /\ q \in Position /\ q.user = r.user /\ q.stake = r.stake /\ q.outcome = r.outcome
    /\ q.status = s /\ q.payout = n

LEMMA ClosedRow ==
    ASSUME NEW r \in Position, NEW s \in Results, NEW n \in Nat
    PROVE  isClosed(closedRow(r, s, n), r, s, n)
<1>1. PICK q : q = withResult(r, s)
  OBVIOUS
<1>2. /\ q \in Position /\ q.user = r.user /\ q.stake = r.stake /\ q.status = s
      /\ q.outcome = r.outcome
  BY <1>1 DEF withResult, Position, Results
<1>3. closedRow(r, s, n) = withPayout(q, n)
  BY <1>1, Zenon DEF closedRow, withResult, withPayout
<1>4. /\ withPayout(q, n) \in Position /\ withPayout(q, n).user = q.user
      /\ withPayout(q, n).stake = q.stake /\ withPayout(q, n).status = q.status
      /\ withPayout(q, n).payout = n /\ withPayout(q, n).outcome = q.outcome
  BY <1>2 DEF withPayout, Position
<1> QED
  BY <1>2, <1>3, <1>4 DEF isClosed

closedRows(result, pay) ==
    [i \in DOMAIN positions |->
        IF i \in openPositions THEN closedRow(positions[i], result[i], pay[i])
        ELSE positions[i]]

LEMMA ClosedRows ==
    ASSUME positions \in Seq(Position), NEW pay \in [openPositions -> Nat],
           NEW result \in [openPositions -> Results], NEW now,
           now = closedRows(result, pay)
    PROVE  /\ now \in Seq(Position) /\ closes(now, pay)
           /\ \A i \in openPositions :
                /\ now[i].status = result[i] /\ now[i].outcome = positions[i].outcome
<1>1. /\ Len(positions) \in Nat /\ DOMAIN positions = 1..Len(positions)
      /\ \A i \in DOMAIN positions : positions[i] \in Position
      /\ openPositions \in SUBSET (DOMAIN positions)
  BY RowFacts DEF openPositions
<1>2. \A i \in openPositions :
        /\ now[i] = closedRow(positions[i], result[i], pay[i])
        /\ result[i] \in Results /\ pay[i] \in Nat /\ positions[i] \in Position
  BY <1>1 DEF closedRows
<1>3. \A i \in openPositions :
        /\ now[i] \in Position /\ now[i].user = positions[i].user /\ now[i].stake = positions[i].stake
        /\ now[i].status = result[i] /\ now[i].payout = pay[i] /\ now[i].outcome = positions[i].outcome
  <2> SUFFICES ASSUME NEW i \in openPositions
               PROVE  /\ now[i] \in Position /\ now[i].user = positions[i].user
                      /\ now[i].stake = positions[i].stake /\ now[i].status = result[i]
                      /\ now[i].payout = pay[i] /\ now[i].outcome = positions[i].outcome
    OBVIOUS
  <2>1. PICK r \in Position, s \in Results, n \in Nat :
            r = positions[i] /\ s = result[i] /\ n = pay[i] /\ now[i] = closedRow(r, s, n)
    BY <1>2
  <2>2. isClosed(closedRow(r, s, n), r, s, n)
    BY ClosedRow
  <2> QED
    BY <2>1, <2>2 DEF isClosed
<1>4. \A i \in DOMAIN positions \ openPositions : now[i] = positions[i]
  BY DEF closedRows
<1>5. now \in [1..Len(positions) -> Position]
  BY <1>1, <1>3, <1>4 DEF closedRows
<1>6. now \in Seq(Position) /\ Len(now) = Len(positions)
  BY <1>1, <1>5 DEF closedRows
<1> QED
  BY <1>2, <1>3, <1>4, <1>6 DEF closes, Results

LEMMA CancelKeeps ==
    ASSUME EconomyInv, UNCHANGED storeVars, cancelPredictionMarket
    PROVE  EconomyInv'
<1> DEFINE pay == [i \in openPositions |-> positions[i].stake]
           result == [i \in openPositions |-> "refunded"]
<1>0. /\ market.status \notin Final \cup {"none"}
      /\ \A u \in holdersOf(openPositions) : canUnlock(balances[Luck(u)], stakeOf(positionsOf(u)))
      /\ balances' =
            [a \in Accounts |->
                IF a[2] = "B_LUCK" /\ a[1] \in holdersOf(openPositions)
                THEN unlockAsset(balances[a], stakeOf(positionsOf(a[1])))
                ELSE balances[a]]
      /\ positions' =
            [i \in DOMAIN positions |->
                IF i \in openPositions THEN closedRow(positions[i], "refunded", positions[i].stake)
                ELSE positions[i]]
      /\ market' = withStatus(market, "cancelled")
      /\ binding' = "cancelled"
      /\ resolvePredictionMarketAppealsForMarket
      /\ UNCHANGED <<keys, giftTransfers, giftEnergy, frozen, adjusted, adjustments, days>>
      /\ UNCHANGED <<clock, oracle, ack, polls>>
  BY Zenon DEF cancelPredictionMarket, closedRow, withStatus
<1>1. /\ MarketShape /\ MarketTypeOK /\ LedgerShape
      /\ balances \in [Accounts -> Balance] /\ positions \in Seq(Position)
  BY InvParts DEF MarketShape, LedgerShape, LedgerTypeOK
<1>2. market.status \notin Final /\ market \in MarketRow
  BY <1>0, <1>1, EffectiveStatus
<1>3. market' \in MarketRow /\ market'.status = "cancelled"
  <2>2. "cancelled" \in {"none", "draft", "open"} \cup Final
    BY DEF Final
  <2> QED
    BY <1>0, <1>2, <2>2, MarketChanged
<1>4. pay \in [openPositions -> Nat] /\ result \in [openPositions -> Results]
  <2>1. \A i \in openPositions : positions[i].stake \in Nat
    BY <1>1, RowFacts DEF openPositions
  <2> QED
    BY <2>1 DEF Results
<1>5. positions' = closedRows(result, pay)
  <2>2. \A i \in openPositions : pay[i] = positions[i].stake /\ result[i] = "refunded"
    OBVIOUS
  <2> HIDE DEF pay, result
  <2> QED
    BY <1>0, <2>2 DEF closedRows
<1>6. ASSUME NEW u PROVE paidTo(u, pay) = stakeOf(positionsOf(u))
  <2> DEFINE f == [i \in positionsOf(u) |-> pay[i]]
             g == [i \in DOMAIN positions |-> positions[i].stake]
  <2>1. positionsOf(u) \in SUBSET (DOMAIN positions) /\ IsFiniteSet(positionsOf(u))
    BY <1>1, StakeFacts DEF positionsOf, openPositions
  <2>2. \A i \in positionsOf(u) : f[i] = g[i]
    BY <2>1 DEF positionsOf
  <2>3. paidTo(u, pay) = SumFunctionOnSet(f, positionsOf(u))
        /\ stakeOf(positionsOf(u)) = SumFunctionOnSet(g, positionsOf(u))
    BY DEF paidTo, stakeOf
  <2> HIDE DEF f, g
  <2> QED
    BY <2>1, <2>2, <2>3, SumOfEqual
<1> HIDE DEF pay, result
<1>7. positions' \in Seq(Position) /\ closes(positions', pay)
  BY <1>1, <1>4, <1>5, ClosedRows
<1>8. UNCHANGED <<keys, giftTransfers, giftEnergy, frozen, adjusted>>
  BY <1>0
<1>9. MarketTypeOK'
  <2>1. clock' = clock /\ oracle' = oracle /\ ack' = ack /\ binding' = "cancelled"
    BY <1>0
  <2>2. appeals' \in [Reasons -> {"none", "open", "acknowledged", "resolved"}]
    BY <1>0, <1>1 DEF resolvePredictionMarketAppealsForMarket, MarketTypeOK
  <2> QED
    BY <1>1, <1>3, <1>7, <2>1, <2>2 DEF MarketTypeOK, MarketRow, Final
<1>10. ASSUME NEW a \in Accounts
       PROVE  /\ balances'[a] \in Balance
              /\ a[2] = "B_LUCK" =>
                    balances'[a].locked = balances[a].locked - stakeOf(positionsOf(a[1]))
              /\ balances'[a].available = balances[a].available + luck(a, paidTo(a[1], pay))
  <2>1. balances'[a] = IF a[2] = "B_LUCK" /\ a[1] \in holdersOf(openPositions)
                       THEN unlockAsset(balances[a], stakeOf(positionsOf(a[1])))
                       ELSE balances[a]
    BY <1>0
  <2>2. PICK n \in Nat, b \in Balance :
            /\ n = stakeOf(positionsOf(a[1])) /\ n = paidTo(a[1], pay) /\ b = balances[a]
            /\ b.available \in Nat /\ b.locked \in Nat
    <3>1. positionsOf(a[1]) \in SUBSET (DOMAIN positions)
      BY DEF positionsOf, openPositions
    <3> QED
      BY <1>1, <1>6, <3>1, StakeFacts, BalanceAt
  <2>3. CASE a[2] = "B_LUCK" /\ a[1] \in holdersOf(openPositions)
    <3>1. canUnlock(b, n)
      <4>1. canUnlock(balances[Luck(a[1])], stakeOf(positionsOf(a[1])))
        BY <1>0, <2>3
      <4> QED
        BY <2>2, <2>3, <4>1, AccountFacts
    <3>2. /\ unlockAsset(b, n) \in Balance
          /\ unlockAsset(b, n).available = b.available + n
          /\ unlockAsset(b, n).locked = b.locked - n
      BY <3>1, UnlockedRow
    <3> QED
      BY <2>1, <2>2, <2>3, <3>2 DEF luck
  <2>4. CASE a[2] = "B_LUCK" /\ a[1] \notin holdersOf(openPositions)
    <3>1. n = 0
      BY <2>2, <2>4, NotHolding
    <3> QED
      BY <2>1, <2>2, <2>4, <3>1 DEF luck
  <2>5. CASE a[2] # "B_LUCK"
    BY <2>1, <2>2, <2>5 DEF luck
  <2> QED
    BY <2>3, <2>4, <2>5
<1>11. balances' \in [Accounts -> Balance]
  <2>1. balances' = [a \in Accounts |-> balances'[a]]
    BY <1>0
  <2> QED
    BY <1>10, <2>1
<1>12. market'.status \in Final /\ paysPool(market', positions')
  BY <1>3 DEF Final, paysPool
<1> QED
  BY <1>2, <1>4, <1>7, <1>8, <1>9, <1>10, <1>11, <1>12, CloseKeeps

LEMMA SettleKeeps ==
    ASSUME EconomyInv, UNCHANGED storeVars, NEW o, settlePredictionMarket(o),
           UNCHANGED <<clock, ack>>,
           oracle' \in [Workers -> [phase : {"idle", "polling", "settling"},
                                    outcome : Outcomes \cup {"none"}]]
    PROVE  EconomyInv'
<1> DEFINE pay == [i \in openPositions |-> payoutOf(i, o)]
           result == [i \in openPositions |-> resultOf(i, o)]
<1>0. /\ getEffectivePredictionMarketStatus = "locked"
      /\ \A u \in holdersOf(openPositions) : canUnlock(balances[Luck(u)], stakeOf(positionsOf(u)))
      /\ balances' =
            [a \in Accounts |->
                IF a[2] = "B_LUCK" /\ a[1] \in holdersOf(openPositions)
                THEN settleLockedAsset(balances[a], stakeOf(positionsOf(a[1])),
                         SumFunctionOnSet([i \in positionsOf(a[1]) |-> payoutOf(i, o)], positionsOf(a[1])))
                ELSE balances[a]]
      /\ positions' =
            [i \in DOMAIN positions |->
                IF i \in openPositions THEN closedRow(positions[i], resultOf(i, o), payoutOf(i, o))
                ELSE positions[i]]
      /\ market' = withFee(withStatus(market, "resolved"), feeAmount(o))
      /\ binding' = "resolved"
      /\ resolvePredictionMarketAppealsForMarket
      /\ UNCHANGED <<keys, giftTransfers, giftEnergy, frozen, adjusted, adjustments, days>>
  BY Zenon DEF settlePredictionMarket, closedRow, withStatus, withFee
<1>1. /\ MarketShape /\ MarketTypeOK /\ LedgerShape /\ StakesAreLocked
      /\ balances \in [Accounts -> Balance] /\ positions \in Seq(Position)
  BY InvParts DEF MarketShape, LedgerShape, LedgerTypeOK, EconomyInv
<1>2. market.status \notin Final /\ market \in MarketRow
  BY <1>0, <1>1, EffectiveStatus
<1>3. CanSettle
  BY <1>1, TypedCanSettle
<1>4. /\ \A i \in openPositions : payoutOf(i, o) \in Nat
      /\ feeAmount(o) \in Nat
      /\ SumFunctionOnSet(pay, openPositions) + feeAmount(o) = stakeOf(openPositions)
      /\ \A i, j \in winners(o) :
            positions[i].stake > positions[j].stake => payoutOf(i, o) >= payoutOf(j, o)
  BY <1>3, SettlementFacts, PoolFacts
<1>5. pay \in [openPositions -> Nat] /\ result \in [openPositions -> Results]
  <2>1. \A i \in openPositions : resultOf(i, o) \in Results
    BY DEF resultOf, Results
  <2> QED
    BY <1>4, <2>1
<1>6. /\ market' \in MarketRow /\ market'.status = "resolved"
      /\ market'.pool = market.pool /\ market'.fee = feeAmount(o)
  <2>1. "resolved" \in {"none", "draft", "open"} \cup Final
    BY DEF Final
  <2>2. PICK m \in MarketRow :
            m = withStatus(market, "resolved") /\ m.status = "resolved" /\ m.pool = market.pool
    BY <1>2, <2>1, MarketChanged
  <2> QED
    BY <1>0, <1>4, <2>2, MarketChanged
<1>7. /\ \A i \in openPositions : pay[i] = payoutOf(i, o) /\ result[i] = resultOf(i, o)
      /\ \A u : paidTo(u, pay)
            = SumFunctionOnSet([i \in positionsOf(u) |-> payoutOf(i, o)], positionsOf(u))
  <2>1. \A i \in openPositions : pay[i] = payoutOf(i, o) /\ result[i] = resultOf(i, o)
    OBVIOUS
  <2> HIDE DEF pay, result
  <2>2. ASSUME NEW u
        PROVE  [i \in positionsOf(u) |-> pay[i]] = [i \in positionsOf(u) |-> payoutOf(i, o)]
    <3>1. \A i \in positionsOf(u) : pay[i] = payoutOf(i, o)
      BY <2>1 DEF positionsOf
    <3> QED
      BY <3>1
  <2> QED
    BY <2>1, <2>2 DEF paidTo
<1> HIDE DEF pay, result
<1>8. positions' = closedRows(result, pay)
  BY <1>0, <1>7 DEF closedRows
<1>9. PICK now \in Seq(Position) :
        /\ now = positions' /\ closes(now, pay)
        /\ \A i \in openPositions :
            /\ now[i].status = result[i] /\ now[i].outcome = positions[i].outcome
  <2>1. PICK now : now = positions'
    OBVIOUS
  <2>2. now = closedRows(result, pay)
    BY <1>8, <2>1
  <2>3. /\ now \in Seq(Position) /\ closes(now, pay)
        /\ \A i \in openPositions :
            /\ now[i].status = result[i] /\ now[i].outcome = positions[i].outcome
    BY <1>1, <1>5, <2>2, ClosedRows
  <2> QED
    BY <2>1, <2>3
<1>10. MarketTypeOK'
  <2>1. appeals' \in [Reasons -> {"none", "open", "acknowledged", "resolved"}]
    BY <1>0, <1>1 DEF resolvePredictionMarketAppealsForMarket, MarketTypeOK
  <2> QED
    BY <1>0, <1>1, <1>6, <1>9, <2>1 DEF MarketTypeOK, MarketRow, Final
<1>11. ASSUME NEW a \in Accounts
       PROVE  /\ balances'[a] \in Balance
              /\ a[2] = "B_LUCK" =>
                    balances'[a].locked = balances[a].locked - stakeOf(positionsOf(a[1]))
              /\ balances'[a].available = balances[a].available + luck(a, paidTo(a[1], pay))
  <2>1. balances'[a] = IF a[2] = "B_LUCK" /\ a[1] \in holdersOf(openPositions)
                       THEN settleLockedAsset(balances[a], stakeOf(positionsOf(a[1])), paidTo(a[1], pay))
                       ELSE balances[a]
    BY <1>0, <1>7
  <2>2. PICK n \in Nat, m \in Nat, b \in Balance :
            /\ n = stakeOf(positionsOf(a[1])) /\ m = paidTo(a[1], pay) /\ b = balances[a]
            /\ b.available \in Nat /\ b.locked \in Nat
    <3>1. positionsOf(a[1]) \in SUBSET (DOMAIN positions)
      BY DEF positionsOf, openPositions
    <3>2. paidTo(a[1], pay) \in Nat
      BY <1>2, <1>5, <1>9, ClosedTotals
    <3> QED
      BY <1>1, <3>1, <3>2, StakeFacts, BalanceAt
  <2>3. CASE a[2] = "B_LUCK" /\ a[1] \in holdersOf(openPositions)
    <3>1. canUnlock(b, n)
      <4>1. canUnlock(balances[Luck(a[1])], stakeOf(positionsOf(a[1])))
        BY <1>0, <2>3
      <4> QED
        BY <2>2, <2>3, <4>1, AccountFacts
    <3>2. /\ settleLockedAsset(b, n, m) \in Balance
          /\ settleLockedAsset(b, n, m).available = b.available + m
          /\ settleLockedAsset(b, n, m).locked = b.locked - n
      BY <3>1, SettledRow
    <3> QED
      BY <2>1, <2>2, <2>3, <3>2 DEF luck
  <2>4. CASE a[2] = "B_LUCK" /\ a[1] \notin holdersOf(openPositions)
    <3>1. n = 0 /\ m = 0
      BY <2>2, <2>4, NotHolding
    <3> QED
      BY <2>1, <2>2, <2>4, <3>1 DEF luck
  <2>5. CASE a[2] # "B_LUCK"
    BY <2>1, <2>2, <2>5 DEF luck
  <2> QED
    BY <2>3, <2>4, <2>5
<1>12. balances' \in [Accounts -> Balance]
  <2>1. balances' = [a \in Accounts |-> balances'[a]]
    BY <1>0
  <2> QED
    BY <1>11, <2>1
<1>13. paysPool(market', positions')
  <2>1. total(paidValue, now) = SumFunctionOnSet(pay, openPositions)
    BY <1>2, <1>5, <1>9, ClosedTotals
  <2>2. market.pool = stakeOf(openPositions)
    BY <1>1, <1>2 DEF StakesAreLocked
  <2>3. total(paidValue, now) + market'.fee = market'.pool
    BY <1>4, <1>6, <2>1, <2>2
  <2>4. ASSUME NEW i \in DOMAIN now, now[i].status = "won"
        PROVE  i \in winners(o) /\ now[i].stake = positions[i].stake /\ now[i].payout = payoutOf(i, o)
    <3>1. i \in DOMAIN positions
      BY <1>1, <1>9 DEF closes
    <3>2. i \in openPositions
      <4>1. CASE i \notin openPositions
        <5>1. now[i] = positions[i] /\ positions[i].status \in {"open", "sold"}
          BY <1>1, <1>2, <1>9, <3>1, <4>1 DEF closes, MarketShape
        <5> QED
          BY <2>4, <5>1
      <4> QED
        BY <4>1
    <3>3. resultOf(i, o) = "won"
      BY <1>7, <1>9, <2>4, <3>2
    <3>4. i \in winners(o)
      BY <3>2, <3>3 DEF resultOf, winners
    <3> QED
      BY <1>7, <1>9, <3>2, <3>4 DEF closes
  <2>5. ASSUME NEW i \in DOMAIN now, NEW j \in DOMAIN now,
               now[i].status = "won", now[j].status = "won", now[i].stake > now[j].stake
        PROVE  now[i].payout >= now[j].payout
    <3>1. /\ i \in winners(o) /\ now[i].stake = positions[i].stake /\ now[i].payout = payoutOf(i, o)
          /\ j \in winners(o) /\ now[j].stake = positions[j].stake /\ now[j].payout = payoutOf(j, o)
      BY <2>4, <2>5
    <3>2. positions[i].stake > positions[j].stake
      BY <2>5, <3>1
    <3> QED
      BY <1>4, <3>1, <3>2
  <2> QED
    BY <1>9, <2>3, <2>5 DEF paysPool
<1>14. /\ market'.status \in Final /\ closes(positions', pay)
       /\ UNCHANGED <<keys, giftTransfers, giftEnergy, frozen, adjusted>>
  BY <1>0, <1>6, <1>9 DEF Final
<1> QED
  BY <1>2, <1>5, <1>10, <1>11, <1>12, <1>13, <1>14, CloseKeeps

LEMMA MarketKeeps ==
    ASSUME EconomyInv, MarketNext, UNCHANGED storeVars
    PROVE  EconomyInv'
<1>1. oracle \in [Workers -> [phase : {"idle", "polling", "settling"}, outcome : Outcomes \cup {"none"}]]
  BY InvParts DEF MarketShape, MarketTypeOK
<1>2. CASE \E manual \in BOOLEAN, vig \in Vigs : createPredictionMarket(manual, vig)
  BY <1>2, CreateKeeps
<1>3. CASE \E u \in Users, o \in Outcomes, n \in Stakes : placePredictionPosition(u, o, n)
  BY <1>3, PlaceKeeps
<1>4. CASE \E i \in DOMAIN positions : sellPredictionPosition(i)
  BY <1>4, SellKeeps
<1>5. CASE \E o \in Outcomes : adminSettles(o)
  <2>1. PICK o \in Outcomes : adminSettles(o)
    BY <1>5
  <2>2. settlePredictionMarket(o) /\ UNCHANGED <<clock, ack>> /\ oracle' = oracle
    BY <2>1 DEF adminSettles
  <2> QED
    BY <1>1, <2>2, SettleKeeps
<1>6. CASE cancelPredictionMarket
  BY <1>6, CancelKeeps
<1>7. CASE \E k \in Workers : workerSettles(k)
  <2>1. PICK k \in Workers : workerSettles(k)
    BY <1>7
  <2>2. /\ settlePredictionMarket(oracle[k].outcome) /\ UNCHANGED <<clock, ack>>
        /\ oracle' = [oracle EXCEPT ![k] = Resting]
    BY <2>1 DEF workerSettles
  <2>3. oracle' \in [Workers -> [phase : {"idle", "polling", "settling"}, outcome : Outcomes \cup {"none"}]]
    <3>1. Resting \in [phase : {"idle", "polling", "settling"}, outcome : Outcomes \cup {"none"}]
      BY DEF Resting
    <3> QED
      BY <1>1, <2>2, <3>1
  <2> QED
    BY <2>2, <2>3, SettleKeeps
<1>8. CASE \/ timePasses
           \/ \E r \in Reasons : acknowledgeReads(r)
           \/ acknowledgePredictionMarketAppeal
           \/ \E k \in Workers : oracleQuietStep(k)
  BY <1>8, OracleKeeps
<1> QED
  <2>1. \A k \in Workers :
            workerCycle(k) \/ workerStops(k) => oracleQuietStep(k) \/ workerSettles(k)
    BY DEF workerCycle, oracleQuietStep
  <2> QED
    BY <1>2, <1>3, <1>4, <1>5, <1>6, <1>7, <1>8, <2>1 DEF MarketNext

-----------------------------------------------------------------------------
(* Steps of the store *)

\* A delivery counts up, a reversal down, a repeated key not at all.
LEMMA NetAdded ==
    ASSUME NEW posted, NEW key
    PROVE  /\ key \in {"fulfill", "restore"} =>
                netIn(posted \cup {key}) = netIn(posted) + IF key \in posted THEN 0 ELSE 1
           /\ key \in FINAL_STATUSES =>
                netIn(posted \cup {key}) = netIn(posted) - IF key \in posted THEN 0 ELSE 1
<1> DEFINE P == posted \cap {"fulfill", "restore"}
           Q == posted \cap FINAL_STATUSES
           P2 == (posted \cup {key}) \cap {"fulfill", "restore"}
           Q2 == (posted \cup {key}) \cap FINAL_STATUSES
<1>1. IsFiniteSet({"fulfill", "restore"}) /\ IsFiniteSet(FINAL_STATUSES)
  <2>1. IsFiniteSet({"fulfill"} \cup {"restore"}) /\ IsFiniteSet({"refunded"} \cup {"revoked"})
    BY FS_Singleton, FS_AddElement
  <2>2. {"fulfill"} \cup {"restore"} = {"fulfill", "restore"}
        /\ {"refunded"} \cup {"revoked"} = FINAL_STATUSES
    BY DEF FINAL_STATUSES
  <2> QED
    BY <2>1, <2>2
<1>2. IsFiniteSet(P) /\ IsFiniteSet(Q) /\ Cardinality(P) \in Nat /\ Cardinality(Q) \in Nat
  BY <1>1, FS_Subset, FS_CardinalityType
<1>3. netIn(posted) = Cardinality(P) - Cardinality(Q)
      /\ netIn(posted \cup {key}) = Cardinality(P2) - Cardinality(Q2)
  BY DEF netIn
<1>4. ASSUME key \in {"fulfill", "restore"}
      PROVE  /\ Cardinality(P2) = Cardinality(P \cup {key}) /\ Cardinality(Q2) = Cardinality(Q)
             /\ key \in P <=> key \in posted
  <2>1. P2 = P \cup {key} /\ Q2 = Q
    BY <1>4 DEF FINAL_STATUSES
  <2>2. key \in P <=> key \in posted
    BY <1>4
  <2> HIDE DEF P, Q, P2, Q2
  <2> QED
    BY <2>1, <2>2, Zenon
<1>5. ASSUME key \in FINAL_STATUSES
      PROVE  /\ Cardinality(Q2) = Cardinality(Q \cup {key}) /\ Cardinality(P2) = Cardinality(P)
             /\ key \in Q <=> key \in posted
  <2>1. Q2 = Q \cup {key} /\ P2 = P
    BY <1>5 DEF FINAL_STATUSES
  <2>2. key \in Q <=> key \in posted
    BY <1>5
  <2> HIDE DEF P, Q, P2, Q2
  <2> QED
    BY <2>1, <2>2, Zenon
<1> HIDE DEF P, Q, P2, Q2
<1>6. /\ Cardinality(P \cup {key}) = Cardinality(P) + IF key \in P THEN 0 ELSE 1
      /\ Cardinality(Q \cup {key}) = Cardinality(Q) + IF key \in Q THEN 0 ELSE 1
  <2>1. Cardinality(P \cup {key}) = IF key \in P THEN Cardinality(P) ELSE Cardinality(P) + 1
    BY <1>2, FS_AddElement
  <2>2. Cardinality(Q \cup {key}) = IF key \in Q THEN Cardinality(Q) ELSE Cardinality(Q) + 1
    BY <1>2, FS_AddElement
  <2> QED
    BY <1>2, <2>1, <2>2
<1>7. CASE key \in {"fulfill", "restore"}
  <2>1. key \notin FINAL_STATUSES
    BY <1>7 DEF FINAL_STATUSES
  <2> QED
    BY <1>2, <1>3, <1>4, <1>6, <1>7, <2>1
<1>8. CASE key \in FINAL_STATUSES
  <2>1. key \notin {"fulfill", "restore"}
    BY <1>8 DEF FINAL_STATUSES
  <2> QED
    BY <1>2, <1>3, <1>5, <1>6, <1>8, <2>1
<1> QED
  BY <1>7, <1>8

(***************************************************************************)
(* What a movement of the order does: unless a gift has taken the key, it  *)
(* posts it on the order's account and moves that balance by what the key  *)
(* is worth.                                                               *)
(***************************************************************************)
postedWith(c, key) == keys[c] \cup ({key} \ giftKeysOf(c))

moved(c, key) ==
    /\ balances' \in [Accounts -> Balance]
    /\ keys' = [keys EXCEPT ![c] = postedWith(c, key)]
    /\ UNCHANGED <<giftTransfers, giftEnergy, frozen, adjusted>>
    /\ \A a \in Accounts : balances'[a].locked = balances[a].locked
    /\ \A a \in Accounts \ {c} : balances'[a].available = balances[a].available
    /\ balances'[c].available = balances[c].available
            + (netIn(postedWith(c, key)) * PurchaseAmount - netIn(keys[c]) * PurchaseAmount)

LEMMA Multiples ==
    ASSUME NEW n \in Int, NEW p \in Nat
    PROVE  /\ n * p \in Int
           /\ (n + 1) * p - n * p = p
           /\ (n - 1) * p - n * p = 0 - p
           /\ n * p - n * p = 0
OBVIOUS

LEMMA PostedAlready ==
    ASSUME NEW c, NEW key, findLedgerEntry(c, key)
    PROVE  postedWith(c, key) = keys[c]
BY DEF findLedgerEntry, postedWith

LEMMA PostedNow ==
    ASSUME NEW c, NEW key, ~findLedgerEntry(c, key)
    PROVE  postedWith(c, key) = keys[c] \cup {key} /\ key \notin keys[c]
BY DEF findLedgerEntry, postedWith

LEMMA MovementMoves ==
    ASSUME LedgerShape, NEW c \in Accounts, NEW key,
           \/ key \in {"fulfill", "restore"} /\ credited(c, key)
           \/ /\ key \in FINAL_STATUSES /\ takenBack(c, key)
              /\ findLedgerEntry(c, key) \/ canDebit(balances[c], PurchaseAmount)
    PROVE  moved(c, key)
<1>1. balances \in [Accounts -> Balance] /\ keys \in [Accounts -> SUBSET StoreKeys]
  BY DEF LedgerShape, LedgerTypeOK
<1>2. PICK n \in Int, p \in Nat, b \in Balance :
        n = netIn(keys[c]) /\ p = PurchaseAmount /\ b = balances[c] /\ b.available \in Nat
  BY <1>1, NetIsInt, BalanceAt
<1>3. PICK x \in Int, y \in Int, z \in Int :
        /\ x = n * p /\ y = (n + 1) * p /\ z = (n - 1) * p
        /\ y - x = p /\ z - x = 0 - p
  BY Multiples
<1>4. ASSUME key \in {"fulfill", "restore"}, credited(c, key) PROVE moved(c, key)
  <2>1. /\ balances' = [balances EXCEPT ![c] = IF findLedgerEntry(c, key) THEN b ELSE creditAsset(b, p)]
        /\ keys' = [keys EXCEPT ![c] = postedWith(c, key)]
        /\ UNCHANGED <<giftTransfers, giftEnergy, frozen, adjusted>>
    BY <1>2, <1>4 DEF credited, postedWith
  <2>2. /\ creditAsset(b, p) \in Balance /\ creditAsset(b, p).available = b.available + p
        /\ creditAsset(b, p).locked = b.locked
    BY CreditedRow
  <2>4. CASE findLedgerEntry(c, key)
    <3>1. netIn(postedWith(c, key)) = n
      BY <1>2, <2>4, PostedAlready
    <3>2. balances' = balances
      BY <1>1, <1>2, <2>1, <2>4
    <3>3. netIn(postedWith(c, key)) * PurchaseAmount - netIn(keys[c]) * PurchaseAmount = x - x
      BY <1>2, <1>3, <3>1
    <3>4. b.available = b.available + (x - x)
      BY <1>2
    <3> QED
      BY <1>1, <1>2, <2>1, <3>2, <3>3, <3>4 DEF moved
  <2>5. CASE ~findLedgerEntry(c, key)
    <3>1. netIn(postedWith(c, key)) = n + 1
      BY <1>2, <1>4, <2>5, PostedNow, NetAdded
    <3>2. PICK d \in Balance : d = creditAsset(b, p)
      BY <2>2
    <3>3. balances' = [balances EXCEPT ![c] = d]
      BY <2>1, <2>5, <3>2
    <3>4. d.available = b.available + (y - x) /\ d.locked = b.locked
      BY <1>3, <2>2, <3>2
    <3>5. netIn(postedWith(c, key)) * PurchaseAmount - netIn(keys[c]) * PurchaseAmount = y - x
      BY <1>2, <1>3, <3>1
    <3> QED
      BY <1>1, <1>2, <2>1, <3>3, <3>4, <3>5 DEF moved
  <2> QED
    BY <2>4, <2>5
<1>5. ASSUME key \in FINAL_STATUSES, takenBack(c, key), findLedgerEntry(c, key) \/ canDebit(b, p)
      PROVE  moved(c, key)
  <2>1. /\ balances' = [balances EXCEPT ![c] = IF findLedgerEntry(c, key) THEN b ELSE debitAsset(b, p)]
        /\ keys' = [keys EXCEPT ![c] = postedWith(c, key)]
        /\ UNCHANGED <<giftTransfers, giftEnergy, frozen, adjusted>>
    BY <1>2, <1>5 DEF takenBack, postedWith
  <2>3. CASE findLedgerEntry(c, key)
    <3>1. netIn(postedWith(c, key)) = n
      BY <1>2, <2>3, PostedAlready
    <3>2. balances' = balances
      BY <1>1, <1>2, <2>1, <2>3
    <3>3. netIn(postedWith(c, key)) * PurchaseAmount - netIn(keys[c]) * PurchaseAmount = x - x
      BY <1>2, <1>3, <3>1
    <3>4. b.available = b.available + (x - x)
      BY <1>2
    <3> QED
      BY <1>1, <1>2, <2>1, <3>2, <3>3, <3>4 DEF moved
  <2>4. CASE ~findLedgerEntry(c, key)
    <3>1. netIn(postedWith(c, key)) = n - 1
      BY <1>2, <1>5, <2>4, PostedNow, NetAdded
    <3>2. /\ debitAsset(b, p) \in Balance /\ debitAsset(b, p).available = b.available - p
          /\ debitAsset(b, p).locked = b.locked
      BY <1>5, <2>4, DebitedRow
    <3>3. PICK d \in Balance : d = debitAsset(b, p)
      BY <3>2
    <3>4. balances' = [balances EXCEPT ![c] = d]
      BY <2>1, <2>4, <3>3
    <3>5. d.available = b.available + (z - x) /\ d.locked = b.locked
      <4>1. PICK v \in Nat : v = b.available /\ d.available = v - p /\ d.locked = b.locked
        BY <1>2, <3>2, <3>3
      <4>2. v - p = v + (z - x)
        BY <1>3
      <4> QED
        BY <4>1, <4>2
    <3>6. netIn(postedWith(c, key)) * PurchaseAmount - netIn(keys[c]) * PurchaseAmount = z - x
      BY <1>2, <1>3, <3>1
    <3> QED
      BY <1>1, <1>2, <2>1, <3>4, <3>5, <3>6 DEF moved
  <2> QED
    BY <2>3, <2>4
<1> QED
  BY <1>2, <1>4, <1>5

\* Steps that leave the market and the gifts alone.
LEMMA StoreStep ==
    ASSUME EconomyInv, UNCHANGED marketVars, UNCHANGED <<giftTransfers, giftEnergy, adjusted>>,
           balances' \in [Accounts -> Balance],
           keys' \in [Accounts -> SUBSET StoreKeys],
           frozen' \subseteq Users, StoreShape',
           \A a \in Accounts :
                /\ balances'[a].locked = balances[a].locked
                /\ balances'[a].available = balances[a].available
                        + (boughtOf(a, order', keys'[a]) - boughtOf(a, order, keys[a]))
    PROVE  EconomyInv'
<1>1. LedgerShape'
  <2>1. LedgerShape
    BY InvParts
  <2> QED
    BY <2>1 DEF LedgerShape, LedgerTypeOK
<1>2. MarketShape'
  BY InvParts DEF marketVars, MarketShape, MarketTypeOK
<1>3. positions' = positions /\ market' = market
  BY DEF marketVars
<1>4. lockedByRows(balances', market', positions')
  BY <1>3, InvParts, AccountFacts DEF lockedByRows
<1>5. paysPool(market', positions')
  BY <1>3, InvParts
<1>6. explainedBy(balances', adjusted', giftTransfers', positions', order', keys')
  <2> SUFFICES ASSUME NEW a \in Accounts
               PROVE  balances'[a].available =
                        explained(a, adjusted'[a], giftTransfers', positions', order', keys'[a])
    BY DEF explainedBy
  <2>1. PICK g \in Int, w \in Int, b \in Int, c \in Int, m \in Int :
            /\ g = giftsIn(giftTransfers, a[1]) /\ w = wonIn(positions, a[1])
            /\ b = boughtOf(a, order, keys[a]) /\ c = boughtOf(a, order', keys'[a])
            /\ m = adjusted[a]
    <3>1. giftsIn(giftTransfers, a[1]) \in Int /\ adjusted[a] \in Int
      BY InvParts, GiftsAreInt DEF LedgerShape, LedgerTypeOK
    <3>2. /\ wonIn(positions, a[1]) \in Int /\ boughtOf(a, order, keys[a]) \in Int
          /\ boughtOf(a, order', keys'[a]) \in Int
      BY InvParts, WonIsInt, BoughtIsInt
    <3> QED
      BY <3>1, <3>2
  <2>2. balances[a].available = m + luck(a, g) + luck(a, w) + b
    BY <2>1, InvParts DEF explainedBy, explained
  <2>3. balances'[a].available = balances[a].available + (c - b)
    BY <2>1
  <2>4. explained(a, adjusted'[a], giftTransfers', positions', order', keys'[a])
            = m + luck(a, g) + luck(a, w) + c
    BY <1>3, <2>1 DEF explained
  <2> QED
    BY <2>2, <2>3, <2>4 DEF luck
<1> QED
  BY <1>1, <1>2, <1>4, <1>5, <1>6, InvFromParts

\* Requests that move no balance; one of them may freeze the owner.
LEMMA StoreQuiet ==
    ASSUME EconomyInv, UNCHANGED marketVars,
           UNCHANGED <<balances, keys, giftTransfers, giftEnergy, adjusted>>,
           frozen' \subseteq Users, StoreShape',
           \/ order' = order
           \/ /\ order.status # "none" /\ order'.status # "none"
              /\ order'.account = order.account
           \/ order.status = "none"
    PROVE  EconomyInv'
<1>1. /\ balances \in [Accounts -> Balance] /\ StoreShape
      /\ keys \in [Accounts -> SUBSET StoreKeys]
  BY InvParts DEF LedgerShape, LedgerTypeOK
<1>2. ASSUME NEW a \in Accounts
      PROVE  boughtOf(a, order', keys'[a]) = boughtOf(a, order, keys[a])
  <2>1. CASE order' = order
    BY <2>1
  <2>2. CASE order.status # "none" /\ order'.status # "none" /\ order'.account = order.account
    BY <2>2 DEF boughtOf
  <2>3. CASE order.status = "none"
    <3>1. keys[a] \cap StoreKeys = {} \cap StoreKeys
      BY <1>1, <2>3 DEF StoreShape
    <3>2. netIn(keys[a]) = netIn({})
      BY <3>1, NetOfStoreKeys
    <3>3. netIn({}) = 0
      BY FS_EmptySet DEF netIn
    <3>4. 0 * PurchaseAmount = 0
      BY NetIsInt
    <3> QED
      BY <2>3, <3>2, <3>3, <3>4 DEF boughtOf
  <2> QED
    BY <2>1, <2>2, <2>3
<1>3. ASSUME NEW a \in Accounts
      PROVE  balances'[a].available = balances[a].available
                + (boughtOf(a, order', keys'[a]) - boughtOf(a, order, keys[a]))
  <2>1. PICK b \in Int : b = boughtOf(a, order, keys[a]) /\ b = boughtOf(a, order', keys'[a])
    BY <1>2, BoughtIsInt
  <2>2. balances[a].available = balances[a].available + (b - b)
    BY InvParts, BalanceAt
  <2> QED
    BY <2>1, <2>2
<1> QED
  BY <1>1, <1>3, StoreStep

\* Requests that deliver or take back.
LEMMA StoreMoves ==
    ASSUME EconomyInv, UNCHANGED marketVars, NEW c \in Accounts, NEW key \in StoreKeys,
           moved(c, key), StoreShape', order'.status # "none", order'.account = c,
           order.status # "none" => order.account = c
    PROVE  EconomyInv'
<1>1. /\ balances \in [Accounts -> Balance] /\ StoreShape
      /\ keys \in [Accounts -> SUBSET StoreKeys]
      /\ frozen \subseteq Users
  BY InvParts DEF LedgerShape, LedgerTypeOK
<1>2. keys' = [keys EXCEPT ![c] = postedWith(c, key)]
  BY DEF moved
<1>3. /\ keys' \in [Accounts -> SUBSET StoreKeys]
      /\ keys'[c] = postedWith(c, key) /\ \A a \in Accounts \ {c} : keys'[a] = keys[a]
  BY <1>1, <1>2 DEF postedWith
<1>4. ASSUME NEW a \in Accounts
      PROVE  balances'[a].available = balances[a].available
                + (boughtOf(a, order', keys'[a]) - boughtOf(a, order, keys[a]))
  <2>1. CASE a # c
    <3>1. boughtOf(a, order', keys'[a]) = 0 /\ boughtOf(a, order, keys[a]) = 0
      BY <2>1 DEF boughtOf
    <3>2. balances'[a].available = balances[a].available
      BY <2>1 DEF moved
    <3>3. balances[a].available = balances[a].available + (0 - 0)
      BY InvParts, BalanceAt
    <3> QED
      BY <3>1, <3>2, <3>3
  <2>2. CASE a = c
    <3>1. boughtOf(a, order', keys'[a]) = netIn(postedWith(c, key)) * PurchaseAmount
      <4>1. boughtOf(a, order', keys'[a]) = netIn(keys'[a]) * PurchaseAmount
        BY <2>2 DEF boughtOf
      <4> QED
        BY <1>3, <2>2, <4>1
    <3>2. boughtOf(a, order, keys[a]) = netIn(keys[c]) * PurchaseAmount
      <4>1. CASE order.status # "none"
        BY <2>2, <4>1 DEF boughtOf
      <4>2. CASE order.status = "none"
        <5>1. keys[c] \cap StoreKeys = {} \cap StoreKeys
          BY <1>1, <4>2 DEF StoreShape
        <5>2. netIn(keys[c]) = netIn({})
          BY <5>1, NetOfStoreKeys
        <5>3. netIn({}) = 0
          BY FS_EmptySet DEF netIn
        <5>4. 0 * PurchaseAmount = 0
          BY NetIsInt
        <5> QED
          BY <4>2, <5>2, <5>3, <5>4 DEF boughtOf
      <4> QED
        BY <4>1, <4>2
    <3> QED
      BY <2>2, <3>1, <3>2 DEF moved
  <2> QED
    BY <2>1, <2>2
<1>5. /\ balances' \in [Accounts -> Balance] /\ frozen' \subseteq Users
      /\ \A a \in Accounts : balances'[a].locked = balances[a].locked
      /\ UNCHANGED <<giftTransfers, giftEnergy, adjusted>>
  BY <1>1 DEF moved
<1> QED
  BY <1>3, <1>4, <1>5, StoreStep

SessionRow ==
    [call : {"none", "purchased", "replay"} \cup FINAL_STATUSES,
     seen : {"none", "verified", "fulfilled"} \cup FINAL_STATUSES]

LEMMA StoreFacts ==
    ASSUME EconomyInv
    PROVE  /\ StoreShape /\ StoreTypeOK /\ order \in OrderRow
           /\ session \in [Sessions -> SessionRow]
           /\ order.status # "none" => order.account \in Accounts /\ order.account[1] \in Users
           /\ keys \in [Accounts -> SUBSET StoreKeys]
           /\ frozen \subseteq Users
BY InvParts, AccountFacts DEF StoreShape, StoreTypeOK, SessionRow, LedgerShape, LedgerTypeOK

\* A request that reads or answers, with the order as it is.
LEMMA ReadKeeps ==
    ASSUME EconomyInv, UNCHANGED marketVars, UNCHANGED <<ledgerVars, order>>,
           NEW s \in Sessions, NEW row \in SessionRow,
           session' = [session EXCEPT ![s] = row],
           row.call # "none" => row.seen # "none",
           row.seen \in {"none", order.status}
    PROVE  EconomyInv'
<1>1. /\ StoreShape /\ StoreTypeOK /\ order \in OrderRow /\ session \in [Sessions -> SessionRow]
      /\ frozen \subseteq Users
  BY StoreFacts
<1>2. /\ session' \in [Sessions -> SessionRow]
      /\ \A x \in Sessions : session'[x] = IF x = s THEN row ELSE session[x]
      /\ order' = order /\ keys' = keys /\ frozen' = frozen /\ giftTransfers' = giftTransfers
  BY <1>1 DEF ledgerVars
<1>3. EverReversed' => EverReversed
  BY <1>1, <1>2 DEF EverReversed, FINAL_STATUSES
<1>4. StoreShape'
  <2>1. StoreTypeOK' /\ order' \in OrderRow
    BY <1>1, <1>2 DEF StoreTypeOK, SessionRow
  <2>2. \A x \in Sessions : session'[x].call # "none" => session'[x].seen # "none"
    BY <1>1, <1>2 DEF StoreShape
  <2>3. order'.status = "none" =>
            /\ \A a \in Accounts : keys'[a] \cap StoreKeys = {}
            /\ \A x \in Sessions : session'[x].seen = "none"
    BY <1>1, <1>2 DEF StoreShape
  <2>4. ASSUME deliveredOnce'
        PROVE  /\ order'.status # "verified"
               /\ \A x \in Sessions : session'[x].seen # "verified"
               /\ EverReversed' => reversalPosted' \/ order'.account[1] \in frozen'
    <3>1. deliveredOnce /\ (reversalPosted => reversalPosted')
      BY <1>2, <2>4, EntriesStay DEF deliveredOnce, reversalPosted
    <3>2. order.status # "verified" /\ \A x \in Sessions : session[x].seen # "verified"
      BY <1>1, <3>1 DEF StoreShape
    <3> QED
      BY <1>1, <1>2, <1>3, <3>1, <3>2 DEF StoreShape
  <2> QED
    BY <2>1, <2>2, <2>3, <2>4 DEF StoreShape
<1>5. UNCHANGED <<balances, keys, giftTransfers, giftEnergy, adjusted>> /\ frozen' \subseteq Users
  BY <1>1 DEF ledgerVars
<1> QED
  BY <1>2, <1>4, <1>5, StoreQuiet

\* The order in a new status, after which its request is answered.
answeredWith(s, status) ==
    /\ order' = [order EXCEPT !.status = status]
    /\ session' = [session EXCEPT ![s] = NoRequest]

LEMMA AnsweredShape ==
    ASSUME EconomyInv, NEW s \in Sessions, session[s].seen # "none",
           NEW status \in {"verified", "fulfilled"} \cup FINAL_STATUSES,
           answeredWith(s, status),
           deliveredOnce' =>
                /\ status # "verified"
                /\ deliveredOnce
                /\ EverReversed' => reversalPosted' \/ order.account[1] \in frozen'
    PROVE  /\ StoreShape'
           /\ order.status # "none" /\ order.account \in Accounts /\ order.account[1] \in Users
           /\ order'.status = status /\ order'.account = order.account
           /\ order'.manual = order.manual
<1>1. /\ StoreShape /\ StoreTypeOK /\ order \in OrderRow /\ session \in [Sessions -> SessionRow]
      /\ order.status # "none" => order.account \in Accounts /\ order.account[1] \in Users
  BY StoreFacts
<1>2. order.status # "none"
  BY <1>1 DEF StoreShape
<1>3. /\ order' \in OrderRow /\ order'.status = status /\ order'.account = order.account
      /\ order'.manual = order.manual /\ status # "none"
  BY <1>1 DEF answeredWith, OrderRow, FINAL_STATUSES
<1>4. NoRequest \in SessionRow /\ NoRequest.call = "none" /\ NoRequest.seen = "none"
  BY DEF NoRequest, SessionRow
<1>5. /\ session' \in [Sessions -> SessionRow]
      /\ \A x \in Sessions : session'[x] = IF x = s THEN NoRequest ELSE session[x]
  BY <1>1, <1>4 DEF answeredWith
<1>6. StoreTypeOK'
  BY <1>1, <1>2, <1>3, <1>5 DEF StoreTypeOK, SessionRow, OrderRow
<1>7. \A x \in Sessions : session'[x].call # "none" => session'[x].seen # "none"
  BY <1>1, <1>4, <1>5 DEF StoreShape
<1>8. ASSUME deliveredOnce' PROVE \A x \in Sessions : session'[x].seen # "verified"
  <2>1. \A x \in Sessions : session[x].seen # "verified"
    BY <1>1, <1>8 DEF StoreShape
  <2> QED
    BY <1>4, <1>5, <2>1
<1>9. StoreShape'
  BY <1>3, <1>6, <1>7, <1>8 DEF StoreShape
<1> QED
  BY <1>1, <1>2, <1>3, <1>9

LEMMA RequestKeeps ==
    ASSUME EconomyInv, UNCHANGED marketVars, NEW s \in Sessions,
           \/ \E told \in {"purchased", "replay"} \cup FINAL_STATUSES : requestReads(s, told)
           \/ nothingToDo(s)
           \/ requestFails(s)
    PROVE  EconomyInv'
<1>1. order \in OrderRow /\ order.status \in {"none", "verified", "fulfilled"} \cup FINAL_STATUSES
  BY StoreFacts DEF OrderRow
<1>2. CASE \E told \in {"purchased", "replay"} \cup FINAL_STATUSES : requestReads(s, told)
  <2>1. PICK told \in {"purchased", "replay"} \cup FINAL_STATUSES : requestReads(s, told)
    BY <1>2
  <2>2. PICK row : row = [call |-> told, seen |-> order.status]
    OBVIOUS
  <2>3. row \in SessionRow /\ row.seen = order.status /\ order.status # "none"
    BY <1>1, <2>1, <2>2 DEF SessionRow, requestReads
  <2>4. session' = [session EXCEPT ![s] = row] /\ UNCHANGED <<ledgerVars, order>>
    BY <2>1, <2>2 DEF requestReads
  <2> QED
    BY <2>3, <2>4, ReadKeeps
<1>3. CASE nothingToDo(s) \/ requestFails(s)
  <2>1. NoRequest \in SessionRow /\ NoRequest.call = "none" /\ NoRequest.seen = "none"
    BY DEF NoRequest, SessionRow
  <2>2. session' = [session EXCEPT ![s] = NoRequest] /\ UNCHANGED <<ledgerVars, order>>
    BY <1>3 DEF nothingToDo, requestFails, answered
  <2> QED
    BY <2>1, <2>2, ReadKeeps
<1> QED
  BY <1>2, <1>3

LEMMA VerifyKeeps ==
    ASSUME EconomyInv, UNCHANGED marketVars, NEW u \in Users, NEW d \in {"voucher", "gift_pack"},
           NEW m \in BOOLEAN, verifyIapPurchase(u, d, m)
    PROVE  EconomyInv'
<1>1. /\ StoreShape /\ StoreTypeOK /\ order \in OrderRow /\ session \in [Sessions -> SessionRow]
      /\ keys \in [Accounts -> SUBSET StoreKeys] /\ frozen \subseteq Users
  BY StoreFacts
<1>2. PICK c \in Accounts : c = deliveredTo(d, u)
  <2>1. PICK x \in Assets : x = IF d = "voucher" THEN "IAP_VOUCHER" ELSE "B_LUCK"
    BY DEF Assets
  <2>2. <<u, x>> \in Accounts
    BY DEF Accounts
  <2> QED
    BY <2>1, <2>2 DEF deliveredTo
<1>3. /\ order.status = "none" /\ session' = session
      /\ order' = [status |-> IF m THEN "verified" ELSE "fulfilled",
                   delivery |-> d, manual |-> m, account |-> c]
  BY <1>2 DEF verifyIapPurchase
<1>4. /\ \A a \in Accounts : keys[a] \cap StoreKeys = {}
      /\ \A s \in Sessions : session[s].seen = "none"
  BY <1>1, <1>3 DEF StoreShape
<1>5. /\ order' \in OrderRow /\ order'.status = (IF m THEN "verified" ELSE "fulfilled")
      /\ order'.manual = m /\ order'.account = c
  BY <1>3 DEF OrderRow
<1>6. StoreShape'
  <2>1. StoreTypeOK'
    BY <1>1, <1>3, <1>5 DEF StoreTypeOK
  <2>2. ~EverReversed'
    BY <1>3, <1>4, <1>5 DEF EverReversed, FINAL_STATUSES
  <2> QED
    BY <1>1, <1>3, <1>4, <1>5, <2>1, <2>2 DEF StoreShape, deliveredOnce
<1>7. CASE m
  <2>1. UNCHANGED ledgerVars
    BY <1>7 DEF verifyIapPurchase
  <2>2. UNCHANGED <<balances, keys, giftTransfers, giftEnergy, adjusted>> /\ frozen' \subseteq Users
    BY <1>1, <2>1 DEF ledgerVars
  <2> QED
    BY <1>3, <1>6, <2>2, StoreQuiet
<1>8. CASE ~m
  <2>1. credited(c, "fulfill")
    BY <1>2, <1>8 DEF verifyIapPurchase
  <2>2. moved(c, "fulfill") /\ "fulfill" \in StoreKeys
    BY <2>1, InvParts, MovementMoves DEF StoreKeys
  <2> QED
    BY <1>3, <1>5, <1>6, <2>2, StoreMoves
<1> QED
  BY <1>7, <1>8

LEMMA StaysVerifiedKeeps ==
    ASSUME EconomyInv, UNCHANGED marketVars, NEW s \in Sessions, staysVerified(s)
    PROVE  EconomyInv'
<1>1. /\ StoreShape /\ frozen \subseteq Users
  BY StoreFacts
<1>2. /\ session[s].seen = "verified" /\ answeredWith(s, "verified")
      /\ UNCHANGED <<balances, keys, giftTransfers, giftEnergy, adjusted, frozen>>
  BY DEF staysVerified, answered, answeredWith, ledgerVars
<1>3. ~deliveredOnce
  BY <1>1, <1>2 DEF StoreShape
<1>4. ~deliveredOnce'
  <2>1. order' = [order EXCEPT !.status = "verified"] /\ order \in OrderRow /\ order.status # "none"
    BY <1>1, <1>2 DEF StoreShape, answeredWith
  <2>2. order'.manual = order.manual /\ order'.account = order.account
    BY <2>1 DEF OrderRow
  <2> QED
    BY <1>2, <1>3, <2>1, <2>2 DEF deliveredOnce
<1>5. /\ StoreShape' /\ order.status # "none" /\ order'.status # "none"
      /\ order'.account = order.account
  BY <1>2, <1>4, AnsweredShape
<1> QED
  BY <1>1, <1>2, <1>5, StoreQuiet

LEMMA DeliverKeeps ==
    ASSUME EconomyInv, UNCHANGED marketVars, NEW s \in Sessions,
           fulfillStorePurchaseOrder(s) \/ restoreStorePurchaseOrder(s)
    PROVE  EconomyInv'
<1>1. /\ StoreShape /\ order \in OrderRow /\ LedgerShape
      /\ order.status # "none" => order.account \in Accounts
      /\ keys \in [Accounts -> SUBSET StoreKeys]
  BY StoreFacts, InvParts
<1>2. PICK key \in {"fulfill", "restore"} :
        /\ credited(order.account, key) /\ answeredWith(s, "fulfilled")
        /\ session[s].seen # "none"
        /\ key = "fulfill" => session[s].seen = "verified"
        /\ key = "restore" => session[s].seen \in FINAL_STATUSES
  BY DEF fulfillStorePurchaseOrder, restoreStorePurchaseOrder, answered, answeredWith, FINAL_STATUSES
<1>3. order.status # "none" /\ order.account \in Accounts
  BY <1>1, <1>2 DEF StoreShape
<1>4. PICK c \in Accounts : c = order.account
  BY <1>3
<1>5. moved(c, key) /\ key \in StoreKeys
  BY <1>1, <1>2, <1>4, MovementMoves DEF StoreKeys
<1>6. /\ keys'[c] = postedWith(c, key) /\ keys[c] \subseteq keys'[c]
      /\ giftTransfers' = giftTransfers /\ frozen' = frozen
  BY <1>1, <1>5 DEF moved, postedWith
<1>7. ASSUME deliveredOnce'
      PROVE  deliveredOnce /\ (reversalPosted' \/ order.account[1] \in frozen')
  <2>1. order' = [order EXCEPT !.status = "fulfilled"]
    BY <1>2 DEF answeredWith
  <2>2. order'.manual = order.manual /\ order'.account = c
    BY <1>1, <1>4, <2>1 DEF OrderRow
  <2>3. deliveredOnce
    BY <1>3, <1>4, <1>6, <1>7, <2>2 DEF deliveredOnce
  <2>4. key = "restore"
    BY <1>1, <1>2, <2>3 DEF StoreShape
  <2>5. EverReversed
    BY <1>2, <2>4 DEF EverReversed
  <2>6. reversalPosted \/ order.account[1] \in frozen
    BY <1>1, <2>3, <2>5 DEF StoreShape
  <2>7. reversalPosted => reversalPosted'
    BY <1>4, <1>6, <2>2, EntriesStay DEF reversalPosted
  <2> QED
    BY <1>6, <2>3, <2>6, <2>7
<1>8. StoreShape' /\ order'.status = "fulfilled" /\ order'.account = c
  BY <1>2, <1>4, <1>7, AnsweredShape
<1> QED
  BY <1>4, <1>5, <1>8, StoreMoves

LEMMA ReverseKeeps ==
    ASSUME EconomyInv, UNCHANGED marketVars, NEW s \in Sessions, reverseStorePurchaseOrder(s)
    PROVE  EconomyInv'
<1>1. /\ StoreShape /\ order \in OrderRow /\ LedgerShape /\ frozen \subseteq Users
      /\ order.status # "none" => order.account \in Accounts /\ order.account[1] \in Users
      /\ keys \in [Accounts -> SUBSET StoreKeys]
      /\ session[s] \in SessionRow
  BY StoreFacts, InvParts
<1>2. PICK target \in FINAL_STATUSES :
        /\ target = session[s].call /\ session[s].seen # target /\ answeredWith(s, target)
        /\ IF session[s].seen # "fulfilled" THEN UNCHANGED ledgerVars
           ELSE IF findLedgerEntry(order.account, target) \/ canDebit(balances[order.account], PurchaseAmount)
           THEN takenBack(order.account, target)
           ELSE unrecovered(order.account, target)
  BY DEF reverseStorePurchaseOrder, answered, answeredWith
<1>3. session[s].seen # "none"
  BY <1>1, <1>2 DEF StoreShape, FINAL_STATUSES
<1>4. PICK c \in Accounts : c = order.account /\ c[1] \in Users /\ order.status # "none"
  BY <1>1, <1>3 DEF StoreShape
<1>5. order' = [order EXCEPT !.status = target] /\ order'.manual = order.manual /\ order'.account = c
  BY <1>1, <1>2, <1>4 DEF answeredWith, OrderRow
<1>6. target \in {"verified", "fulfilled"} \cup FINAL_STATUSES /\ target # "verified" /\ target \in StoreKeys
  BY DEF FINAL_STATUSES, StoreKeys
<1>7. CASE session[s].seen # "fulfilled"
  <2>1. UNCHANGED <<balances, keys, giftTransfers, giftEnergy, adjusted, frozen>>
    BY <1>2, <1>7 DEF ledgerVars
  <2>2. ASSUME deliveredOnce'
        PROVE  deliveredOnce /\ (reversalPosted' \/ order.account[1] \in frozen')
    <3>1. deliveredOnce
      BY <1>4, <1>5, <2>1, <2>2 DEF deliveredOnce
    <3>2. session[s].seen \in FINAL_STATUSES
      BY <1>1, <1>3, <1>7, <3>1 DEF StoreShape, SessionRow
    <3>3. EverReversed
      BY <3>2 DEF EverReversed
    <3>4. reversalPosted => reversalPosted'
      BY <1>4, <1>5, <2>1, EntriesStay DEF reversalPosted
    <3> QED
      BY <1>1, <2>1, <3>1, <3>3, <3>4 DEF StoreShape
  <2>3. StoreShape' /\ order'.status = target /\ order'.account = order.account
    BY <1>2, <1>3, <1>6, <2>2, AnsweredShape
  <2> QED
    BY <1>1, <1>4, <1>6, <2>1, <2>3, StoreQuiet DEF FINAL_STATUSES
<1>8. CASE session[s].seen = "fulfilled" /\ (findLedgerEntry(c, target) \/ canDebit(balances[c], PurchaseAmount))
  <2>1. takenBack(c, target)
    BY <1>2, <1>4, <1>8
  <2>2. moved(c, target)
    BY <1>1, <1>8, <2>1, MovementMoves
  <2>3. keys'[c] = postedWith(c, target) /\ giftTransfers' = giftTransfers
    BY <1>1, <2>2 DEF moved
  <2>4. ASSUME deliveredOnce'
        PROVE  deliveredOnce /\ reversalPosted'
    <3>1. deliveredOnce
      BY <1>4, <1>5, <2>3, <2>4 DEF deliveredOnce, postedWith
    <3>2. giftKeysOf(c)' = giftKeysOf(c)
      BY <2>3 DEF giftKeysOf
    <3>3. findLedgerEntry(c, target)'
      BY <2>3, <3>2 DEF findLedgerEntry, postedWith
    <3> QED
      BY <1>5, <3>1, <3>3 DEF reversalPosted
  <2>5. StoreShape' /\ order'.status = target /\ order'.account = c
    BY <1>2, <1>3, <1>4, <1>6, <2>4, AnsweredShape
  <2> QED
    BY <1>4, <1>6, <2>2, <2>5, StoreMoves DEF FINAL_STATUSES
<1>9. CASE /\ session[s].seen = "fulfilled"
           /\ ~(findLedgerEntry(c, target) \/ canDebit(balances[c], PurchaseAmount))
  <2>1. unrecovered(c, target)
    BY <1>2, <1>4, <1>9
  <2>2. /\ UNCHANGED <<balances, keys, giftTransfers, giftEnergy, adjusted>>
        /\ frozen' = frozen \cup {c[1]} /\ frozen' \subseteq Users
    BY <1>1, <1>4, <2>1 DEF unrecovered
  <2>3. ASSUME deliveredOnce'
        PROVE  deliveredOnce /\ order.account[1] \in frozen'
    BY <1>4, <1>5, <2>2, <2>3 DEF deliveredOnce
  <2>4. StoreShape' /\ order'.status = target /\ order'.account = order.account
    BY <1>2, <1>3, <1>6, <2>3, AnsweredShape
  <2> QED
    BY <1>4, <1>6, <2>2, <2>4, StoreQuiet DEF FINAL_STATUSES
<1> QED
  BY <1>7, <1>8, <1>9

LEMMA StoreKeeps ==
    ASSUME EconomyInv, StoreNext, UNCHANGED marketVars
    PROVE  EconomyInv'
<1>1. CASE \E u \in Users, d \in {"voucher", "gift_pack"}, m \in BOOLEAN : verifyIapPurchase(u, d, m)
  BY <1>1, VerifyKeeps
<1>2. ASSUME NEW s \in Sessions,
             \/ \E told \in {"purchased", "replay"} \cup FINAL_STATUSES : requestReads(s, told)
             \/ nothingToDo(s)
             \/ staysVerified(s)
             \/ fulfillStorePurchaseOrder(s)
             \/ restoreStorePurchaseOrder(s)
             \/ reverseStorePurchaseOrder(s)
             \/ requestFails(s)
      PROVE  EconomyInv'
  <2>1. CASE \/ \E told \in {"purchased", "replay"} \cup FINAL_STATUSES : requestReads(s, told)
             \/ nothingToDo(s)
             \/ requestFails(s)
    BY <2>1, RequestKeeps
  <2>2. CASE staysVerified(s)
    BY <2>2, StaysVerifiedKeeps
  <2>3. CASE fulfillStorePurchaseOrder(s) \/ restoreStorePurchaseOrder(s)
    BY <2>3, DeliverKeeps
  <2>4. CASE reverseStorePurchaseOrder(s)
    BY <2>4, ReverseKeeps
  <2> QED
    BY <1>2, <2>1, <2>2, <2>3, <2>4
<1> QED
  BY <1>1, <1>2 DEF StoreNext

-----------------------------------------------------------------------------
(* The theorems *)

LEMMA NothingYet ==
    /\ \A u : giftsIn({}, u) = 0 /\ wonIn(<<>>, u) = 0 /\ total(lockedValue(u), <<>>) = 0
    /\ total(openValue, <<>>) = 0
<1>1. DOMAIN << >> = {}
  OBVIOUS
<1>2. \A val : total(val, <<>>) = 0
  <2> SUFFICES ASSUME NEW val PROVE total(val, <<>>) = 0
    OBVIOUS
  <2>1. DOMAIN <<>> = {}
    BY <1>1
  <2> QED
    BY <2>1, SumOfNone DEF total
<1>3. <<>> \in Seq(Position)
  OBVIOUS
<1>4. \A u : wonIn(<<>>, u) = 0
  BY <1>2, <1>3, SumsAreTotals
<1>5. \A u : giftsIn({}, u) = 0
  BY SumOfNone DEF giftsIn
<1> QED
  BY <1>2, <1>4, <1>5

LEMMA InvHoldsInitially ==
    ASSUME EconomyInit
    PROVE  EconomyInv
<1>1. PICK opening \in [Accounts -> Nat] : AssetLedgerInit(opening)
  BY DEF EconomyInit
<1>2. /\ balances = [a \in Accounts |-> openingBalance(opening[a])]
      /\ keys = [a \in Accounts |-> {}] /\ giftTransfers = {}
      /\ giftEnergy = [u \in Users |-> MaxGiftEnergy] /\ frozen = {} /\ adjusted = opening
  BY <1>1 DEF AssetLedgerInit
<1>3. LedgerShape
  <2>1. \A n \in Nat : openingBalance(n) \in Balance
    BY DEF openingBalance, Balance
  <2>2. balances \in [Accounts -> Balance]
    BY <1>2, <2>1
  <2>3. MaxGiftEnergy \in 0..MaxGiftEnergy
    BY AssetLedgerAssumption
  <2>4. giftTransfers \in SUBSET GiftTransfer /\ IsFiniteSet(giftTransfers)
    BY <1>2, FS_EmptySet
  <2>5. giftEnergy \in [Users -> 0..MaxGiftEnergy] /\ adjusted \in [Accounts -> Int]
    BY <1>2, <2>3
  <2> QED
    BY <1>2, <2>2, <2>4, <2>5 DEF LedgerShape, LedgerTypeOK
<1>4. MarketShape /\ positions = <<>> /\ market.status = "none" /\ market.pool = 0
  <2>1. /\ market = [status |-> "none", manual |-> FALSE, pool |-> 0, vig |-> 0, fee |-> 0]
        /\ clock \in {1, 2} /\ positions = <<>> /\ binding = "none"
        /\ appeals = [r \in Reasons |-> "none"] /\ oracle = [k \in Workers |-> Resting]
        /\ ack = NoReason
    BY DEF EconomyInit, MarketInit
  <2>2. DOMAIN positions = {} /\ positions \in Seq(Position)
    BY <2>1
  <2>3. MarketTypeOK
    BY <2>1, <2>2 DEF MarketTypeOK, Moments, Resting
  <2> QED
    BY <2>1, <2>2, <2>3 DEF MarketShape
<1>5. StoreShape /\ order.status = "none"
  <2>1. /\ order = [status |-> "none", delivery |-> "voucher", manual |-> FALSE,
                    account |-> CHOOSE a \in Accounts : TRUE]
        /\ session = [s \in Sessions |-> NoRequest]
    BY DEF EconomyInit, StoreInit
  <2>2. order \in OrderRow /\ order.status = "none"
    BY <2>1 DEF OrderRow
  <2>3. \A s \in Sessions : session[s].call = "none" /\ session[s].seen = "none"
    BY <2>1 DEF NoRequest
  <2>4. session \in [Sessions -> SessionRow]
    BY <2>1 DEF NoRequest, SessionRow
  <2>5. StoreTypeOK
    BY <2>2, <2>4 DEF StoreTypeOK, SessionRow
  <2> QED
    BY <1>2, <2>2, <2>3, <2>5 DEF StoreShape, deliveredOnce
<1>6. StakesAreLocked /\ SettlementPaysPool
  <2>1. \A u \in Users : balances[Luck(u)].locked = 0
    BY <1>2, AccountFacts DEF openingBalance
  <2>2. lockedByRows(balances, market, positions)
    BY <1>4, <2>1, NothingYet DEF lockedByRows
  <2>3. paysPool(market, positions)
    BY <1>4 DEF paysPool
  <2> QED
    BY <1>4, <2>2, <2>3, LockedIs
<1>7. BalanceIsExplained
  <2> SUFFICES ASSUME NEW a \in Accounts
               PROVE  balances[a].available =
                        explained(a, adjusted[a], giftTransfers, positions, order, keys[a])
    BY ExplainedIs
  <2>1. PICK n \in Nat : n = opening[a]
    BY <1>1
  <2>2. balances[a].available = n /\ adjusted[a] = n
    BY <1>2, <2>1 DEF openingBalance
  <2>3. giftsIn(giftTransfers, a[1]) = 0 /\ wonIn(positions, a[1]) = 0
    BY <1>2, <1>4, NothingYet
  <2>4. boughtOf(a, order, keys[a]) = 0 /\ luck(a, 0) = 0
    BY <1>5 DEF boughtOf, luck
  <2> QED
    BY <2>2, <2>3, <2>4 DEF explained
<1> QED
  BY <1>3, <1>4, <1>5, <1>6, <1>7 DEF EconomyInv

LEMMA StutterKeeps ==
    ASSUME EconomyInv, UNCHANGED economyVars
    PROVE  EconomyInv'
<1>1. UNCHANGED <<ledgerVars, storeVars, positions, market>> /\ UNCHANGED marketVars
  BY DEF economyVars, marketVars
<1>2. MarketShape'
  BY <1>1, InvParts DEF MarketShape, MarketTypeOK, marketVars
<1> QED
  BY <1>1, <1>2, QuietStep

LEMMA InvIsInductive ==
    ASSUME EconomyInv, [EconomyNext]_economyVars
    PROVE  EconomyInv'
<1>1. CASE LedgerNext /\ UNCHANGED <<marketVars, storeVars>>
  BY <1>1, LedgerKeeps
<1>2. CASE MarketNext /\ UNCHANGED storeVars
  BY <1>2, MarketKeeps
<1>3. CASE StoreNext /\ UNCHANGED marketVars
  BY <1>3, StoreKeeps
<1>4. CASE UNCHANGED economyVars
  BY <1>4, StutterKeeps
<1> QED
  BY <1>1, <1>2, <1>3, <1>4 DEF EconomyNext

(***************************************************************************)
(* The invariant that the theorems below are read off.                     *)
(***************************************************************************)
THEOREM EconomyInvAlways == EconomySpec => []EconomyInv
<1>1. EconomyInit => EconomyInv
  BY InvHoldsInitially
<1>2. EconomyInv /\ [EconomyNext]_economyVars => EconomyInv'
  BY InvIsInductive
<1> QED
  BY <1>1, <1>2, PTL DEF EconomySpec

(***************************************************************************)
(* Whatever gifts and store movements happen in between, what a user has   *)
(* locked is the open stakes, and the pool is the open stakes of all.      *)
(***************************************************************************)
THEOREM StakesAlwaysLocked == EconomySpec => []StakesAreLocked
<1>1. EconomyInv => StakesAreLocked
  BY DEF EconomyInv
<1> QED
  BY <1>1, EconomyInvAlways, PTL

(***************************************************************************)
(* A settlement pays the pool to the cent for any stakes and fee, and the  *)
(* cents that rounding leaves over never put a smaller stake ahead.        *)
(***************************************************************************)
THEOREM SettlementAlwaysPaysPool == EconomySpec => []SettlementPaysPool
<1>1. EconomyInv => SettlementPaysPool
  BY DEF EconomyInv
<1> QED
  BY <1>1, EconomyInvAlways, PTL

(***************************************************************************)
(* No interleaving of gifts, adjustments, positions and store requests     *)
(* loses or repeats a movement of any account.                             *)
(***************************************************************************)
THEOREM BalanceAlwaysExplained == EconomySpec => []BalanceIsExplained
<1>1. EconomyInv => BalanceIsExplained
  BY DEF EconomyInv
<1> QED
  BY <1>1, EconomyInvAlways, PTL

\* Without a restore, one movement taken back outweighs what was delivered.
LEMMA OneDelivery ==
    ASSUME NEW posted, "restore" \notin posted, posted \cap FINAL_STATUSES # {}
    PROVE  netIn(posted) <= 0
<1>1. posted \cap {"fulfill", "restore"} \subseteq {"fulfill"}
  OBVIOUS
<1>2. IsFiniteSet({"fulfill"}) /\ Cardinality({"fulfill"}) = 1
  BY FS_Singleton
<1>3. /\ Cardinality(posted \cap {"fulfill", "restore"}) \in Nat
      /\ Cardinality(posted \cap {"fulfill", "restore"}) <= 1
  BY <1>1, <1>2, FS_Subset, FS_CardinalityType
<1>4. IsFiniteSet(FINAL_STATUSES)
  <2>1. IsFiniteSet({"refunded"} \cup {"revoked"})
    BY FS_Singleton, FS_AddElement
  <2>2. {"refunded"} \cup {"revoked"} = FINAL_STATUSES
    BY DEF FINAL_STATUSES
  <2> QED
    BY <2>1, <2>2
<1>5. IsFiniteSet(posted \cap FINAL_STATUSES)
  BY <1>4, FS_Subset
<1>6. /\ Cardinality(posted \cap FINAL_STATUSES) \in Nat
      /\ Cardinality(posted \cap FINAL_STATUSES) # 0
  BY <1>5, FS_CardinalityType, FS_EmptySet
<1> QED
  BY <1>3, <1>6 DEF netIn

(***************************************************************************)
(* However many requests read the order before it was reversed, a reversed *)
(* purchase without approval or restore was taken back or its owner frozen,*)
(* unless a gift of the account has the key of a reversal.                 *)
(***************************************************************************)
THEOREM RefundAlwaysRecovered == EconomySpec => []UnrestoredRefundIsRecovered
<1>1. ASSUME EconomyInv, order.status \in FINAL_STATUSES, ~order.manual,
             "restore" \notin keys[order.account],
             giftKeysOf(order.account) \cap FINAL_STATUSES = {}
      PROVE  netDelivered <= 0 \/ order.account[1] \in frozen
  <2>1. order.status # "none" /\ deliveredOnce /\ EverReversed
    BY <1>1 DEF deliveredOnce, EverReversed, FINAL_STATUSES
  <2>2. \/ keys[order.account] \cap FINAL_STATUSES # {}
        \/ order.account[1] \in frozen
    BY <1>1, <2>1 DEF EconomyInv, StoreShape, reversalPosted, findLedgerEntry
  <2>3. netDelivered = netIn(keys[order.account])
    BY <2>1 DEF netDelivered, netIn
  <2> QED
    BY <1>1, <2>2, <2>3, OneDelivery
<1>2. EconomyInv => UnrestoredRefundIsRecovered
  BY <1>1 DEF UnrestoredRefundIsRecovered
<1> QED
  BY <1>2, EconomyInvAlways, PTL

\* Every step that changes the market or a position finds the market not final.
LEMMA FinalStep ==
    ASSUME EconomyInv, MarketNext, market.status \in Final
    PROVE  UNCHANGED <<market, positions>>
<1>1. /\ getEffectivePredictionMarketStatus \in Final
      /\ "none" \notin Final /\ "open" \notin Final /\ "locked" \notin Final
  BY DEF getEffectivePredictionMarketStatus, Final
<1>2. ASSUME NEW o, settlePredictionMarket(o) PROVE FALSE
  <2>1. getEffectivePredictionMarketStatus = "locked"
    BY <1>2, Zenon DEF settlePredictionMarket
  <2> QED
    BY <1>1, <2>1
<1>3. ~timePasses \/ UNCHANGED <<market, positions>>
  BY DEF timePasses
<1>4. \A manual \in BOOLEAN, vig \in Vigs : ~createPredictionMarket(manual, vig)
  BY <1>1 DEF createPredictionMarket
<1>5. \A u \in Users, o \in Outcomes, n \in Stakes : ~placePredictionPosition(u, o, n)
  BY <1>1 DEF placePredictionPosition
<1>6. \A i \in DOMAIN positions : ~sellPredictionPosition(i)
  BY <1>1 DEF sellPredictionPosition
<1>7. \A o \in Outcomes : ~adminSettles(o)
  BY <1>2 DEF adminSettles
<1>8. ~cancelPredictionMarket
  <2>1. cancelPredictionMarket => market.status \notin Final \cup {"none"}
    BY Zenon DEF cancelPredictionMarket
  <2> QED
    BY <2>1
<1>9. \A r \in Reasons : acknowledgeReads(r) => UNCHANGED <<market, positions>>
  BY DEF acknowledgeReads
<1>10. acknowledgePredictionMarketAppeal => UNCHANGED <<market, positions>>
  BY DEF acknowledgePredictionMarketAppeal
<1>11. ASSUME NEW k \in Workers, workerCycle(k) \/ workerStops(k)
       PROVE  UNCHANGED <<market, positions>>
  <2>1. ~workerSettles(k)
    BY <1>2 DEF workerSettles
  <2> QED
    BY <1>11, <2>1 DEF workerCycle, workerStops, selectDueMarket, applyOracleEvaluationStatus,
                       evaluationAppeals, evaluationResolves, workerSettlementFails
<1> QED
  BY <1>3, <1>4, <1>5, <1>6, <1>7, <1>8, <1>9, <1>10, <1>11 DEF MarketNext

(***************************************************************************)
(* Neither a second settlement nor a cancellation, a sale or a late answer *)
(* of the oracle changes a final market or what its positions were paid.   *)
(***************************************************************************)
THEOREM FinalStaysFinal == EconomySpec => FinalIsFinal
<1>1. ASSUME EconomyInv, [EconomyNext]_economyVars, market.status \in Final
      PROVE  UNCHANGED <<market, positions>>
  <2>1. CASE MarketNext
    BY <1>1, <2>1, FinalStep
  <2>2. CASE UNCHANGED marketVars
    BY <2>2 DEF marketVars
  <2> QED
    BY <1>1, <2>1, <2>2 DEF EconomyNext, economyVars
<1>2. EconomyInv /\ [EconomyNext]_economyVars
        => [market.status \in Final => UNCHANGED <<market, positions>>]_<<market, positions>>
  BY <1>1
<1> QED
  BY <1>2, EconomyInvAlways, PTL DEF EconomySpec, FinalIsFinal

LEMMA CentsLeft ==
    ASSUME EconomyInv, NEW o, winners(o) # {}
    PROVE  centsRemaining(o) \in Nat
<1>1. MarketTypeOK
  BY InvParts DEF MarketShape
<1>2. CanSettle
  BY <1>1, TypedCanSettle
<1> QED
  BY <1>2, CentsFacts

\* What a settlement of the market, whatever its outcome, would throw on: a
\* holder without enough locked, or a negative number of cents left over.
SettlementGoesThrough ==
    /\ \A u \in holdersOf(openPositions) : canUnlock(balances[Luck(u)], stakeOf(positionsOf(u)))
    /\ \A o \in Outcomes : winners(o) # {} => centsRemaining(o) \in Nat

(***************************************************************************)
(* The two assertions on the settlement's way, that the locked balance     *)
(* covers the stakes and that rounding never pays out more than the pool,  *)
(* hold in every state, so neither keeps a market from being settled.      *)
(***************************************************************************)
THEOREM SettlementNeverThrows == EconomySpec => []SettlementGoesThrough
<1>1. ASSUME EconomyInv, NEW u \in holdersOf(openPositions)
      PROVE  canUnlock(balances[Luck(u)], stakeOf(positionsOf(u)))
  <2>1. positions \in Seq(Position) /\ balances \in [Accounts -> Balance]
    BY <1>1, InvParts DEF LedgerShape, LedgerTypeOK
  <2>2. PICK i \in DOMAIN positions : u = positions[i].user
    BY <1>1 DEF holdersOf, openPositions
  <2>3. u \in Users
    BY <2>1, <2>2, RowFacts DEF Position
  <2>4. balances[Luck(u)].locked = stakeOf(positionsOf(u)) /\ balances[Luck(u)].locked \in Nat
    BY <1>1, <2>1, <2>3, AccountFacts DEF EconomyInv, StakesAreLocked, Balance
  <2> QED
    BY <2>4 DEF canUnlock
<1>2. ASSUME EconomyInv, NEW o \in Outcomes, winners(o) # {}
      PROVE  centsRemaining(o) \in Nat
  BY <1>2, CentsLeft
<1>3. EconomyInv => SettlementGoesThrough
  BY <1>1, <1>2 DEF SettlementGoesThrough
<1> QED
  BY <1>3, EconomyInvAlways, PTL

(***************************************************************************)
(* Every balance, ledger key, gift, market row, position, appeal, oracle   *)
(* cycle and store request stays of its type; what is available or locked  *)
(* is never negative.                                                      *)
(***************************************************************************)
THEOREM EconomyTypeCorrect == EconomySpec => []EconomyTypeOK
<1>1. EconomyInv => EconomyTypeOK
  BY DEF EconomyInv, LedgerShape, MarketShape, StoreShape, EconomyTypeOK
<1> QED
  BY <1>1, EconomyInvAlways, PTL

-----------------------------------------------------------------------------
(***************************************************************************)
(* The hosted prize engine, for any number of concurrent calls, any prizes,*)
(* prices and caps: a repeated call is paid once, a call that looks at the *)
(* billing account pays only under the hard cap in force, and a window's   *)
(* payouts stay within the envelope's budget.                              *)
(***************************************************************************)
Prizes == DOMAIN TenantPrizes

EnvelopeRow ==
    [strategy : Strategies, consumed : 0..BudgetCap, count : Nat, window : 0..MaxWindows]

BillingRow == [hardCap : HardCaps, reached : BOOLEAN, alerted : BOOLEAN]

RecordRow ==
    [agent : Agents, player : Players, key : IdemKeys \cup {NoKey}, known : BOOLEAN,
     reward : Nat, window : 0..MaxWindows]

inTransaction == {"envelope"} \cup pastEnvelope

ActiveCall ==
    [pc : inTransaction, agent : Agents, player : Players, key : IdemKeys \cup {NoKey},
     now : 0..MaxWindows, pool : Nat, row : EnvelopeRow, preflight : {"allow", "mute"},
     paidToday : Int, billing : BillingRow, spent : Nat, checked : BOOLEAN,
     known : BOOLEAN, locksAgent : BOOLEAN,
     prize : Prizes \cup {NoPrize}, throttled : BOOLEAN, fee : Nat]

CallType == ActiveCall \cup [pc : {"usage"}, fee : Nat] \cup {AtEase}

ClerkType == {AtEase} \cup [pc : {"read"}, billing : BillingRow, due : BOOLEAN]

RewardTypes ==
    /\ project \in [status : {"active", "suspended"}, pool : Nat, stock : [Prizes -> Nat]]
    /\ players \in [Players -> Int]
    /\ agents \subseteq Agents
    /\ drawRecords \in Seq(RecordRow)
    /\ envelope \in EnvelopeRow
    /\ billing \in BillingRow
    /\ usage \in Nat
    /\ window \in 0..MaxWindows
    /\ call \in [Calls -> CallType]
    /\ clerk \in [Clerks -> ClerkType]

(***************************************************************************)
(* What a call that is about to be booked may rely on: the envelope has    *)
(* room for its prize, the billing account allowed it, and no known agent's*)
(* record answers the same request.                                        *)
(***************************************************************************)
sameRequest(r, c) == r.known /\ r.agent = c.agent /\ r.player = c.player /\ r.key = c.key

ReadyToSettle(c) ==
    /\ envelope.strategy # "none" => c.row.consumed + rewardOf(c.prize) <= BudgetCap
    /\ c.throttled => c.billing.hardCap # 0
    /\ (c.prize # NoPrize /\ c.billing.hardCap # 0) =>
            ~c.billing.reached /\ c.spent + PayoutFee <= c.billing.hardCap
    /\ (c.known /\ c.key # NoKey) =>
            \A i \in DOMAIN drawRecords : ~sameRequest(drawRecords[i], c)

(* What a call read is still what the tables say, where a lock protects it. *)
CallOK(c) ==
    /\ c.pc \in pastEnvelope => c.row = normalizeRewardEnvelopeState(envelope, c.now)
    /\ c.pc \in inTransaction /\ ~c.checked => c.billing.hardCap = 0
    /\ c.pc \in pastBilling /\ c.checked => c.billing = billing
    /\ c.pc \in pastAgent /\ c.known => c.locksAgent
    /\ c.pc = "settle" => ReadyToSettle(c)

(* Two calls hold the same lock. *)
Conflict(c, o) ==
    \/ envelope.strategy # "none" /\ c.pc \in pastEnvelope /\ o.pc \in pastEnvelope
    \/ /\ c.pc \in pastBilling /\ o.pc \in pastBilling
       /\ c.checked /\ o.checked
    \/ /\ c.pc \in pastAgent /\ o.pc \in pastAgent
       /\ c.agent = o.agent /\ c.locksAgent /\ o.locksAgent

Exclusive == \A q, o \in Calls : q # o => ~Conflict(call[q], call[o])

(* The envelope's row stands for the window of the last record. *)
inOrder == \A i, j \in DOMAIN drawRecords : i < j => drawRecords[i].window <= drawRecords[j].window

windowSum(w) == rewardSum({i \in DOMAIN drawRecords : drawRecords[i].window = w})

WindowsOK ==
    envelope.strategy # "none" =>
        /\ Len(drawRecords) = 0 => envelope.window = 0 /\ envelope.consumed = 0
        /\ Len(drawRecords) # 0 => envelope.window = drawRecords[Len(drawRecords)].window
        /\ inOrder =>
            /\ windowSum(envelope.window) = envelope.consumed
            /\ \A w \in 0..MaxWindows : windowSum(w) <= BudgetCap

(***************************************************************************)
(* The inductive invariant.                                                *)
(***************************************************************************)
RewardsInv ==
    /\ RewardTypes
    /\ \A q \in Calls : CallOK(call[q])
    /\ Exclusive
    /\ RetryPaysOnce
    /\ WindowsOK

-----------------------------------------------------------------------------
(* Calls *)

LEMMA ActiveIsCall ==
    /\ \A c \in CallType : c.pc \in inTransaction => c \in ActiveCall
    /\ ActiveCall \subseteq CallType
    /\ AtEase \in CallType /\ AtEase.pc = "idle"
<1>1. AtEase.pc = "idle"
  BY DEF AtEase
<1>2. \A c \in [pc : {"usage"}, fee : Nat] : c.pc = "usage"
  OBVIOUS
<1> QED
  BY <1>1, <1>2 DEF CallType, inTransaction, pastEnvelope

(***************************************************************************)
(* A step of one call that leaves the tables alone keeps the invariant if  *)
(* what the call holds is in order and free of conflicts.                  *)
(***************************************************************************)
LEMMA CallStep ==
    ASSUME RewardsInv, NEW q \in Calls, NEW c \in CallType, CallOK(c),
           \A o \in Calls \ {q} : ~Conflict(c, call[o]),
           call' = [call EXCEPT ![q] = c],
           UNCHANGED <<project, players, agents, drawRecords, envelope, billing, usage, window, clerk>>
    PROVE  RewardsInv'
<1> USE DEF RewardsInv
<1>1. call \in [Calls -> CallType]
  BY DEF RewardTypes
<1>2. call'[q] = c /\ \A o \in Calls \ {q} : call'[o] = call[o]
  BY <1>1
<1>3. RewardTypes'
  BY <1>1 DEF RewardTypes
<1>4. \A o \in Calls : CallOK(call[o])'
  BY <1>2 DEF CallOK, ReadyToSettle
<1>5. Exclusive'
  BY <1>2 DEF Exclusive, Conflict
<1>6. RetryPaysOnce'
  BY DEF RetryPaysOnce
<1>7. WindowsOK'
  BY DEF WindowsOK, inOrder, windowSum, rewardSum
<1> QED
  BY <1>3, <1>4, <1>5, <1>6, <1>7

LEMMA FailsStep ==
    ASSUME RewardsInv, NEW q \in Calls, fails(q)
    PROVE  RewardsInv'
<1>1. AtEase \in CallType /\ AtEase.pc = "idle"
  BY ActiveIsCall
<1>2. CallOK(AtEase)
  BY <1>1 DEF CallOK, inTransaction, pastEnvelope, pastBilling, pastAgent
<1>3. \A o \in Calls \ {q} : ~Conflict(AtEase, call[o])
  BY <1>1 DEF Conflict, pastEnvelope, pastBilling, pastAgent
<1>4. /\ call' = [call EXCEPT ![q] = AtEase]
      /\ UNCHANGED <<project, players, agents, drawRecords, envelope, billing, usage, window, clerk>>
  BY DEF fails, onlyCall
<1> QED
  BY <1>1, <1>2, <1>3, <1>4, CallStep

LEMMA LoadProjectStep ==
    ASSUME RewardsInv, NEW q \in Calls, NEW a \in Agents, NEW p \in Players,
           NEW key \in IdemKeys \cup {NoKey}, loadProject(q, a, p, key)
    PROVE  RewardsInv'
<1> DEFINE looks == shouldCheckBillingHardCap(billing)
           c == [pc |-> "envelope", agent |-> a, player |-> p, key |-> key,
                 now |-> window, pool |-> project.pool, row |-> envelope,
                 preflight |-> "allow", paidToday |-> 0, billing |-> billing, spent |-> 0,
                 checked |-> looks,
                 known |-> FALSE, locksAgent |-> FALSE,
                 prize |-> NoPrize, throttled |-> FALSE, fee |-> 0]
<1>1. looks \in BOOLEAN /\ (~looks => billing.hardCap = 0)
  BY DEF shouldCheckBillingHardCap
<1>2. c.pc = "envelope" /\ c.billing = billing /\ c.checked = looks
  OBVIOUS
<1>3. /\ call' = [call EXCEPT ![q] = c]
      /\ UNCHANGED <<project, players, agents, drawRecords, envelope, billing, usage, window, clerk>>
  BY DEF loadProject
<1> HIDE DEF looks
<1>6. c \in ActiveCall
  BY <1>1 DEF RewardsInv, RewardTypes, ActiveCall, inTransaction
<1> HIDE DEF c
<1>4. c \in CallType
  BY <1>6, ActiveIsCall
<1>5. CallOK(c) /\ \A o \in Calls \ {q} : ~Conflict(c, call[o])
  BY <1>1, <1>2 DEF CallOK, Conflict, inTransaction, pastEnvelope, pastBilling, pastAgent
<1> QED
  BY <1>3, <1>4, <1>5, CallStep

(* The envelope's row, normalised for any window, is a row. *)
LEMMA NormalizedRow ==
    ASSUME NEW row \in EnvelopeRow, NEW now \in 0..MaxWindows
    PROVE  /\ normalizeRewardEnvelopeState(row, now) \in EnvelopeRow
           /\ normalizeRewardEnvelopeState(row, now).window = now
           /\ normalizeRewardEnvelopeState(row, now).strategy = row.strategy
<1>1. BudgetCap \in Nat /\ MaxWindows \in Nat
  BY TenantRewardsAssumption
<1>2. CASE row.window = now
  BY <1>2 DEF normalizeRewardEnvelopeState
<1>3. CASE row.window # now
  <2>1. normalizeRewardEnvelopeState(row, now)
            = [row EXCEPT !.consumed = 0, !.count = 0, !.window = now]
    BY <1>3 DEF normalizeRewardEnvelopeState
  <2>2. 0 \in 0..BudgetCap /\ 0 \in Nat
    BY <1>1
  <2>3. [row EXCEPT !.consumed = 0, !.count = 0, !.window = now] \in EnvelopeRow
    BY <2>2 DEF EnvelopeRow
  <2>4. [row EXCEPT !.consumed = 0, !.count = 0, !.window = now].window = now
    BY DEF EnvelopeRow
  <2>5. [row EXCEPT !.consumed = 0, !.count = 0, !.window = now].strategy = row.strategy
    BY DEF EnvelopeRow
  <2> QED
    BY <2>1, <2>3, <2>4, <2>5
<1> QED
  BY <1>2, <1>3

(* The rewards paid in a set of records add up to an integer. *)
LEMMA RewardsAreNumbers ==
    ASSUME RewardsInv, NEW S, S \subseteq DOMAIN drawRecords
    PROVE  rewardSum(S) \in Int /\ IsFiniteSet(S)
<1> DEFINE f == [i \in DOMAIN drawRecords |-> drawRecords[i].reward]
<1>1. drawRecords \in Seq(RecordRow)
  BY DEF RewardsInv, RewardTypes
<1>2. DOMAIN drawRecords = 1..Len(drawRecords) /\ Len(drawRecords) \in Nat
  BY <1>1
<1>3. IsFiniteSet(S)
  <2>1. IsFiniteSet(1..Len(drawRecords))
    BY <1>2, FS_Interval
  <2> QED
    BY <1>2, <2>1, FS_Subset
<1>4. \A i \in DOMAIN drawRecords : drawRecords[i] \in RecordRow
  BY <1>1
<1>5. \A i \in S : f[i] \in Int
  BY <1>4 DEF RecordRow
<1> HIDE DEF f
<1>6. SumFunctionOnSet(f, S) \in Int
  BY <1>3, <1>5, SumIsInt
<1> QED
  BY <1>3, <1>6 DEF rewardSum, f

LEMMA EnvelopeStep ==
    ASSUME RewardsInv, NEW q \in Calls, loadLockedRewardEnvelopeStates(q)
    PROVE  RewardsInv'
<1> DEFINE row == normalizeRewardEnvelopeState(envelope, call[q].now)
           preflight == evaluateRewardEnvelopeDecision(row, ExpectedPayout)
           c == [call[q] EXCEPT !.pc = "billing", !.row = row, !.preflight = preflight,
                                !.paidToday = loadTenantDailyRewardPayout]
<1>1. CASE fails(q)
  BY <1>1, FailsStep
<1>2. CASE /\ preflight # "reject"
           /\ call' = [call EXCEPT ![q].pc = "billing", ![q].row = row,
                                      ![q].preflight = preflight,
                                      ![q].paidToday = loadTenantDailyRewardPayout]
           /\ onlyCall
  <2>1. call[q] \in ActiveCall /\ call \in [Calls -> CallType] /\ envelope \in EnvelopeRow
    BY ActiveIsCall DEF RewardsInv, RewardTypes, loadLockedRewardEnvelopeStates, inTransaction
  <2>2. row \in EnvelopeRow /\ row.strategy = envelope.strategy
    BY <2>1, NormalizedRow DEF ActiveCall
  <2>3. preflight \in {"allow", "mute"}
    BY <1>2, <2>2 DEF evaluateRewardEnvelopeDecision, EnvelopeRow, Strategies
  <2>4. loadTenantDailyRewardPayout \in Int
    BY RewardsAreNumbers DEF loadTenantDailyRewardPayout
  <2>5. call' = [call EXCEPT ![q] = c]
    BY <1>2, <2>1
  <2>6. CallOK(call[q]) /\ call[q].pc = "envelope"
    BY DEF RewardsInv, loadLockedRewardEnvelopeStates
  <2>7. ~envelopeLocked(q)
    BY DEF loadLockedRewardEnvelopeStates
  <2> HIDE DEF row, preflight
  <2>8. c \in ActiveCall
    BY <2>1, <2>2, <2>3, <2>4 DEF ActiveCall, inTransaction, pastEnvelope
  <2>9. /\ c.pc = "billing" /\ c.row = row /\ c.now = call[q].now
        /\ c.billing = call[q].billing /\ c.checked = call[q].checked
    BY <2>1 DEF ActiveCall
  <2> HIDE DEF c
  <2>10. CallOK(c)
    BY <2>6, <2>9 DEF CallOK, inTransaction, pastEnvelope, pastBilling, pastAgent, row
  <2>11. \A o \in Calls \ {q} : ~Conflict(c, call[o])
    BY <2>7, <2>9 DEF Conflict, pastEnvelope, pastBilling, pastAgent, envelopeLocked
  <2> QED
    BY <1>2, <2>5, <2>8, <2>10, <2>11, ActiveIsCall, CallStep DEF onlyCall
<1> QED
  BY <1>1, <1>2 DEF loadLockedRewardEnvelopeStates

LEMMA BillingStep ==
    ASSUME RewardsInv, NEW q \in Calls, loadLockedBillingAccountBudget(q)
    PROVE  RewardsInv'
<1> DEFINE b == IF call[q].checked THEN billing ELSE call[q].billing
           s == IF call[q].checked THEN usage ELSE call[q].spent
           c == [call[q] EXCEPT !.pc = "agent", !.billing = b, !.spent = s]
<1>1. /\ call[q] \in ActiveCall /\ call \in [Calls -> CallType]
      /\ billing \in BillingRow /\ usage \in Nat
  BY ActiveIsCall DEF RewardsInv, RewardTypes, loadLockedBillingAccountBudget, inTransaction, pastEnvelope
<1>2. b \in BillingRow /\ s \in Nat
  BY <1>1 DEF ActiveCall
<1>3. call' = [call EXCEPT ![q] = c]
  BY <1>1 DEF loadLockedBillingAccountBudget
<1>4. CallOK(call[q]) /\ call[q].pc = "billing" /\ Exclusive
  BY DEF RewardsInv, loadLockedBillingAccountBudget
<1>5. call[q].checked => ~billingLocked
  BY DEF loadLockedBillingAccountBudget
<1>6. c \in ActiveCall
  BY <1>1, <1>2 DEF ActiveCall, inTransaction, pastEnvelope
<1>7. /\ c.pc = "agent" /\ c.row = call[q].row /\ c.now = call[q].now /\ c.billing = b
      /\ c.checked = call[q].checked
  BY <1>1 DEF ActiveCall
<1>8. CallOK(c)
  <2> HIDE DEF c
  <2> QED
    BY <1>4, <1>7 DEF CallOK, inTransaction, pastEnvelope, pastBilling, pastAgent
<1>9. \A o \in Calls \ {q} : ~Conflict(c, call[o])
  <2> HIDE DEF c
  <2> QED
    BY <1>4, <1>5, <1>7 DEF Exclusive, Conflict, pastEnvelope, pastBilling, pastAgent, billingLocked
<1> QED
  BY <1>3, <1>6, <1>8, <1>9, ActiveIsCall, CallStep DEF onlyCall, loadLockedBillingAccountBudget

LEMMA AgentStep ==
    ASSUME RewardsInv, NEW q \in Calls, loadAgent(q) \/ ensureProjectAgent(q)
    PROVE  RewardsInv'
<1>1. call[q] \in ActiveCall /\ call \in [Calls -> CallType]
  BY ActiveIsCall DEF RewardsInv, RewardTypes, loadAgent, ensureProjectAgent, inTransaction, pastEnvelope
<1>2. CallOK(call[q]) /\ Exclusive
  BY DEF RewardsInv
<1>3. CASE loadAgent(q)
  <2> DEFINE k == (call[q].agent \in agents)
             c == [call[q] EXCEPT !.pc = "upsert", !.known = k]
  <2>1. k \in BOOLEAN
    OBVIOUS
  <2>2. call' = [call EXCEPT ![q] = c] /\ onlyCall /\ call[q].pc = "agent"
    BY <1>1, <1>3 DEF loadAgent
  <2> HIDE DEF k
  <2>3. c \in ActiveCall
    BY <1>1, <2>1 DEF ActiveCall, inTransaction, pastEnvelope
  <2>4. /\ c.pc = "upsert" /\ c.row = call[q].row /\ c.now = call[q].now
        /\ c.billing = call[q].billing /\ c.checked = call[q].checked
    BY <1>1 DEF ActiveCall
  <2> HIDE DEF c
  <2>5. CallOK(c)
    BY <1>2, <2>2, <2>4 DEF CallOK, inTransaction, pastEnvelope, pastBilling, pastAgent
  <2>6. \A o \in Calls \ {q} : ~Conflict(c, call[o])
    BY <1>2, <2>2, <2>4 DEF Exclusive, Conflict, pastEnvelope, pastBilling, pastAgent
  <2> QED
    BY <2>2, <2>3, <2>5, <2>6, ActiveIsCall, CallStep DEF onlyCall
<1>4. CASE ensureProjectAgent(q)
  <2> DEFINE k == (call[q].known \/ call[q].agent \notin agents)
             c == [call[q] EXCEPT !.pc = "choose", !.locksAgent = k]
  <2>1. k \in BOOLEAN /\ (call[q].known => k)
    OBVIOUS
  <2>2. call' = [call EXCEPT ![q] = c] /\ onlyCall /\ call[q].pc = "upsert" /\ ~agentLocked(q)
    BY <1>1, <1>4 DEF ensureProjectAgent
  <2> HIDE DEF k
  <2>3. c \in ActiveCall
    BY <1>1, <2>1 DEF ActiveCall, inTransaction, pastEnvelope
  <2>4. /\ c.pc = "choose" /\ c.row = call[q].row /\ c.now = call[q].now
        /\ c.billing = call[q].billing /\ c.checked = call[q].checked
        /\ c.agent = call[q].agent
        /\ c.known = call[q].known /\ c.locksAgent = k
    BY <1>1 DEF ActiveCall
  <2> HIDE DEF c
  <2>5. CallOK(c)
    BY <1>2, <2>1, <2>2, <2>4 DEF CallOK, inTransaction, pastEnvelope, pastBilling, pastAgent
  <2>6. \A o \in Calls \ {q} : ~Conflict(c, call[o])
    BY <1>2, <2>2, <2>4 DEF Exclusive, Conflict, pastEnvelope, pastBilling, pastAgent, agentLocked
  <2> QED
    BY <2>2, <2>3, <2>5, <2>6, ActiveIsCall, CallStep DEF onlyCall
<1> QED
  BY <1>3, <1>4

LEMMA RewardOfPrize ==
    \A p \in Prizes \cup {NoPrize} :
        rewardOf(p) \in Nat /\ (rewardOf(p) > 0 <=> p # NoPrize)
  BY TenantRewardsAssumption DEF rewardOf, Prizes

(* What a call decides when it selects a prize makes it ready to be settled. *)
LEMMA SelectedIsReady ==
    ASSUME RewardsInv, NEW q \in Calls, call[q].pc = "choose", earlierRecords(q) = {},
           call[q] \in ActiveCall, CallOK(call[q]),
           NEW affordable \in Prizes \cup {NoPrize},
           NEW decision, NEW candidate, NEW throttled, NEW prize, NEW c \in ActiveCall,
           decision = IF call[q].preflight = "allow"
                      THEN evaluateRewardEnvelopeDecision(call[q].row, rewardOf(affordable))
                      ELSE call[q].preflight,
           decision # "reject",
           candidate = IF decision = "mute" THEN NoPrize ELSE affordable,
           throttled = hardCapHit(q, rewardOf(candidate)),
           prize = IF throttled THEN NoPrize ELSE candidate,
           c.prize = prize, c.throttled = throttled,
           c.row = call[q].row, c.billing = call[q].billing, c.spent = call[q].spent,
           c.agent = call[q].agent, c.player = call[q].player, c.key = call[q].key,
           c.known = call[q].known
    PROVE  ReadyToSettle(c)
<1> DEFINE row == call[q].row
<1>1. row \in EnvelopeRow /\ row.consumed \in Nat /\ row.consumed <= BudgetCap /\ BudgetCap \in Nat
  BY TenantRewardsAssumption DEF ActiveCall, EnvelopeRow
<1>2. row.strategy = envelope.strategy
  <2>1. envelope \in EnvelopeRow /\ call[q].now \in 0..MaxWindows
    BY DEF RewardsInv, RewardTypes, ActiveCall
  <2>2. row = normalizeRewardEnvelopeState(envelope, call[q].now)
    BY DEF CallOK, pastEnvelope
  <2> QED
    BY <2>1, <2>2, NormalizedRow
<1>3. candidate \in {affordable, NoPrize} /\ prize \in {candidate, NoPrize}
  OBVIOUS
<1>4. rewardOf(affordable) \in Nat /\ rewardOf(NoPrize) = 0
  BY RewardOfPrize DEF rewardOf
<1>5. envelope.strategy # "none" => row.consumed + rewardOf(prize) <= BudgetCap
  <2> SUFFICES ASSUME envelope.strategy # "none"
               PROVE  row.consumed + rewardOf(prize) <= BudgetCap
    OBVIOUS
  <2>1. CASE prize = NoPrize
    BY <2>1, <1>1, <1>4
  <2>2. CASE prize # NoPrize
    <3>1. prize = affordable /\ decision # "mute"
      BY <2>2
    <3>2. call[q].preflight = "allow"
      BY <3>1 DEF ActiveCall
    <3>3. row.strategy \in {"mute", "reject"}
      BY <1>1, <1>2 DEF EnvelopeRow, Strategies
    <3>4. ~resolveRewardEnvelopeTrigger(row, rewardOf(affordable))
      BY <3>1, <3>2, <3>3 DEF evaluateRewardEnvelopeDecision
    <3>5. ~(row.consumed + rewardOf(affordable) > BudgetCap)
      BY <3>4 DEF resolveRewardEnvelopeTrigger
    <3> QED
      BY <3>1, <3>5, <1>1, <1>4
  <2> QED
    BY <2>1, <2>2
<1>6. throttled => call[q].billing.hardCap # 0
  BY DEF hardCapHit
<1>7. (prize # NoPrize /\ call[q].billing.hardCap # 0) =>
        ~call[q].billing.reached /\ call[q].spent + PayoutFee <= call[q].billing.hardCap
  <2> SUFFICES ASSUME prize # NoPrize, call[q].billing.hardCap # 0
               PROVE  ~call[q].billing.reached /\ call[q].spent + PayoutFee <= call[q].billing.hardCap
    OBVIOUS
  <2>1. ~hardCapHit(q, rewardOf(candidate)) /\ candidate = affordable /\ affordable # NoPrize
    OBVIOUS
  <2>2. decisionFee(rewardOf(candidate)) = PayoutFee
    BY <2>1, RewardOfPrize DEF decisionFee
  <2>3. ~call[q].billing.reached /\ ~(call[q].spent + PayoutFee > call[q].billing.hardCap)
    BY <2>1, <2>2 DEF hardCapHit
  <2>4. call[q].spent \in Nat /\ PayoutFee \in Nat /\ call[q].billing.hardCap \in Nat
    BY TenantRewardsAssumption DEF ActiveCall, BillingRow
  <2> QED
    BY <2>3, <2>4
<1>8. (call[q].known /\ call[q].key # NoKey) =>
        \A i \in DOMAIN drawRecords : ~sameRequest(drawRecords[i], call[q])
  BY DEF earlierRecords, sameRequest
<1> QED
  BY <1>5, <1>6, <1>7, <1>8 DEF ReadyToSettle, sameRequest

LEMMA SelectStep ==
    ASSUME RewardsInv, NEW q \in Calls, selectReward(q)
    PROVE  RewardsInv'
<1>1. /\ call[q].pc = "choose" /\ earlierRecords(q) = {}
      /\ call[q] \in ActiveCall /\ call \in [Calls -> CallType]
      /\ CallOK(call[q]) /\ Exclusive
  BY ActiveIsCall DEF RewardsInv, RewardTypes, selectReward, inTransaction, pastEnvelope
<1>2. PICK selected \in availablePrizes(q) \cup {NoPrize} :
        LET affordable == IF rewardOf(selected) <= call[q].pool THEN selected ELSE NoPrize
            decision == IF call[q].preflight = "allow"
                        THEN evaluateRewardEnvelopeDecision(call[q].row, rewardOf(affordable))
                        ELSE call[q].preflight
            candidate == IF decision = "mute" THEN NoPrize ELSE affordable
            throttled == hardCapHit(q, rewardOf(candidate))
        IN  \/ decision = "reject" /\ fails(q)
            \/ /\ decision # "reject"
               /\ call' = [call EXCEPT ![q].pc = "settle", ![q].throttled = throttled,
                                       ![q].prize = IF throttled THEN NoPrize ELSE candidate]
               /\ onlyCall
  BY Zenon DEF selectReward
<1> DEFINE affordable == IF rewardOf(selected) <= call[q].pool THEN selected ELSE NoPrize
           decision == IF call[q].preflight = "allow"
                       THEN evaluateRewardEnvelopeDecision(call[q].row, rewardOf(affordable))
                       ELSE call[q].preflight
           candidate == IF decision = "mute" THEN NoPrize ELSE affordable
           throttled == hardCapHit(q, rewardOf(candidate))
           prize == IF throttled THEN NoPrize ELSE candidate
           c == [call[q] EXCEPT !.pc = "settle", !.throttled = throttled, !.prize = prize]
<1>3. affordable \in Prizes \cup {NoPrize}
  BY DEF availablePrizes, Prizes
<1>4. prize \in Prizes \cup {NoPrize} /\ throttled \in BOOLEAN
  BY <1>3 DEF hardCapHit
<1>5. CASE fails(q)
  BY <1>5, FailsStep
<1>6. CASE /\ decision # "reject"
           /\ call' = [call EXCEPT ![q].pc = "settle", ![q].throttled = throttled,
                                       ![q].prize = IF throttled THEN NoPrize ELSE candidate]
           /\ onlyCall
  <2>1. call' = [call EXCEPT ![q] = c]
    BY <1>6, <1>1
  <2>2. /\ decision = IF call[q].preflight = "allow"
                      THEN evaluateRewardEnvelopeDecision(call[q].row, rewardOf(affordable))
                      ELSE call[q].preflight
        /\ candidate = IF decision = "mute" THEN NoPrize ELSE affordable
        /\ throttled = hardCapHit(q, rewardOf(candidate))
        /\ prize = IF throttled THEN NoPrize ELSE candidate
    OBVIOUS
  <2> HIDE DEF affordable, decision, candidate, throttled, prize
  <2>3. c \in ActiveCall
    BY <1>1, <1>4 DEF ActiveCall, inTransaction, pastEnvelope
  <2>4. /\ c.pc = "settle" /\ c.prize = prize /\ c.throttled = throttled
        /\ c.row = call[q].row /\ c.now = call[q].now
        /\ c.billing = call[q].billing /\ c.spent = call[q].spent
        /\ c.checked = call[q].checked
        /\ c.agent = call[q].agent /\ c.player = call[q].player /\ c.key = call[q].key
        /\ c.known = call[q].known /\ c.locksAgent = call[q].locksAgent
    BY <1>1 DEF ActiveCall
  <2> HIDE DEF c
  <2>5. ReadyToSettle(c)
    BY <1>1, <1>3, <1>6, <2>2, <2>3, <2>4, SelectedIsReady
  <2>6. CallOK(c)
    BY <1>1, <2>4, <2>5 DEF CallOK, inTransaction, pastEnvelope, pastBilling, pastAgent
  <2>7. \A o \in Calls \ {q} : ~Conflict(c, call[o])
    BY <1>1, <2>4 DEF Exclusive, Conflict, pastEnvelope, pastBilling, pastAgent
  <2> QED
    BY <1>6, <2>1, <2>3, <2>6, <2>7, ActiveIsCall, CallStep DEF onlyCall
<1> QED
  BY <1>2, <1>5, <1>6

-----------------------------------------------------------------------------
(* The settlement, which writes every table *)

bookedFor(q) ==
    [agent |-> call[q].agent, player |-> call[q].player, key |-> call[q].key,
     known |-> call[q].known, reward |-> rewardOf(settled(q)), window |-> call[q].now]

(* What a settlement does to the tables, as far as the invariant goes. *)
SettleEffects(q) ==
    /\ call[q] \in ActiveCall /\ call[q].pc = "settle" /\ ReadyToSettle(call[q])
    /\ settled(q) \in Prizes \cup {NoPrize} /\ settled(q) \in {call[q].prize, NoPrize}
    /\ rewardOf(settled(q)) \in Nat
    /\ envelope'.strategy = envelope.strategy
    /\ envelope.strategy = "none" => envelope' = envelope
    /\ envelope.strategy # "none" =>
            /\ call[q].row.consumed + rewardOf(settled(q)) <= BudgetCap
            /\ envelope'.window = call[q].now
            /\ envelope'.consumed = call[q].row.consumed + rewardOf(settled(q))
    /\ envelope' \in EnvelopeRow
    /\ billing' \in BillingRow /\ billing'.hardCap = billing.hardCap
    /\ ~call[q].throttled => billing' = billing
    /\ bookedFor(q) \in RecordRow
    /\ drawRecords' = Append(drawRecords, bookedFor(q))
    /\ call'[q] \in [pc : {"usage"}, fee : Nat]
    /\ \A o \in Calls \ {q} : call'[o] = call[o]
    /\ call' \in [Calls -> CallType]
    /\ UNCHANGED <<usage, window, made, clerk>>

LEMMA SettleHasEffects ==
    ASSUME RewardsInv, NEW q \in Calls, settleReward(q)
    PROVE  SettleEffects(q)
<1> DEFINE c == call[q]
           p == settled(q)
           reward == rewardOf(p)
<1>1. /\ c.pc = "settle" /\ c \in ActiveCall /\ call \in [Calls -> CallType]
      /\ CallOK(c) /\ ReadyToSettle(c)
      /\ envelope \in EnvelopeRow /\ billing \in BillingRow /\ drawRecords \in Seq(RecordRow)
  BY ActiveIsCall DEF RewardsInv, RewardTypes, settleReward, inTransaction, pastEnvelope, CallOK
<1>2. p \in Prizes \cup {NoPrize} /\ p \in {c.prize, NoPrize}
  BY <1>1 DEF settled, ActiveCall
<1>3. reward \in Nat /\ rewardOf(c.prize) \in Nat /\ reward <= rewardOf(c.prize)
  <2>1. c.prize \in Prizes \cup {NoPrize}
    BY <1>1 DEF ActiveCall
  <2>2. rewardOf(NoPrize) = 0
    BY DEF rewardOf
  <2> HIDE DEF p
  <2> QED
    BY <1>2, <2>1, <2>2, RewardOfPrize
<1>4. c.row \in EnvelopeRow /\ c.row.consumed \in Nat /\ c.row.count \in Nat /\ BudgetCap \in Nat
  <2>1. c.row \in EnvelopeRow
    BY <1>1 DEF ActiveCall
  <2>2. BudgetCap \in Nat
    BY TenantRewardsAssumption
  <2> HIDE DEF c
  <2> QED
    BY <2>1, <2>2 DEF EnvelopeRow
<1>5. c.row.strategy = envelope.strategy /\ c.row.window = c.now
  <2>1. c.now \in 0..MaxWindows
    BY <1>1 DEF ActiveCall
  <2>2. c.row = normalizeRewardEnvelopeState(envelope, c.now)
    BY <1>1 DEF CallOK, pastEnvelope
  <2> QED
    BY <1>1, <2>1, <2>2, NormalizedRow
<1>6. envelope.strategy # "none" => c.row.consumed + reward <= BudgetCap
  <2>1. envelope.strategy # "none" => c.row.consumed + rewardOf(c.prize) <= BudgetCap
    BY <1>1 DEF ReadyToSettle
  <2> HIDE DEF c, reward
  <2> QED
    BY <1>3, <1>4, <2>1
<1>7. envelope.strategy = "none" => envelope' = envelope
  BY DEF settleReward
<1>8. envelope.strategy # "none" =>
        envelope' = [c.row EXCEPT !.consumed = c.row.consumed + reward, !.count = c.row.count + 1]
  BY DEF settleReward, consumeRewardEnvelopeStates
<1>9. /\ envelope' \in EnvelopeRow /\ envelope'.strategy = envelope.strategy
      /\ envelope.strategy # "none" =>
            envelope'.window = c.now /\ envelope'.consumed = c.row.consumed + reward
  <2>1. CASE envelope.strategy = "none"
    BY <1>1, <1>7, <2>1
  <2>2. CASE envelope.strategy # "none"
    <3>1. c.row.consumed + reward \in 0..BudgetCap /\ c.row.count + 1 \in Nat
      <4> HIDE DEF c, reward
      <4> QED
        BY <1>3, <1>4, <1>6, <2>2
    <3> DEFINE n == c.row.consumed + reward
               m == c.row.count + 1
               row == c.row
    <3>2. envelope' = [row EXCEPT !.consumed = n, !.count = m]
      BY <1>8, <2>2
    <3>3. n \in 0..BudgetCap /\ m \in Nat /\ row \in EnvelopeRow
      BY <3>1, <1>4
    <3> HIDE DEF n, m, row
    <3>4. [row EXCEPT !.consumed = n, !.count = m] \in EnvelopeRow
      BY <3>3 DEF EnvelopeRow
    <3>5. /\ [row EXCEPT !.consumed = n, !.count = m].strategy = row.strategy
          /\ [row EXCEPT !.consumed = n, !.count = m].window = row.window
          /\ [row EXCEPT !.consumed = n, !.count = m].consumed = n
      BY <3>3 DEF EnvelopeRow
    <3> QED
      BY <3>2, <3>4, <3>5, <1>5 DEF row, n
  <2> QED
    BY <2>1, <2>2
<1>10. /\ billing' \in BillingRow /\ billing'.hardCap = billing.hardCap
       /\ ~c.throttled => billing' = billing
  <2>1. billing' = IF c.throttled THEN [billing EXCEPT !.reached = TRUE] ELSE billing
    BY DEF settleReward
  <2> HIDE DEF c
  <2> QED
    BY <1>1, <2>1 DEF BillingRow
<1>11. bookedFor(q) \in RecordRow
  BY <1>1, <1>3 DEF ActiveCall, RecordRow, bookedFor
<1>12. drawRecords' = Append(drawRecords, bookedFor(q))
  BY DEF settleReward, bookedFor
<1>13. (IF c.throttled THEN 0 ELSE decisionFee(reward)) \in Nat
  BY TenantRewardsAssumption DEF decisionFee
<1>14. call' = [call EXCEPT ![q] = [pc |-> "usage",
                            fee |-> IF c.throttled THEN 0 ELSE decisionFee(reward)]]
  BY DEF settleReward
<1>15. /\ call'[q] \in [pc : {"usage"}, fee : Nat]
       /\ \A o \in Calls \ {q} : call'[o] = call[o]
  BY <1>1, <1>13, <1>14
<1>16. call' \in [Calls -> CallType]
  <2>1. [pc |-> "usage", fee |-> IF c.throttled THEN 0 ELSE decisionFee(reward)] \in CallType
    BY <1>13 DEF CallType
  <2> QED
    BY <1>1, <1>14, <2>1
<1>17. UNCHANGED <<usage, window, made, clerk>>
  BY DEF settleReward
<1> QED
  BY <1>1, <1>2, <1>3, <1>6, <1>7, <1>9, <1>10, <1>11, <1>12, <1>15, <1>16, <1>17
     DEF SettleEffects

LEMMA SettleTypes ==
    ASSUME RewardsInv, NEW q \in Calls, settleReward(q), SettleEffects(q)
    PROVE  RewardTypes'
<1> DEFINE p == settled(q)
           reward == rewardOf(p)
<1>1. RewardTypes
  BY DEF RewardsInv
<1>2. drawRecords' \in Seq(RecordRow)
  <2>1. drawRecords' = Append(drawRecords, bookedFor(q)) /\ bookedFor(q) \in RecordRow
    BY DEF SettleEffects
  <2> QED
    BY <1>1, <2>1 DEF RewardTypes
<1>3. players' \in [Players -> Int]
  <2>1. players' = [players EXCEPT ![call[q].player] = players[call[q].player] - DrawCost + reward]
    BY DEF settleReward
  <2>2. reward \in Nat /\ DrawCost \in Nat /\ call[q].player \in Players
    BY TenantRewardsAssumption DEF SettleEffects, ActiveCall
  <2> HIDE DEF reward
  <2>3. players[call[q].player] - DrawCost + reward \in Int
    BY <1>1, <2>2 DEF RewardTypes
  <2> QED
    BY <1>1, <2>1, <2>3 DEF RewardTypes
<1>4. project' \in [status : {"active", "suspended"}, pool : Nat, stock : [Prizes -> Nat]]
  <2> DEFINE stock == [x \in DOMAIN project.stock |->
                            IF x = p THEN project.stock[x] - 1 ELSE project.stock[x]]
             pool == project.pool + DrawCost - reward
  <2>1. project' = [project EXCEPT !.pool = pool, !.stock = stock]
    BY DEF settleReward
  <2>2. project \in [status : {"active", "suspended"}, pool : Nat, stock : [Prizes -> Nat]]
    BY <1>1 DEF RewardTypes
  <2>3. p # NoPrize => p \in Prizes /\ project.stock[p] # 0 /\ ~(project.pool < TenantPrizes[p])
    BY DEF SettleEffects, settled
  <2>4. reward \in Nat /\ DrawCost \in Nat /\ project.pool \in Nat /\ reward <= project.pool
    <3>1. reward \in Nat /\ DrawCost \in Nat /\ project.pool \in Nat
      BY <2>2, TenantRewardsAssumption DEF SettleEffects
    <3>2. p # NoPrize => reward = TenantPrizes[p]
      BY DEF rewardOf
    <3>3. p = NoPrize => reward = 0
      BY DEF rewardOf
    <3> HIDE DEF p, reward
    <3> QED
      BY <2>3, <3>1, <3>2, <3>3
  <2>5. pool \in Nat
    <3> HIDE DEF reward
    <3> QED
      BY <2>4
  <2>6. stock \in [Prizes -> Nat]
    <3> HIDE DEF p
    <3>1. project.stock \in [Prizes -> Nat]
      BY <2>2
    <3>2. \A x \in Prizes : (IF x = p THEN project.stock[x] - 1 ELSE project.stock[x]) \in Nat
      <4> TAKE x \in Prizes
      <4>1. CASE x = p
        <5>1. x # NoPrize
          BY TenantRewardsAssumption DEF Prizes
        <5>2. project.stock[x] \in Nat /\ project.stock[x] # 0
          BY <3>1, <4>1, <5>1, <2>3
        <5> QED
          BY <4>1, <5>2
      <4>2. CASE x # p
        BY <4>2, <3>1
      <4> QED
        BY <4>1, <4>2
    <3> QED
      BY <3>1, <3>2
  <2> HIDE DEF pool, stock
  <2> QED
    BY <2>1, <2>2, <2>5, <2>6
<1>5. agents' \subseteq Agents
  <2>1. agents' = agents \cup {call[q].agent} /\ call[q].agent \in Agents
    BY DEF settleReward, SettleEffects, ActiveCall
  <2> QED
    BY <1>1, <2>1 DEF RewardTypes
<1>6. envelope' \in EnvelopeRow /\ billing' \in BillingRow /\ call' \in [Calls -> CallType]
      /\ UNCHANGED <<usage, window, clerk>>
  BY DEF SettleEffects
<1> QED
  BY <1>1, <1>2, <1>3, <1>4, <1>5, <1>6 DEF RewardTypes

(* The other calls still hold what they held. *)
LEMMA SettleCalls ==
    ASSUME RewardsInv, NEW q \in Calls, SettleEffects(q)
    PROVE  /\ \A o \in Calls : CallOK(call[o])'
           /\ Exclusive'
<1>1. Exclusive /\ \A o \in Calls : CallOK(call[o])
  BY DEF RewardsInv
<1>2. call'[q].pc = "usage"
  BY DEF SettleEffects
<1>3. CallOK(call[q])'
  BY <1>2 DEF CallOK, inTransaction, pastEnvelope, pastBilling, pastAgent
<1>4. ASSUME NEW o \in Calls \ {q}
      PROVE  CallOK(call[o])'
  <2>1. call'[o] = call[o] /\ CallOK(call[o]) /\ ~Conflict(call[q], call[o])
    BY <1>1 DEF SettleEffects, Exclusive
  <2>2. call[q].pc = "settle" /\ ReadyToSettle(call[q]) /\ CallOK(call[q])
    BY <1>1 DEF SettleEffects
  <2>3. call[o].pc \in pastEnvelope => envelope' = envelope
    BY <2>1, <2>2 DEF Conflict, pastEnvelope, SettleEffects
  <2>4. call[o].pc \in pastBilling /\ call[o].checked => billing' = billing
    <3>1. call[q].throttled => call[q].checked
      BY <2>2 DEF ReadyToSettle, CallOK, inTransaction, pastEnvelope
    <3> QED
      BY <2>1, <2>2, <3>1 DEF Conflict, pastBilling, pastEnvelope, SettleEffects
  <2>5. call[o].pc = "settle" => ReadyToSettle(call[o])'
    <3> SUFFICES ASSUME call[o].pc = "settle"
                 PROVE  ReadyToSettle(call[o])'
      OBVIOUS
    <3>1. ReadyToSettle(call[o])
      BY <2>1 DEF CallOK
    <3>2. envelope' = envelope
      BY <2>3 DEF pastEnvelope
    <3>3. (call[o].known /\ call[o].key # NoKey) =>
            \A i \in DOMAIN drawRecords' : ~sameRequest(drawRecords'[i], call[o])
      <4> SUFFICES ASSUME call[o].known, call[o].key # NoKey, NEW i \in DOMAIN drawRecords',
                          sameRequest(drawRecords'[i], call[o])
                   PROVE  FALSE
        OBVIOUS
      <4>1. drawRecords \in Seq(RecordRow) /\ bookedFor(q) \in RecordRow
            /\ drawRecords' = Append(drawRecords, bookedFor(q))
        BY DEF SettleEffects, RewardsInv, RewardTypes
      <4>2. (i \in DOMAIN drawRecords /\ drawRecords'[i] = drawRecords[i])
                \/ drawRecords'[i] = bookedFor(q)
        BY <4>1
      <4>3. CASE i \in DOMAIN drawRecords /\ drawRecords'[i] = drawRecords[i]
        BY <3>1, <4>3 DEF ReadyToSettle
      <4>4. CASE drawRecords'[i] = bookedFor(q)
        <5>1. call[q].known /\ call[q].agent = call[o].agent
          BY <4>4 DEF sameRequest, bookedFor
        <5>2. call[q].locksAgent /\ call[o].locksAgent
          BY <2>1, <2>2, <5>1 DEF CallOK, pastAgent
        <5> QED
          BY <2>1, <2>2, <5>1, <5>2 DEF Conflict, pastAgent
      <4> QED
        BY <4>2, <4>3, <4>4
    <3> QED
      BY <2>1, <3>1, <3>2, <3>3 DEF ReadyToSettle
  <2> QED
    BY <2>1, <2>3, <2>4, <2>5 DEF CallOK
<1>5. Exclusive'
  <2> SUFFICES ASSUME NEW x \in Calls, NEW o \in Calls, x # o, Conflict(call[x], call[o])'
               PROVE  FALSE
    BY DEF Exclusive
  <2>1. CASE x = q \/ o = q
    BY <1>2, <2>1 DEF Conflict, pastEnvelope, pastBilling, pastAgent
  <2>2. CASE x # q /\ o # q
    <3>1. call'[x] = call[x] /\ call'[o] = call[o] /\ envelope'.strategy = envelope.strategy
      BY <2>2 DEF SettleEffects
    <3> QED
      BY <3>1, <1>1 DEF Exclusive, Conflict
  <2> QED
    BY <2>1, <2>2
<1> QED
  BY <1>3, <1>4, <1>5

LEMMA SettlePaysOnce ==
    ASSUME RewardsInv, NEW q \in Calls, SettleEffects(q)
    PROVE  RetryPaysOnce'
<1>1. drawRecords \in Seq(RecordRow) /\ bookedFor(q) \in RecordRow
      /\ drawRecords' = Append(drawRecords, bookedFor(q)) /\ ReadyToSettle(call[q])
      /\ RetryPaysOnce
  BY DEF SettleEffects, RewardsInv, RewardTypes
<1> DEFINE n == Len(drawRecords) + 1
           r == bookedFor(q)
<1>2. /\ DOMAIN drawRecords' = DOMAIN drawRecords \cup {n}
      /\ n \notin DOMAIN drawRecords
      /\ drawRecords'[n] = r
      /\ \A i \in DOMAIN drawRecords : drawRecords'[i] = drawRecords[i]
  BY <1>1
<1>3. r.known /\ r.key # NoKey =>
        \A i \in DOMAIN drawRecords : ~sameRequest(drawRecords[i], r)
  BY <1>1 DEF ReadyToSettle, sameRequest, bookedFor
<1> HIDE DEF n, r
<1> QED
  BY <1>1, <1>2, <1>3 DEF RetryPaysOnce, sameRequest

(***************************************************************************)
(* The record of a settlement is the only one whose window's sum changes,  *)
(* and in the order of windows its window is the row's or a new one.       *)
(***************************************************************************)
LEMMA SettleWindows ==
    ASSUME RewardsInv, NEW q \in Calls, SettleEffects(q)
    PROVE  WindowsOK'
<1> DEFINE c == call[q]
           reward == rewardOf(settled(q))
           r == bookedFor(q)
           n == Len(drawRecords) + 1
           f == [i \in DOMAIN drawRecords |-> drawRecords[i].reward]
           g == [i \in DOMAIN drawRecords' |-> drawRecords'[i].reward]
           of(w) == {i \in DOMAIN drawRecords : drawRecords[i].window = w}
           ofNow(w) == {i \in DOMAIN drawRecords' : drawRecords'[i].window = w}
<1>1. /\ drawRecords \in Seq(RecordRow) /\ r \in RecordRow
      /\ drawRecords' = Append(drawRecords, r) /\ WindowsOK
      /\ c.row = normalizeRewardEnvelopeState(envelope, c.now)
      /\ c.now \in 0..MaxWindows /\ envelope \in EnvelopeRow
      /\ r.reward = reward /\ r.window = c.now /\ reward \in Nat
      /\ envelope'.strategy = envelope.strategy
  BY DEF SettleEffects, RewardsInv, RewardTypes, CallOK, pastEnvelope, ActiveCall, bookedFor
<1> SUFFICES ASSUME envelope.strategy # "none"
             PROVE  /\ Len(drawRecords') # 0
                    /\ envelope'.window = drawRecords'[Len(drawRecords')].window
                    /\ inOrder' =>
                        /\ windowSum(envelope.window)' = envelope'.consumed
                        /\ \A w \in 0..MaxWindows : windowSum(w)' <= BudgetCap
  BY <1>1 DEF WindowsOK
<1>0. PICK now \in 0..MaxWindows : now = c.now
  BY <1>1
<1>2. /\ envelope'.window = now
      /\ envelope'.consumed = c.row.consumed + reward
      /\ c.row.consumed + reward <= BudgetCap
  BY <1>0 DEF SettleEffects
<1>3. /\ Len(drawRecords) \in Nat /\ n \in Nat \ {0} /\ Len(drawRecords') = n
      /\ DOMAIN drawRecords = 1..Len(drawRecords)
      /\ DOMAIN drawRecords' = DOMAIN drawRecords \cup {n}
      /\ n \notin DOMAIN drawRecords
      /\ drawRecords'[n] = r
      /\ \A i \in DOMAIN drawRecords : drawRecords'[i] = drawRecords[i] /\ i < n
      /\ \A i \in DOMAIN drawRecords : drawRecords[i] \in RecordRow
  BY <1>1
<1>4. \A w : windowSum(w) = SumFunctionOnSet(f, of(w)) /\ windowSum(w)' = SumFunctionOnSet(g, ofNow(w))
  BY DEF windowSum, rewardSum
<1>5. \A w : windowSum(w) \in Int /\ IsFiniteSet(of(w))
  <2> TAKE w
  <2>1. of(w) \subseteq DOMAIN drawRecords
    OBVIOUS
  <2> HIDE DEF of
  <2>2. rewardSum(of(w)) \in Int /\ IsFiniteSet(of(w))
    BY <2>1, RewardsAreNumbers
  <2> QED
    BY <2>2 DEF windowSum, of
<1>6. /\ \A i \in DOMAIN drawRecords : g[i] = f[i] /\ f[i] \in Int
      /\ n \in DOMAIN drawRecords' /\ g[n] = reward
  BY <1>1, <1>3 DEF RecordRow
<1>7. \A w : windowSum(w) = SumFunctionOnSet(g, of(w))
  <2> TAKE w
  <2>1. of(w) \subseteq DOMAIN drawRecords
    OBVIOUS
  <2>2. IsFiniteSet(of(w)) /\ windowSum(w) = SumFunctionOnSet(f, of(w))
    BY <1>4, <1>5
  <2> HIDE DEF f, g, of
  <2>3. \A i \in of(w) : g[i] = f[i] /\ f[i] \in Int
    BY <1>6, <2>1
  <2>4. SumFunctionOnSet(g, of(w)) = SumFunctionOnSet(f, of(w))
    BY <2>2, <2>3, SumOfEqual
  <2> QED
    BY <2>2, <2>4
<1>8. \A w : w # now => windowSum(w)' = windowSum(w)
  <2> TAKE w
  <2> SUFFICES ASSUME w # now PROVE windowSum(w)' = windowSum(w)
    OBVIOUS
  <2>1. ofNow(w) = of(w)
    BY <1>0, <1>1, <1>3
  <2> QED
    BY <2>1, <1>4, <1>7
<1>9. windowSum(now)' = windowSum(now) + reward
  <2>1. ofNow(now) = of(now) \cup {n} /\ n \notin of(now)
    BY <1>0, <1>1, <1>3
  <2>2. \A i \in of(now) \cup {n} : g[i] \in Int
    <3>1. of(now) \subseteq DOMAIN drawRecords /\ reward \in Int
      BY <1>1
    <3> HIDE DEF g, of, n, reward, f
    <3> QED
      BY <1>6, <3>1
  <2>3. IsFiniteSet(of(now)) /\ windowSum(now) = SumFunctionOnSet(g, of(now))
        /\ windowSum(now)' = SumFunctionOnSet(g, ofNow(now)) /\ g[n] = reward
    BY <1>4, <1>5, <1>6, <1>7
  <2> HIDE DEF g, of, ofNow, c, reward, n
  <2>4. SumFunctionOnSet(g, of(now) \cup {n}) = g[n] + SumFunctionOnSet(g, of(now))
    BY <2>1, <2>2, <2>3, SumWith
  <2>5. windowSum(now) \in Int /\ reward \in Int
    BY <1>1, <1>5
  <2> QED
    BY <2>1, <2>3, <2>4, <2>5
<1>10. ASSUME inOrder'
       PROVE  /\ inOrder
              /\ windowSum(now) = c.row.consumed
  <2>1. inOrder
    BY <1>3, <1>10 DEF inOrder
  <2>2. CASE envelope.window = now
    BY <1>0, <1>1, <2>1, <2>2 DEF WindowsOK, normalizeRewardEnvelopeState
  <2>3. CASE envelope.window # now
    <3>1. c.row.consumed = 0
      BY <1>0, <1>1, <2>3 DEF normalizeRewardEnvelopeState, EnvelopeRow
    <3>2. of(now) = {}
      <4> SUFFICES ASSUME NEW i \in DOMAIN drawRecords, drawRecords[i].window = now
                   PROVE  FALSE
        OBVIOUS
      <4>1. Len(drawRecords) # 0 /\ Len(drawRecords) \in DOMAIN drawRecords
        BY <1>3
      <4> DEFINE m == Len(drawRecords)
      <4>2. envelope.window = drawRecords[m].window
        BY <4>1, <1>0, <1>1 DEF WindowsOK
      <4>3. m < n /\ m \in DOMAIN drawRecords' /\ n \in DOMAIN drawRecords'
            /\ drawRecords'[m] = drawRecords[m] /\ drawRecords'[n].window = now
        BY <4>1, <1>0, <1>1, <1>3
      <4>4. drawRecords[m].window <= now
        BY <1>10, <4>3 DEF inOrder
      <4>5. i = m \/ i < m
        BY <1>3
      <4>6. now <= drawRecords[m].window
        BY <4>5, <4>1, <2>1, <4>2, <1>0, <1>1 DEF inOrder
      <4>7. now \in Int /\ drawRecords[m].window \in Int
        <5>1. envelope.window \in 0..MaxWindows
          BY <1>1 DEF EnvelopeRow
        <5> QED
          BY <4>2, <5>1
      <4> QED
        BY <4>2, <4>4, <4>6, <4>7, <2>3
    <3>3. SumFunctionOnSet(f, {}) = 0
      BY SumOfNone
    <3>4. windowSum(now) = SumFunctionOnSet(f, of(now))
      BY <1>4
    <3> HIDE DEF f, of, c
    <3> QED
      BY <2>1, <3>1, <3>2, <3>3, <3>4
  <2> QED
    BY <2>1, <2>2, <2>3
<1>11. Len(drawRecords') # 0 /\ envelope'.window = drawRecords'[Len(drawRecords')].window
  BY <1>0, <1>1, <1>2, <1>3
<1>12. ASSUME inOrder'
       PROVE  /\ windowSum(envelope.window)' = envelope'.consumed
              /\ \A w \in 0..MaxWindows : windowSum(w)' <= BudgetCap
  <2>1. inOrder /\ windowSum(now) = c.row.consumed
    BY <1>10, <1>12
  <2>2. windowSum(now)' = envelope'.consumed /\ windowSum(now)' <= BudgetCap
    BY <1>2, <1>9, <2>1
  <2>3. windowSum(envelope.window)' = envelope'.consumed
    BY <1>2, <2>2 DEF windowSum
  <2>4. \A w \in 0..MaxWindows : windowSum(w) <= BudgetCap
    BY <1>0, <1>1, <2>1 DEF WindowsOK
  <2> QED
    BY <1>8, <2>2, <2>3, <2>4
<1> QED
  BY <1>11, <1>12

LEMMA SettleStep ==
    ASSUME RewardsInv, NEW q \in Calls, settleReward(q)
    PROVE  RewardsInv'
  BY SettleHasEffects, SettleTypes, SettleCalls, SettlePaysOnce, SettleWindows DEF RewardsInv

-----------------------------------------------------------------------------
(* The other steps *)

LEMMA UsageStep ==
    ASSUME RewardsInv, NEW q \in Calls, recordPrizeEngineUsageEvent(q)
    PROVE  RewardsInv'
<1>1. RewardTypes /\ Exclusive /\ RetryPaysOnce /\ WindowsOK
      /\ \A o \in Calls : CallOK(call[o])
  BY DEF RewardsInv
<1>2. call[q].pc = "usage" /\ call \in [Calls -> CallType] /\ usage \in Nat
  BY <1>1 DEF recordPrizeEngineUsageEvent, RewardTypes
<1>3. call[q].fee \in Nat
  BY <1>2 DEF CallType, ActiveCall, AtEase, inTransaction, pastEnvelope
<1>4. usage' \in Nat /\ call' = [call EXCEPT ![q] = AtEase]
      /\ UNCHANGED <<project, players, agents, drawRecords, envelope, billing, window, clerk>>
  BY <1>2, <1>3 DEF recordPrizeEngineUsageEvent
<1>5. AtEase \in CallType /\ AtEase.pc = "idle"
  BY ActiveIsCall
<1>6. call' \in [Calls -> CallType] /\ call'[q] = AtEase
      /\ \A o \in Calls \ {q} : call'[o] = call[o]
  BY <1>2, <1>4, <1>5
<1>7. RewardTypes'
  BY <1>1, <1>4, <1>6 DEF RewardTypes
<1>8. \A o \in Calls : CallOK(call[o])'
  BY <1>1, <1>4, <1>5, <1>6
     DEF CallOK, ReadyToSettle, inTransaction, pastEnvelope, pastBilling, pastAgent
<1>9. Exclusive'
  BY <1>1, <1>4, <1>5, <1>6 DEF Exclusive, Conflict, pastEnvelope, pastBilling, pastAgent
<1>10. RetryPaysOnce'
  BY <1>1, <1>4 DEF RetryPaysOnce
<1>11. WindowsOK'
  BY <1>1, <1>4 DEF WindowsOK, inOrder, windowSum, rewardSum
<1> QED
  BY <1>7, <1>8, <1>9, <1>10, <1>11 DEF RewardsInv

(* Steps beside the calls that leave the records and the envelope alone. *)
LEMMA AsideStep ==
    ASSUME RewardsInv, RewardTypes',
           billing' = billing \/ ~billingLocked,
           UNCHANGED <<drawRecords, envelope, call>>
    PROVE  RewardsInv'
<1>1. Exclusive /\ RetryPaysOnce /\ WindowsOK
      /\ \A o \in Calls : CallOK(call[o])
  BY DEF RewardsInv
<1>2. \A o \in Calls : CallOK(call[o])'
  BY <1>1 DEF CallOK, ReadyToSettle, billingLocked
<1>3. Exclusive' /\ RetryPaysOnce'
  BY <1>1 DEF Exclusive, Conflict, RetryPaysOnce
<1>4. WindowsOK'
  BY <1>1 DEF WindowsOK, inOrder, windowSum, rewardSum
<1> QED
  BY <1>2, <1>3, <1>4 DEF RewardsInv

LEMMA OtherSteps ==
    ASSUME RewardsInv,
           \/ updateSaasProject
           \/ windowEnds
           \/ readsBillingAccount("cycle", hardCapAlertDue)
           \/ readsBillingAccount("portal", FALSE)
           \/ runSaasBillingBudgetAlertCycle
           \/ \E cap \in HardCaps : updateSaasBillingBudgetPolicy(cap)
           \/ UNCHANGED rewardVars
    PROVE  RewardsInv'
<1>1. RewardTypes
  BY DEF RewardsInv
<1>2. CASE updateSaasProject
  <2>1. project' = [project EXCEPT !.status = "suspended"]
        /\ UNCHANGED <<players, agents, drawRecords, envelope, billing, usage, window, call, made, clerk>>
    BY <1>2 DEF updateSaasProject
  <2>2. RewardTypes'
    BY <1>1, <2>1 DEF RewardTypes
  <2> QED
    BY <2>1, <2>2, AsideStep
<1>3. CASE windowEnds
  <2>1. window' = window + 1 /\ window < MaxWindows /\ MaxWindows \in Nat /\ window \in 0..MaxWindows
        /\ UNCHANGED <<project, players, agents, drawRecords, envelope, billing, usage, call, made, clerk>>
    BY <1>1, <1>3, TenantRewardsAssumption DEF windowEnds, RewardTypes
  <2>2. window' \in 0..MaxWindows
    BY <2>1
  <2>3. RewardTypes'
    BY <1>1, <2>1, <2>2 DEF RewardTypes
  <2> QED
    BY <2>1, <2>3, AsideStep
<1>4. ASSUME NEW k \in Clerks, NEW due \in BOOLEAN, readsBillingAccount(k, due)
      PROVE  RewardsInv'
  <2>1. clerk' = [clerk EXCEPT ![k] = [pc |-> "read", billing |-> billing, due |-> due]]
        /\ UNCHANGED <<project, players, agents, drawRecords, envelope, billing, usage, window, call, made>>
    BY <1>4 DEF readsBillingAccount
  <2>2. [pc |-> "read", billing |-> billing, due |-> due] \in ClerkType
    BY <1>1 DEF RewardTypes, ClerkType
  <2>3. RewardTypes'
    BY <1>1, <2>1, <2>2 DEF RewardTypes
  <2> QED
    BY <2>1, <2>3, AsideStep
<1>5. ASSUME NEW k \in Clerks, NEW b \in BillingRow, writesBillingAccount(k, b)
      PROVE  RewardsInv'
  <2>1. /\ clerk' = [clerk EXCEPT ![k] = AtEase] /\ billing' = b /\ ~billingLocked
        /\ UNCHANGED <<project, players, agents, drawRecords, envelope, usage, window, call, made>>
    BY <1>5 DEF writesBillingAccount
  <2>2. RewardTypes'
    BY <1>1, <1>5, <2>1 DEF RewardTypes, ClerkType
  <2> QED
    BY <2>1, <2>2, AsideStep
<1>6. "cycle" \in Clerks /\ "portal" \in Clerks /\ hardCapAlertDue \in BOOLEAN
  BY <1>1 DEF Clerks, hardCapAlertDue, RewardTypes, BillingRow
<1>7. \A k \in Clerks : clerk[k].pc = "read" =>
            clerk[k].billing \in BillingRow /\ clerk[k].due \in BOOLEAN
  BY <1>1 DEF RewardTypes, ClerkType, AtEase
<1>8. CASE runSaasBillingBudgetAlertCycle
  <2> DEFINE b == clerk["cycle"].billing
             a == (b.alerted \/ clerk["cycle"].due)
             nb == [b EXCEPT !.alerted = a]
  <2>1. writesBillingAccount("cycle", nb) /\ clerk["cycle"].pc = "read"
    BY <1>8 DEF runSaasBillingBudgetAlertCycle
  <2>2. b \in BillingRow /\ a \in BOOLEAN
    BY <1>6, <1>7, <2>1
  <2> HIDE DEF a, b
  <2>3. nb \in BillingRow
    BY <2>2 DEF BillingRow
  <2> HIDE DEF nb
  <2> QED
    BY <1>5, <1>6, <2>1, <2>3
<1>9. CASE \E cap \in HardCaps : updateSaasBillingBudgetPolicy(cap)
  <2> PICK cap \in HardCaps : updateSaasBillingBudgetPolicy(cap)
    BY <1>9
  <2> DEFINE b == clerk["portal"].billing
             nb == [b EXCEPT !.hardCap = cap]
  <2>1. writesBillingAccount("portal", nb) /\ clerk["portal"].pc = "read"
    BY DEF updateSaasBillingBudgetPolicy
  <2>2. b \in BillingRow
    BY <1>6, <1>7, <2>1
  <2> HIDE DEF b
  <2>3. nb \in BillingRow
    BY <2>2 DEF BillingRow
  <2> HIDE DEF nb
  <2> QED
    BY <1>5, <1>6, <2>1, <2>3
<1>10. CASE UNCHANGED rewardVars
  <2>1. UNCHANGED <<project, players, agents, drawRecords, envelope, billing, usage, window, call, made, clerk>>
    BY <1>10 DEF rewardVars
  <2>2. RewardTypes'
    BY <1>1, <2>1 DEF RewardTypes
  <2> QED
    BY <2>1, <2>2, AsideStep
<1> QED
  BY <1>2, <1>3, <1>4, <1>6, <1>8, <1>9, <1>10

LEMMA RewardsInitially == TenantRewardsInit => RewardsInv
<1> SUFFICES ASSUME TenantRewardsInit PROVE RewardsInv
  OBVIOUS
<1> USE DEF TenantRewardsInit
<1>1. call = [q \in Calls |-> AtEase] /\ clerk = [c \in Clerks |-> AtEase] /\ drawRecords = <<>>
      /\ AtEase.pc = "idle" /\ AtEase \in CallType /\ AtEase \in ClerkType
  BY ActiveIsCall DEF ClerkType
<1>2. RewardTypes
  <2>1. project \in [status : {"active", "suspended"}, pool : Nat, stock : [Prizes -> Nat]]
    BY TenantRewardsAssumption DEF Prizes
  <2>2. envelope \in EnvelopeRow /\ window \in 0..MaxWindows
    BY TenantRewardsAssumption DEF EnvelopeRow
  <2>3. billing \in BillingRow
    BY DEF BillingRow
  <2>4. players \in [Players -> Int] /\ agents \subseteq Agents /\ usage \in Nat
    OBVIOUS
  <2>5. drawRecords \in Seq(RecordRow)
    BY <1>1
  <2> QED
    BY <1>1, <2>1, <2>2, <2>3, <2>4, <2>5 DEF RewardTypes
<1>3. \A q \in Calls : CallOK(call[q])
  BY <1>1 DEF CallOK, inTransaction, pastEnvelope, pastBilling, pastAgent
<1>4. Exclusive
  BY <1>1 DEF Exclusive, Conflict, pastEnvelope, pastBilling, pastAgent
<1>6. DOMAIN drawRecords = {} /\ Len(drawRecords) = 0
  BY <1>1
<1>7. RetryPaysOnce
  BY <1>6 DEF RetryPaysOnce
<1>8. WindowsOK
  <2>1. \A w : windowSum(w) = 0
    <3> TAKE w
    <3> DEFINE f == [i \in DOMAIN drawRecords |-> drawRecords[i].reward]
               S == {i \in DOMAIN drawRecords : drawRecords[i].window = w}
    <3>1. S = {}
      BY <1>6
    <3>2. windowSum(w) = SumFunctionOnSet(f, S)
      BY DEF windowSum, rewardSum
    <3> HIDE DEF f, S
    <3> QED
      BY <3>1, <3>2, SumOfNone
  <2>2. envelope.window = 0 /\ envelope.consumed = 0 /\ BudgetCap \in Nat
    BY TenantRewardsAssumption
  <2> QED
    BY <1>6, <2>1, <2>2 DEF WindowsOK
<1> QED
  BY <1>2, <1>3, <1>4, <1>7, <1>8 DEF RewardsInv

LEMMA RewardsInvKept == RewardsInv /\ [TenantRewardsNext]_rewardVars => RewardsInv'
<1> SUFFICES ASSUME RewardsInv, [TenantRewardsNext]_rewardVars PROVE RewardsInv'
  OBVIOUS
<1>1. ASSUME NEW q \in Calls,
             \/ loadIdempotentRewardReplay(q) \/ projectNotFound(q) \/ processDies(q)
      PROVE  RewardsInv'
  BY <1>1, FailsStep DEF loadIdempotentRewardReplay, projectNotFound, processDies
<1> QED
  BY <1>1, LoadProjectStep, EnvelopeStep, BillingStep, AgentStep, SelectStep, SettleStep,
     UsageStep, OtherSteps DEF TenantRewardsNext

LEMMA RewardsInvAlways == TenantRewardsSpec => []RewardsInv
  BY RewardsInitially, RewardsInvKept, PTL DEF TenantRewardsSpec

-----------------------------------------------------------------------------
(***************************************************************************)
(* No interleaving of reward calls, failures and changes of the budget     *)
(* policy takes the prize pool or a prize's stock below zero, or the       *)
(* envelope's counter past its budget.                                     *)
(***************************************************************************)
THEOREM TenantRewardsTypeCorrect == TenantRewardsSpec => []TenantRewardsTypeOK
<1>1. RewardsInv => TenantRewardsTypeOK
  BY DEF RewardsInv, RewardTypes, TenantRewardsTypeOK, EnvelopeRow, BillingRow, Prizes
<1> QED
  BY <1>1, RewardsInvAlways, PTL

(***************************************************************************)
(* A repeated call of a known agent is paid once, for any number of        *)
(* concurrent repetitions: the lock of the agent's row that                *)
(* ensureProjectAgent takes orders the search for an earlier record        *)
(* behind the commit that writes it.                                       *)
(***************************************************************************)
THEOREM RetryAlwaysPaysOnce == TenantRewardsSpec => []RetryPaysOnce
<1>1. RewardsInv => RetryPaysOnce
  BY DEF RewardsInv
<1> QED
  BY <1>1, RewardsInvAlways, PTL

(***************************************************************************)
(* The payouts of every window of the reward envelope stay within its      *)
(* budget while calls are booked in the order of their windows, for any    *)
(* prizes and budget: the row's counter is the sum of its window's records *)
(***************************************************************************)
THEOREM WindowBudgetAlwaysKept == TenantRewardsSpec => []WindowBudgetKept
<1>1. RewardsInv => WindowBudgetKept
  BY DEF RewardsInv, WindowsOK, WindowBudgetKept, inOrder, windowSum
<1> QED
  BY <1>1, RewardsInvAlways, PTL

(***************************************************************************)
(* The settlement of a call that looked at the billing account pays a prize*)
(* only under the hard cap in force at that moment, whatever caps are set, *)
(* changed and cleared: the row lock keeps the policy a call decided by.   *)
(***************************************************************************)
THEOREM AlwaysPaidUnderHardCap == TenantRewardsSpec => PaidUnderHardCap
<1>1. ASSUME RewardsInv, NEW q \in Calls,
             settleReward(q), settled(q) # NoPrize, call[q].checked, billing.hardCap # 0
      PROVE  ~billing.reached /\ call[q].spent + PayoutFee <= billing.hardCap
  <2>1. call[q].pc = "settle" /\ CallOK(call[q]) /\ call[q].prize # NoPrize
    BY <1>1 DEF RewardsInv, settleReward, settled
  <2>2. ReadyToSettle(call[q]) /\ call[q].billing = billing
    BY <1>1, <2>1 DEF CallOK, pastEnvelope, pastBilling
  <2> QED
    BY <1>1, <2>1, <2>2 DEF ReadyToSettle
<1>2. RewardsInv /\ [TenantRewardsNext]_rewardVars =>
        [\A q \in Calls :
            (/\ settleReward(q)
             /\ settled(q) # NoPrize
             /\ call[q].checked
             /\ billing.hardCap # 0)
                => ~billing.reached /\ call[q].spent + PayoutFee <= billing.hardCap]_rewardVars
  BY <1>1
<1> QED
  BY <1>2, RewardsInvAlways, PTL DEF TenantRewardsSpec, PaidUnderHardCap
=============================================================================
