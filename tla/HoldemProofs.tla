---------------------------- MODULE HoldemProofs -----------------------------
(***************************************************************************)
(* Theorems about HoldemTable for any numbers of players, seats and chips. *)
(***************************************************************************)
EXTENDS HoldemTable, SumTheorems, TLAPS

-----------------------------------------------------------------------------
(* Shares of an amount *)

LEMMA SeatsAreFinite ==
    /\ SeatCount \in Nat /\ SeatCount > 1 /\ IsFiniteSet(SeatNos) /\ SeatNos \subseteq Nat
    /\ Cardinality(SeatNos) = SeatCount
    /\ \A S \in SUBSET SeatNos :
        IsFiniteSet(S) /\ Cardinality(S) \in Nat /\ (S # {} => Cardinality(S) > 0)
<1>1. SeatCount \in Nat /\ SeatCount > 1
  BY HoldemBlinds
<1>2. PICK k \in Int : k = SeatCount - 1
  BY <1>1
<1>3. IsFiniteSet(0..k) /\ Cardinality(0..k) = IF 0 > k THEN 0 ELSE k - 0 + 1
  BY FS_Interval
<1>4. IsFiniteSet(SeatNos) /\ Cardinality(SeatNos) = SeatCount /\ SeatNos \subseteq Nat
  BY <1>1, <1>2, <1>3 DEF SeatNos
<1>5. ASSUME NEW S \in SUBSET SeatNos
      PROVE  IsFiniteSet(S) /\ Cardinality(S) \in Nat /\ (S # {} => Cardinality(S) > 0)
  <2>1. IsFiniteSet(S)
    BY <1>4, FS_Subset
  <2> QED
    BY <2>1, FS_CardinalityType, FS_EmptySet
<1> QED
  BY <1>1, <1>4, <1>5

\* Every seat has a place of its own round the table.
LEMMA PlacesRoundTheTable ==
    ASSUME NEW e, e.t.dealer \in SeatNos \cup {Nil}, NEW i \in SeatNos
    PROVE  /\ sortSeatIndexesLeftOfDealer(e, i) \in Nat
           /\ \A j \in SeatNos :
                i # j => sortSeatIndexesLeftOfDealer(e, i) # sortSeatIndexesLeftOfDealer(e, j)
<1>1. PICK n \in Nat, d \in Int : n = SeatCount /\ n > 1 /\ d = e.t.dealer /\ d >= -1 /\ d < n
  BY SeatsAreFinite DEF SeatNos, Nil
<1> DEFINE away(k) == k - d + n
<1>2. ASSUME NEW k \in SeatNos
      PROVE  /\ away(k) \in Nat
             /\ \E q \in 0..2, r \in Nat :
                    r = sortSeatIndexesLeftOfDealer(e, k) /\ away(k) = q * n + r
  <2>1. PICK a \in Nat : a = away(k) /\ a <= 2 * n
    BY <1>1 DEF SeatNos
  <2>2. PICK q \in Nat, r \in Nat : q = a \div n /\ r = a % n /\ a = q * n + r
    BY <1>1, Division
  <2>3. q \in 0..2
    <3>1. SUFFICES ASSUME q >= 3 PROVE FALSE
      BY <2>2
    <3>2. q * n >= 3 * n
      BY <1>1, <3>1
    <3> QED
      BY <1>1, <2>1, <2>2, <3>2
  <2>4. r = sortSeatIndexesLeftOfDealer(e, k)
    BY <1>1, <2>1, <2>2 DEF sortSeatIndexesLeftOfDealer
  <2> QED
    BY <2>1, <2>2, <2>3, <2>4
<1>3. ASSUME NEW j \in SeatNos,
             sortSeatIndexesLeftOfDealer(e, i) = sortSeatIndexesLeftOfDealer(e, j)
      PROVE  i = j
  <2>1. PICK p \in 0..2, r \in Nat : r = sortSeatIndexesLeftOfDealer(e, i) /\ away(i) = p * n + r
    BY <1>2
  <2>2. PICK q \in 0..2 : away(j) = q * n + r
    BY <1>2, <1>3, <2>1
  <2>3. i - j \in Int /\ i - j < n /\ j - i < n
    BY <1>1 DEF SeatNos
  <2>4. i - j = p * n - q * n
    BY <1>1, <2>1, <2>2 DEF SeatNos
  <2>5. p = q
    <3>1. \A k \in 0..2 : \/ k = 0 /\ k * n = 0
                          \/ k = 1 /\ k * n = n
                          \/ k = 2 /\ k * n = n + n
      BY <1>1
    <3>2. PICK x \in Int, y \in Int : x = p * n /\ y = q * n
      BY <1>1
    <3>3. /\ (p = 0 /\ x = 0) \/ (p = 1 /\ x = n) \/ (p = 2 /\ x = n + n)
          /\ (q = 0 /\ y = 0) \/ (q = 1 /\ y = n) \/ (q = 2 /\ y = n + n)
      BY <3>1, <3>2
    <3>4. x - y < n /\ y - x < n
      BY <1>1, <2>3, <2>4, <3>2 DEF SeatNos
    <3> QED
      BY <1>1, <3>2, <3>3, <3>4
  <2> QED
    BY <1>1, <2>4, <2>5 DEF SeatNos
<1> QED
  BY <1>2, <1>3

seatShare(e, amount, W) == [i \in SeatNos |-> distributeAmountAcrossSeatIndexes(e, amount, W, i)]

aheadIn(e, W, i) ==
    {j \in W : sortSeatIndexesLeftOfDealer(e, j) < sortSeatIndexesLeftOfDealer(e, i)}

LEMMA AheadInOrder ==
    ASSUME NEW e, e.t.dealer \in SeatNos \cup {Nil}, NEW W \in SUBSET SeatNos
    PROVE  LET rank == [i \in W |-> Cardinality(aheadIn(e, W, i))]
           IN  /\ rank \in [W -> 0..(Cardinality(W) - 1)]
               /\ \A i, j \in W : i # j => rank[i] # rank[j]
<1> DEFINE rank == [i \in W |-> Cardinality(aheadIn(e, W, i))]
           pos(i) == sortSeatIndexesLeftOfDealer(e, i)
<1>1. /\ \A i \in W : pos(i) \in Nat
      /\ \A i, j \in W : i # j => pos(i) # pos(j)
  BY PlacesRoundTheTable
<1>2. \A i \in W : aheadIn(e, W, i) = {j \in W : pos(j) < pos(i)}
  BY DEF aheadIn
<1> HIDE DEF pos
<1>3. IsFiniteSet(W) /\ Cardinality(W) \in Nat
  BY SeatsAreFinite
<1>4. ASSUME NEW i \in W
      PROVE  /\ aheadIn(e, W, i) \in SUBSET W /\ i \notin aheadIn(e, W, i)
             /\ IsFiniteSet(aheadIn(e, W, i)) /\ Cardinality(aheadIn(e, W, i)) \in Nat
             /\ Cardinality(aheadIn(e, W, i)) < Cardinality(W)
  <2>1. aheadIn(e, W, i) \in SUBSET W /\ i \notin aheadIn(e, W, i)
    BY <1>1, <1>2
  <2>2. /\ IsFiniteSet(aheadIn(e, W, i)) /\ Cardinality(aheadIn(e, W, i)) <= Cardinality(W)
        /\ (Cardinality(aheadIn(e, W, i)) = Cardinality(W) => aheadIn(e, W, i) = W)
    BY <1>3, <2>1, FS_Subset
  <2>3. Cardinality(aheadIn(e, W, i)) \in Nat
    BY <2>2, FS_CardinalityType
  <2> QED
    BY <1>3, <2>1, <2>2, <2>3
<1>5. ASSUME NEW i \in W, NEW j \in W, pos(i) < pos(j)
      PROVE  Cardinality(aheadIn(e, W, i)) < Cardinality(aheadIn(e, W, j))
  <2>1. aheadIn(e, W, i) \in SUBSET aheadIn(e, W, j) /\ i \in aheadIn(e, W, j)
    BY <1>1, <1>2, <1>5
  <2>2. /\ Cardinality(aheadIn(e, W, i)) <= Cardinality(aheadIn(e, W, j))
        /\ (Cardinality(aheadIn(e, W, i)) = Cardinality(aheadIn(e, W, j))
                => aheadIn(e, W, i) = aheadIn(e, W, j))
    BY <1>4, <2>1, FS_Subset
  <2> QED
    BY <1>4, <2>1, <2>2
<1>6. ASSUME NEW i \in W, NEW j \in W, i # j PROVE rank[i] # rank[j]
  <2>1. pos(i) < pos(j) \/ pos(j) < pos(i)
    BY <1>1, <1>6
  <2> QED
    BY <1>4, <1>5, <2>1
<1>7. rank \in [W -> 0..(Cardinality(W) - 1)]
  BY <1>3, <1>4
<1> QED
  BY <1>6, <1>7

\* Nothing is lost or added when an amount is shared out, odd cents included.
LEMMA SharesAddUp ==
    ASSUME NEW e, e.t.dealer \in SeatNos \cup {Nil}, NEW amount \in Nat,
           NEW W \in SUBSET SeatNos
    PROVE  /\ \A i \in SeatNos : seatShare(e, amount, W)[i] \in Nat
           /\ \A i \in SeatNos \ W : seatShare(e, amount, W)[i] = 0
           /\ SumFunctionOnSet(seatShare(e, amount, W), SeatNos) = IF W = {} THEN 0 ELSE amount
<1> DEFINE share == seatShare(e, amount, W)
           rank == [i \in W |-> Cardinality(aheadIn(e, W, i))]
           n == Cardinality(W)
<1>0. \A i \in SeatNos :
        share[i] = IF i \notin W THEN 0
                   ELSE (amount \div n) + (IF rank[i] < amount % n THEN 1 ELSE 0)
  BY DEF seatShare, distributeAmountAcrossSeatIndexes, aheadIn
<1>1. CASE W = {}
  <2>1. \A i \in SeatNos : share[i] = 0
    BY <1>0, <1>1
  <2>2. SumFunctionOnSet(share, SeatNos) = 0
    BY <2>1, SeatsAreFinite, SumOfZeros
  <2> QED
    BY <1>1, <2>1, <2>2
<1>2. CASE W # {}
  <2>1. n \in Nat /\ n > 0 /\ IsFiniteSet(W)
    BY <1>2, SeatsAreFinite
  <2>2. PICK q \in Nat, last \in Nat :
            q = amount \div n /\ last = amount % n /\ amount = q * n + last /\ last < n
    BY <2>1, Division
  <2>3. rank \in [W -> 0..(n - 1)] /\ \A i, j \in W : i # j => rank[i] # rank[j]
    BY AheadInOrder
  <2> DEFINE one == [i \in W |-> IF rank[i] < last THEN 1 ELSE 0]
             every == [i \in W |-> q]
             T == {i \in W : rank[i] < last}
  <2>4. Cardinality(T) = last
    <3> HIDE DEF rank
    <3>1. last \in 0..Cardinality(W)
      BY <2>1, <2>2
    <3> QED
      BY <2>1, <2>3, <3>1, RanksBelow
  <2>5. \A i \in W : every[i] = q /\ one[i] \in {0, 1} /\ one[i] = (IF i \in T THEN 1 ELSE 0)
    OBVIOUS
  <2>6. \A i \in W : share[i] = every[i] + one[i]
    BY <1>0, <2>2
  <2>7. \A i \in SeatNos \ W : share[i] = 0
    BY <1>0
  <2>8. T \in SUBSET W
    OBVIOUS
  <2> HIDE DEF rank, one, every, T, n, share
  <2>9. SumFunctionOnSet(every, W) = n * q
    BY <2>1, <2>5, SumOfConstant DEF n
  <2>10. SumFunctionOnSet(one, W) = last
    BY <2>1, <2>4, <2>5, <2>8, SumCounts
  <2>11. \A i \in W : every[i] \in Int /\ one[i] \in Int /\ share[i] \in Nat
    BY <2>5, <2>6
  <2>12. SumFunctionOnSet(share, W) = n * q + last
    <3>1. SumFunctionOnSet(share, W) = SumFunctionOnSet(every, W) + SumFunctionOnSet(one, W)
      BY <2>1, <2>6, <2>11, SumOfSums
    <3> QED
      BY <2>9, <2>10, <3>1
  <2>13. \A i \in SeatNos : share[i] \in Nat
    BY <2>7, <2>11
  <2>14. SumFunctionOnSet(share, SeatNos) = SumFunctionOnSet(share, W)
    <3>1. W \in SUBSET SeatNos /\ IsFiniteSet(SeatNos)
      BY SeatsAreFinite
    <3>2. \A i \in SeatNos : share[i] \in Int
      BY <2>13
    <3> QED
      BY <2>7, <3>1, <3>2, SumOfPart
  <2>15. n * q = q * n
    BY <2>1
  <2>16. SumFunctionOnSet(share, SeatNos) = amount
    BY <2>2, <2>12, <2>14, <2>15
  <2> QED
    BY <1>2, <2>7, <2>13, <2>16 DEF share
<1> QED
  BY <1>1, <1>2

\* Whoever shares in more gets no less.
LEMMA LargerAmountLargerShare ==
    ASSUME NEW e, e.t.dealer \in SeatNos \cup {Nil}, NEW W \in SUBSET SeatNos,
           NEW a \in Nat, NEW b \in Nat, a <= b, NEW i \in SeatNos
    PROVE  seatShare(e, a, W)[i] <= seatShare(e, b, W)[i]
<1> DEFINE rank == [j \in W |-> Cardinality(aheadIn(e, W, j))]
           n == Cardinality(W)
<1>1. \A c \in {a, b} :
        seatShare(e, c, W)[i] = IF i \notin W THEN 0
                                ELSE (c \div n) + (IF rank[i] < c % n THEN 1 ELSE 0)
  BY DEF seatShare, distributeAmountAcrossSeatIndexes, aheadIn
<1>2. CASE i \notin W
  BY <1>1, <1>2
<1>3. CASE i \in W
  <2>1. n \in Nat /\ n > 0
    BY <1>3, SeatsAreFinite
  <2>2. PICK p \in Nat, r \in Nat : p = a \div n /\ r = a % n /\ a = p * n + r /\ r < n
    BY <2>1, Division
  <2>3. PICK q \in Nat, s \in Nat : q = b \div n /\ s = b % n /\ b = q * n + s /\ s < n
    BY <2>1, Division
  <2>4. PICK k \in Nat : k = rank[i]
    <3>1. rank \in [W -> 0..(n - 1)]
      BY AheadInOrder
    <3> HIDE DEF rank
    <3>2. rank[i] \in 0..(n - 1)
      BY <1>3, <3>1
    <3> QED
      BY <2>1, <3>2
  <2> HIDE DEF rank, n
  <2>5. p <= q
    <3>1. SUFFICES ASSUME p >= q + 1 PROVE FALSE
      BY <2>2, <2>3
    <3>2. p * n >= (q + 1) * n /\ (q + 1) * n = q * n + n
      BY <2>1, <3>1
    <3> QED
      BY <2>1, <2>2, <2>3, <3>2
  <2>6. p = q => r <= s
    BY <2>1, <2>2, <2>3
  <2>7. /\ seatShare(e, a, W)[i] = p + (IF k < r THEN 1 ELSE 0)
        /\ seatShare(e, b, W)[i] = q + (IF k < s THEN 1 ELSE 0)
    BY <1>1, <1>3, <2>2, <2>3, <2>4
  <2> QED
    BY <2>5, <2>6, <2>7
<1> QED
  BY <1>2, <1>3

-----------------------------------------------------------------------------
(* Pots *)

\* The levels below an amount, and the steps from one to the next, add up to it.
LEMMA StepsAddUp ==
    ASSUME NEW C \in SUBSET Nat, IsFiniteSet(C), 0 \notin C,
           NEW t \in C \cup {0}, NEW k \in C \cup {0}
    PROVE  SumFunctionOnSet([l \in upTo(C, k) |->
                                IF t >= l THEN l - Max({0} \cup under(C, l)) ELSE 0], upTo(C, k))
             = IF t <= k THEN t ELSE k
<1> DEFINE m == IF t <= k THEN t ELSE k
           D == upTo(C, m)
           f == [l \in upTo(C, k) |-> IF t >= l THEN l - Max({0} \cup under(C, l)) ELSE 0]
           h == [s \in SUBSET D |-> Max({0} \cup s)]
<1>1. m \in C \cup {0} /\ m \in Nat /\ m <= t /\ m <= k /\ (m = t \/ m = k)
  OBVIOUS
<1> HIDE DEF m
<1>2. \A s \in SUBSET C : IsFiniteSet(s) /\ \A x \in s : x \in Nat
  BY FS_Subset
<1>3. D \in SUBSET upTo(C, k) /\ IsFiniteSet(upTo(C, k)) /\ IsFiniteSet(D) /\ D \in SUBSET C
  <2>1. \A x \in C : x \in Nat /\ (x <= m => x <= k)
    BY <1>1
  <2>2. D \in SUBSET upTo(C, k) /\ upTo(C, k) \in SUBSET C /\ D \in SUBSET C
    BY <2>1 DEF upTo
  <2> QED
    BY <2>2, FS_Subset
<1>4. ASSUME NEW l \in C
      PROVE  Max({0} \cup under(C, l)) \in Nat /\ Max({0} \cup under(C, l)) < l
  <2>1. under(C, l) \in SUBSET C /\ \A x \in under(C, l) : x < l
    BY LevelMembers
  <2>2. l \in Nat /\ l > 0
    OBVIOUS
  <2> DEFINE S == under(C, l)
  <2>3. IsFiniteSet(S) /\ (\A x \in S : x \in Nat) /\ (\A x \in S : x < l)
    BY <1>2, <2>1
  <2> HIDE DEF S
  <2>4. Max({0} \cup S) \in Nat /\ (Max({0} \cup S) \in S \/ Max({0} \cup S) = 0)
    BY <2>3, GreatestOrZero
  <2>5. Max({0} \cup S) \in Nat /\ Max({0} \cup S) < l
    BY <2>2, <2>3, <2>4
  <2> QED
    BY <2>5 DEF S
<1>5. \A l \in upTo(C, k) : f[l] \in Int /\ (l \notin D => f[l] = 0)
  <2> SUFFICES ASSUME NEW l \in upTo(C, k)
               PROVE  f[l] \in Int /\ (l \notin D => f[l] = 0)
    OBVIOUS
  <2>1. PICK a \in Nat : a = Max({0} \cup under(C, l))
    <3>1. l \in C
      BY LevelMembers
    <3> QED
      BY <1>4, <3>1
  <2>2. f[l] = IF t >= l THEN l - a ELSE 0
    BY <2>1
  <2>3. l \in Nat /\ l <= k /\ (l \notin D => ~(l <= m))
    BY LevelMembers
  <2> HIDE DEF f, D
  <2> QED
    BY <1>1, <2>1, <2>2, <2>3
<1>6. \A l \in D : f[l] = l - Max({0} \cup under(C, l)) /\ f[l] \in Int
  BY <1>1, <1>3, <1>5 DEF upTo
<1>7. SumFunctionOnSet(f, upTo(C, k)) = SumFunctionOnSet(f, D)
  <2> DEFINE U == upTo(C, k)
  <2>1. IsFiniteSet(U) /\ D \in SUBSET U
    BY <1>3
  <2>2. (\A l \in U : f[l] \in Int) /\ (\A l \in U \ D : f[l] = 0)
    BY <1>5
  <2> HIDE DEF D, f, U
  <2>3. SumFunctionOnSet(f, U) = SumFunctionOnSet(f, D)
    BY <2>1, <2>2, SumOfPart
  <2> QED
    BY <2>3 DEF U
<1>8. GrowsByLevels(h, f, D)
  <2>1. h[{}] = 0
    <3>1. Max({0} \cup {}) = 0
      BY FS_EmptySet, GreatestOrZero
    <3> QED
      BY <3>1
  <2>2. ASSUME NEW l \in D
        PROVE  h[upTo(D, l)] = f[l] + h[under(D, l)]
    <3>1. upTo(D, l) \in SUBSET D /\ under(D, l) \in SUBSET D /\ under(D, l) = under(C, l)
      <4>1. l \in Nat /\ l <= m /\ \A x \in C : x < l => x <= m
        BY <1>1 DEF upTo
      <4> QED
        BY <1>1, <4>1 DEF upTo, under
    <3>2. Max({0} \cup upTo(D, l)) = l
      <4>1. upTo(D, l) \in SUBSET C
        BY <1>3, <3>1
      <4>2. l \in Nat /\ l \in upTo(D, l) /\ \A x \in upTo(D, l) : x <= l
        <5>1. l \in C
          BY <1>3
        <5>2. l \in Nat /\ l <= l
          <6> HIDE DEF D
          <6> QED
            BY <5>1
        <5> QED
          BY <5>2, LevelMembers
      <4> QED
        BY <1>2, <4>1, <4>2, GreatestOrZero
    <3>3. h[upTo(D, l)] = l /\ h[under(D, l)] = Max({0} \cup under(C, l))
      BY <3>1, <3>2
    <3>4. l \in Nat /\ Max({0} \cup under(C, l)) \in Nat
      BY <1>3, <1>4
    <3> HIDE DEF h, f
    <3> QED
      BY <1>6, <3>3, <3>4
  <2>3. D \subseteq Nat
    BY <1>3
  <2> HIDE DEF D, h, f
  <2> QED
    BY <2>1, <2>2, <2>3 DEF GrowsByLevels
<1>9. h[D] = m
  <2>1. (m \in D \/ m = 0) /\ \A x \in D : x <= m
    <3>1. m <= m
      BY <1>1
    <3> QED
      BY <1>1, <3>1, LevelMembers
  <2>2. h[D] = Max({0} \cup D)
    OBVIOUS
  <2> HIDE DEF h, D
  <2> QED
    BY <1>1, <1>2, <1>3, <2>1, <2>2, GreatestOrZero
<1>10. SumFunctionOnSet(f, D) = h[D]
  <2>1. \A l \in D : f[l] \in Int
    BY <1>6
  <2> HIDE DEF D, h, f
  <2> QED
    BY <1>3, <1>8, <2>1, SumByLevels
<1> QED
  BY <1>7, <1>9, <1>10 DEF m

TotalsOK(e) == \A i \in SeatNos : e.s[i].total \in Nat

amountAt(e, l) ==
    (l - Max({0} \cup under(contributed(e), l))) * Cardinality({i \in seated(e) : e.s[i].total >= l})

LEMMA LevelFacts ==
    ASSUME NEW e, TotalsOK(e)
    PROVE  /\ contributed(e) \in SUBSET Nat /\ IsFiniteSet(contributed(e)) /\ 0 \notin contributed(e)
           /\ seated(e) \in SUBSET SeatNos /\ IsFiniteSet(seated(e))
           /\ \A i \in seated(e) : e.s[i].total \in Nat /\ e.s[i].total \in contributed(e) \cup {0}
           /\ \A l \in contributed(e) : \E i \in seated(e) : l = e.s[i].total
<1> DEFINE total == [i \in SeatNos |-> e.s[i].total]
<1>1. seated(e) \in SUBSET SeatNos /\ IsFiniteSet(seated(e))
  BY SeatsAreFinite, FS_Subset DEF seated
<1>2. \A i \in seated(e) : e.s[i].total \in Nat
  BY <1>1 DEF TotalsOK
<1>3. \A l \in contributed(e) : \E i \in seated(e) : l = total[i] /\ l # 0
  BY <1>1 DEF contributed
<1>4. IsFiniteSet(contributed(e))
  <2> HIDE DEF total
  <2> QED
    BY <1>1, <1>3, ImageIsFinite
<1>5. \A i \in seated(e) : e.s[i].total \in contributed(e) \cup {0}
  BY DEF contributed
<1>6. \A l \in contributed(e) : l \in Nat /\ l # 0 /\ \E i \in seated(e) : l = e.s[i].total
  BY <1>1, <1>2, <1>3
<1> QED
  BY <1>1, <1>2, <1>4, <1>5, <1>6

LEMMA StepIsPositive ==
    ASSUME NEW e, TotalsOK(e), NEW l \in contributed(e)
    PROVE  /\ l - Max({0} \cup under(contributed(e), l)) \in Nat
           /\ amountAt(e, l) \in Nat
<1> DEFINE S == under(contributed(e), l)
           involved == {i \in seated(e) : e.s[i].total >= l}
<1>1. l \in Nat /\ l > 0 /\ S \in SUBSET contributed(e) /\ \A x \in S : x < l
  BY LevelFacts, LevelMembers
<1>2. IsFiniteSet(S) /\ \A x \in S : x \in Nat
  BY <1>1, LevelFacts, FS_Subset
<1>3. Cardinality(involved) \in Nat
  BY LevelFacts, FS_Subset, FS_CardinalityType
<1> HIDE DEF S, involved
<1>4. PICK a \in Nat : a = Max({0} \cup S) /\ (a \in S \/ a = 0)
  BY <1>2, GreatestOrZero
<1>5. l - a \in Nat
  BY <1>1, <1>4
<1>6. amountAt(e, l) = (l - a) * Cardinality(involved)
  BY <1>4 DEF amountAt, S, involved
<1>7. amountAt(e, l) \in Nat
  BY <1>3, <1>5, <1>6
<1> QED
  BY <1>4, <1>5, <1>7 DEF S

\* The pots up to a level hold what every seat put in, up to that level.
LEMMA PotsUpTo ==
    ASSUME NEW e, TotalsOK(e), NEW k \in contributed(e) \cup {0}
    PROVE  SumFunctionOnSet([l \in upTo(contributed(e), k) |-> amountAt(e, l)],
                            upTo(contributed(e), k))
             = SumFunctionOnSet([i \in seated(e) |->
                                    IF e.s[i].total <= k THEN e.s[i].total ELSE k], seated(e))
<1> DEFINE C == upTo(contributed(e), k)
           S == seated(e)
           step(l) == l - Max({0} \cup under(contributed(e), l))
           involved(l) == {i \in S : e.s[i].total >= l}
           f == [l \in C |-> [i \in S |-> IF e.s[i].total >= l THEN step(l) ELSE 0]]
           row == [l \in C |-> SumFunctionOnSet(f[l], S)]
           column == [i \in S |-> SumFunctionOnSet([l \in C |-> f[l][i]], C)]
           amount == [l \in C |-> amountAt(e, l)]
           part == [i \in S |-> IF e.s[i].total <= k THEN e.s[i].total ELSE k]
<1>1. C \in SUBSET contributed(e) /\ IsFiniteSet(C) /\ IsFiniteSet(S)
  BY LevelFacts, LevelMembers, FS_Subset
<1>2. \A l \in C : step(l) \in Nat
  BY <1>1, StepIsPositive
<1>3. \A l \in C : \A i \in S : f[l][i] = IF i \in involved(l) THEN step(l) ELSE 0
  OBVIOUS
<1>4. \A l \in C : amount[l] = step(l) * Cardinality(involved(l)) /\ involved(l) \in SUBSET S
  BY DEF amountAt
<1>5. \A i \in S : SumFunctionOnSet([l \in C |-> f[l][i]], C) = part[i]
  <2> SUFFICES ASSUME NEW i \in S
               PROVE  SumFunctionOnSet([l \in C |-> f[l][i]], C) = part[i]
    OBVIOUS
  <2>1. [l \in C |-> f[l][i]] = [l \in C |-> IF e.s[i].total >= l THEN step(l) ELSE 0]
    OBVIOUS
  <2>2. e.s[i].total \in contributed(e) \cup {0}
    BY LevelFacts
  <2>3. SumFunctionOnSet([l \in C |-> IF e.s[i].total >= l THEN step(l) ELSE 0], C)
            = IF e.s[i].total <= k THEN e.s[i].total ELSE k
    BY <2>2, LevelFacts, StepsAddUp
  <2> QED
    BY <2>1, <2>3
<1> HIDE DEF C, S, step, involved, f, amount, part
<1>6. \A l \in C : SumFunctionOnSet(f[l], S) = amount[l]
  <2> SUFFICES ASSUME NEW l \in C PROVE SumFunctionOnSet(f[l], S) = amount[l]
    OBVIOUS
  <2> DEFINE g == f[l]
             T == involved(l)
             c == step(l)
  <2>1. c \in Int /\ T \in SUBSET S /\ \A i \in S : g[i] = IF i \in T THEN c ELSE 0
    BY <1>2, <1>3, <1>4
  <2>2. amount[l] = c * Cardinality(T)
    BY <1>4
  <2>3. SumFunctionOnSet(f[l], S) = SumFunctionOnSet(g, S)
    OBVIOUS
  <2> HIDE DEF g, T, c
  <2>4. \A i \in S : g[i] \in Int
    BY <2>1
  <2>5. IsFiniteSet(T)
    BY <1>1, <2>1, FS_Subset
  <2>6. SumFunctionOnSet(g, S) = SumFunctionOnSet(g, T)
    BY <1>1, <2>1, <2>4, SumOfPart
  <2>7. SumFunctionOnSet(g, T) = Cardinality(T) * c
    BY <2>1, <2>5, SumOfConstant
  <2>8. Cardinality(T) * c = c * Cardinality(T)
    BY <2>1, <2>5, FS_CardinalityType
  <2> QED
    BY <2>2, <2>3, <2>6, <2>7, <2>8
<1>7. \A l \in C : \A i \in S : f[l][i] \in Int
  BY <1>2, <1>3
<1>8. SumFunctionOnSet(row, C) = SumFunctionOnSet(column, S)
  BY <1>1, <1>7, SumsSwap
<1>9. SumFunctionOnSet(row, C) = SumFunctionOnSet(amount, C)
  <2>1. \A l \in C : row[l] = amount[l]
    BY <1>6
  <2> HIDE DEF row
  <2> QED
    BY <1>1, <2>1, SumOfEqual
<1>10. SumFunctionOnSet(column, S) = SumFunctionOnSet(part, S)
  <2>1. \A i \in S : column[i] = part[i]
    BY <1>5
  <2> HIDE DEF column
  <2> QED
    BY <1>1, <2>1, SumOfEqual
<1>11. SumFunctionOnSet(amount, C) = SumFunctionOnSet(part, S)
  BY <1>8, <1>9, <1>10
<1> QED
  BY <1>11 DEF C, S, amount, part

LEMMA PotsAddUp ==
    ASSUME NEW e, TotalsOK(e)
    PROVE  SumFunctionOnSet([l \in contributed(e) |-> amountAt(e, l)], contributed(e))
             = SumFunctionOnSet([i \in seated(e) |-> e.s[i].total], seated(e))
<1> DEFINE C == contributed(e)
           f == [i \in seated(e) |-> e.s[i].total]
<1>1. IsFiniteSet(C) /\ (\A l \in C : l \in Nat) /\ IsFiniteSet(seated(e))
  BY LevelFacts
<1>2. PICK k : k = Max({0} \cup C)
  OBVIOUS
<1>3. k \in Nat /\ (k \in C \/ k = 0) /\ \A l \in C : l <= k
  <2> HIDE DEF C
  <2> QED
    BY <1>1, <1>2, GreatestOrZero
<1>4. upTo(C, k) = C
  <2> HIDE DEF C
  <2>1. \A x : x \in upTo(C, k) <=> x \in C
    BY <1>3, LevelMembers
  <2> QED
    BY <2>1
<1> DEFINE g == [i \in seated(e) |-> IF e.s[i].total <= k THEN e.s[i].total ELSE k]
<1>5. \A i \in seated(e) : f[i] = g[i]
  <2> SUFFICES ASSUME NEW i \in seated(e) PROVE e.s[i].total <= k
    OBVIOUS
  <2>1. e.s[i].total \in Nat /\ (e.s[i].total \in C \/ e.s[i].total = 0)
    BY LevelFacts
  <2> HIDE DEF C
  <2> QED
    BY <1>3, <2>1
<1>6. SumFunctionOnSet(f, seated(e)) = SumFunctionOnSet(g, seated(e))
  <2> HIDE DEF f, g
  <2> QED
    BY <1>1, <1>5, SumOfEqual
<1>7. SumFunctionOnSet([l \in upTo(C, k) |-> amountAt(e, l)], upTo(C, k))
        = SumFunctionOnSet(g, seated(e))
  BY <1>3, PotsUpTo
<1> HIDE DEF C, f, g
<1>8. SumFunctionOnSet([l \in C |-> amountAt(e, l)], C) = SumFunctionOnSet(f, seated(e))
  BY <1>4, <1>6, <1>7
<1> QED
  BY <1>8 DEF C, f

-----------------------------------------------------------------------------
(* The settlement of a hand: W says who wins the pot of each level. *)

potOf(e, W, l) == [level |-> l, amount |-> amountAt(e, l), winners |-> W[l]]
potsOf(e, W) == {potOf(e, W, l) : l \in contributed(e)}
wonIn(e, W) ==
    [i \in SeatNos |->
        SumFunctionOnSet([l \in contributed(e) |-> seatShare(e, amountAt(e, l), W[l])[i]],
                         contributed(e))]
unwon(e, W) == {l \in contributed(e) : W[l] = {}}

LEMMA SumOverPots ==
    ASSUME NEW e, TotalsOK(e), NEW W, NEW T \in SUBSET contributed(e),
           NEW P, P = {potOf(e, W, l) : l \in T},
           NEW f, NEW g, \A l \in T : g[l] = f[potOf(e, W, l)] /\ g[l] \in Int
    PROVE  SumFunctionOnSet(f, P) = SumFunctionOnSet(g, T) /\ IsFiniteSet(P)
<1> DEFINE p == [l \in T |-> potOf(e, W, l)]
<1>1. IsFiniteSet(T)
  BY LevelFacts, FS_Subset
<1>2. \A l \in T : p[l] \in P /\ p[l].level = l
  BY DEF potOf
<1>3. \A y \in P : \E l \in T : y = p[l]
  OBVIOUS
<1>4. \A l \in T : g[l] = f[p[l]] /\ g[l] \in Int
  OBVIOUS
<1> HIDE DEF p
<1>5. Names(p, T, P)
  BY <1>2, <1>3 DEF Names
<1>6. IsFiniteSet(P)
  BY <1>1, <1>3, ImageIsFinite
<1> QED
  BY <1>1, <1>4, <1>5, <1>6, SumRenamed

\* What is won and what nobody may win is what the seats put in.
LEMMA SettlementAddsUp ==
    ASSUME NEW e, TotalsOK(e), e.t.dealer \in SeatNos \cup {Nil},
           NEW W \in [contributed(e) -> SUBSET SeatNos]
    PROVE  /\ \A i \in SeatNos : wonIn(e, W)[i] \in Nat
           /\ SumFunctionOnSet([l \in unwon(e, W) |-> amountAt(e, l)], unwon(e, W)) \in Nat
           /\ SumFunctionOnSet(wonIn(e, W), SeatNos)
                + SumFunctionOnSet([l \in unwon(e, W) |-> amountAt(e, l)], unwon(e, W))
                = SumFunctionOnSet([i \in seated(e) |-> e.s[i].total], seated(e))
<1> DEFINE C == contributed(e)
           D == unwon(e, W)
           amount == [l \in C |-> amountAt(e, l)]
           share == [l \in C |-> seatShare(e, amountAt(e, l), W[l])]
           row == [l \in C |-> SumFunctionOnSet(share[l], SeatNos)]
           column == [i \in SeatNos |-> SumFunctionOnSet([l \in C |-> share[l][i]], C)]
           lost == [l \in C |-> IF l \in D THEN amount[l] ELSE 0]
           lostHere == [l \in D |-> amountAt(e, l)]
<1>1. IsFiniteSet(C) /\ IsFiniteSet(SeatNos) /\ D \in SUBSET C /\ IsFiniteSet(D)
  BY LevelFacts, SeatsAreFinite, FS_Subset DEF unwon
<1>2. \A l \in C : amount[l] = amountAt(e, l) /\ amount[l] \in Nat /\ W[l] \in SUBSET SeatNos
  BY StepIsPositive
<1>3. \A l \in C : l \in D <=> W[l] = {}
  BY DEF unwon
<1>4. ASSUME NEW l \in C
      PROVE  /\ \A i \in SeatNos : share[l][i] \in Nat
             /\ SumFunctionOnSet(share[l], SeatNos) = IF l \in D THEN 0 ELSE amount[l]
  <2>1. share[l] = seatShare(e, amountAt(e, l), W[l])
    OBVIOUS
  <2>2. amountAt(e, l) \in Nat /\ W[l] \in SUBSET SeatNos
    BY <1>2
  <2>3. /\ \A i \in SeatNos : seatShare(e, amountAt(e, l), W[l])[i] \in Nat
        /\ SumFunctionOnSet(seatShare(e, amountAt(e, l), W[l]), SeatNos)
              = IF W[l] = {} THEN 0 ELSE amountAt(e, l)
    BY <2>2, SharesAddUp
  <2> HIDE DEF share
  <2> QED
    BY <1>2, <1>3, <2>1, <2>3
<1>5. \A l \in D : lostHere[l] = lost[l] /\ lost[l] = amount[l]
  BY <1>1
<1>6. \A l \in C : row[l] = SumFunctionOnSet(share[l], SeatNos)
  OBVIOUS
<1>7. \A l \in C : lost[l] = IF l \in D THEN amount[l] ELSE 0
  OBVIOUS
<1>8. column = wonIn(e, W)
  <2>1. \A i \in SeatNos :
            [l \in C |-> share[l][i]] = [l \in C |-> seatShare(e, amountAt(e, l), W[l])[i]]
    OBVIOUS
  <2> HIDE DEF share
  <2> QED
    BY <2>1 DEF wonIn
<1>9. \A i \in SeatNos : column[i] \in Nat
  <2> SUFFICES ASSUME NEW i \in SeatNos PROVE column[i] \in Nat
    OBVIOUS
  <2> DEFINE one == [l \in C |-> share[l][i]]
  <2>1. \A l \in C : one[l] \in Nat
    BY <1>4
  <2>2. column[i] = SumFunctionOnSet(one, C)
    OBVIOUS
  <2> HIDE DEF one, column, C
  <2> QED
    BY <1>1, <2>1, <2>2, SumIsNat
<1> HIDE DEF C, D, amount, share, row, lost, lostHere
<1>10. SumFunctionOnSet(row, C) = SumFunctionOnSet(column, SeatNos)
  <2>1. \A l \in C : \A i \in SeatNos : share[l][i] \in Int
    BY <1>4
  <2> QED
    <3>1. ASSUME NEW A, IsFiniteSet(A), \A l \in C : \A i \in A : share[l][i] \in Int
          PROVE  SumFunctionOnSet([l \in C |-> SumFunctionOnSet(share[l], A)], C)
                   = SumFunctionOnSet([i \in A |-> SumFunctionOnSet([l \in C |-> share[l][i]], C)], A)
      <4>1. IsFiniteSet(C)
        BY <1>1
      <4> QED
        BY <3>1, <4>1, SumsSwap
    <3> QED
      BY <1>1, <2>1, <3>1, Zenon DEF row
<1>11. SumFunctionOnSet(amount, C) = SumFunctionOnSet(row, C) + SumFunctionOnSet(lost, C)
  <2>1. \A l \in C : row[l] \in Int /\ lost[l] \in Int /\ amount[l] = row[l] + lost[l]
    BY <1>2, <1>4, <1>6, <1>7
  <2> QED
    BY <1>1, <2>1, SumOfSums
<1>12. SumFunctionOnSet(lost, C) = SumFunctionOnSet(lostHere, D)
  <2>1. \A l \in C : lost[l] \in Int /\ (l \notin D => lost[l] = 0)
    BY <1>2, <1>7
  <2>2. SumFunctionOnSet(lost, C) = SumFunctionOnSet(lost, D)
    BY <1>1, <2>1, SumOfPart
  <2>3. SumFunctionOnSet(lost, D) = SumFunctionOnSet(lostHere, D)
    BY <1>1, <1>5, SumOfEqual
  <2> QED
    BY <2>2, <2>3
<1>13. SumFunctionOnSet(lostHere, D) \in Nat
  <2>1. \A l \in D : lostHere[l] \in Nat
    BY <1>1, <1>2, <1>5
  <2> QED
    BY <1>1, <2>1, SumIsNat
<1>14. SumFunctionOnSet(amount, C) = SumFunctionOnSet([i \in seated(e) |-> e.s[i].total], seated(e))
  BY PotsAddUp DEF amount, C
<1>15. SumFunctionOnSet(column, SeatNos) \in Int
  <2>1. \A i \in SeatNos : column[i] \in Int
    BY <1>9
  <2> HIDE DEF column
  <2> QED
    BY <1>1, <2>1, SumIsInt
<1>16. /\ \A i \in SeatNos : wonIn(e, W)[i] \in Nat
       /\ SumFunctionOnSet(lostHere, D) \in Nat
       /\ SumFunctionOnSet(wonIn(e, W), SeatNos) + SumFunctionOnSet(lostHere, D)
            = SumFunctionOnSet([i \in seated(e) |-> e.s[i].total], seated(e))
  <2> HIDE DEF column
  <2> QED
    BY <1>8, <1>9, <1>10, <1>11, <1>12, <1>13, <1>14, <1>15
<1> QED
  BY <1>16 DEF lostHere, D

-----------------------------------------------------------------------------
(***************************************************************************)
(* The state a transaction works on.                                       *)
(***************************************************************************)
SeatRows ==
    [user : Players \cup {Bot, NoPlayer}, stack : Nat, committed : Nat, total : Nat,
     status : {"waiting", "active", "folded", "all_in"},
     clock : {"none", "running", "expired"},
     presence : {"fresh", "graceOver", "away", "leaseOver", "gone"},
     sitOut : {"no", "manual", "presence"}, cashOut : BOOLEAN]

TableRows ==
    [kind : {"none", "cash", "casual", "tournament"}, status : {"waiting", "active"},
     hands : 0..MaxHands, board : {0, 3, 4, 5}, dealer : SeatNos \cup {Nil},
     pending : SeatNos \cup {Nil}, currentBet : Nat, lastFullRaise : Nat,
     acted : SUBSET SeatNos, event : {"none", "registering", "running", "completed"},
     buyIn : Nat, places : Nat, standing : [Players -> Int]]

Purses == [free : Nat, locked : Nat]

IsState(e) ==
    /\ e = [t |-> e.t, s |-> e.s, w |-> e.w, house |-> e.house, pool |-> e.pool,
            gone |-> e.gone, pots |-> e.pots]
    /\ e.t \in TableRows
    /\ e.s \in [SeatNos -> SeatRows]
    /\ e.w \in [Players -> Purses]
    /\ e.house \in Int
    /\ e.pool \in Nat
    /\ e.gone \in Nat

\* What a hand never changes: who sits where, the money outside the hand, the event.
SameTable(e, f) ==
    /\ \A i \in SeatNos : f.s[i].user = e.s[i].user
    /\ f.w = e.w /\ f.house = e.house /\ f.pool = e.pool
    /\ f.t.kind = e.t.kind /\ f.t.event = e.t.event /\ f.t.buyIn = e.t.buyIn
    /\ f.t.places = e.t.places /\ f.t.standing = e.t.standing

chipsIn(e) == stacksOf(e, SeatNos) + totalOf(e, SeatNos) + e.gone

settledSeat(x, won) ==
    [x EXCEPT !.stack = x.stack + won, !.committed = 0, !.total = 0, !.status = "waiting"]

LEMMA SettledSeat ==
    ASSUME NEW x \in SeatRows, NEW won \in Nat
    PROVE  LET y == settledSeat(x, won)
           IN  /\ y \in SeatRows
               /\ y.user = x.user /\ y.stack = x.stack + won /\ y.committed = 0 /\ y.total = 0
               /\ y.status = "waiting"
<1>1. x.stack + won \in Nat
  BY DEF SeatRows
<1> QED
  BY <1>1 DEF settledSeat, SeatRows

LEMMA SettleFacts ==
    ASSUME NEW e, IsState(e), \A i \in SeatNos : e.s[i].user = NoPlayer => e.s[i].total = 0,
           NEW W \in [contributed(e) -> SUBSET SeatNos]
    PROVE  LET f == settleTableToWaiting(e, potsOf(e, W))
           IN  /\ IsState(f) /\ SameTable(e, f) /\ chipsIn(f) = chipsIn(e)
               /\ f.t.status = "waiting" /\ f.t.hands = e.t.hands /\ f.t.currentBet = 0
               /\ f.t.dealer = e.t.dealer
               /\ \A i \in SeatNos : f.s[i] = settledSeat(e.s[i], wonIn(e, W)[i])
               /\ f.pots = potsOf(e, W)
               /\ f.gone >= e.gone /\ (unwon(e, W) = {} => f.gone = e.gone)
<1> DEFINE P == potsOf(e, W)
           f == settleTableToWaiting(e, P)
           share(p, i) == distributeAmountAcrossSeatIndexes(e, p.amount, p.winners, i)
           won == [i \in SeatNos |-> SumFunctionOnSet([p \in P |-> share(p, i)], P)]
           lost == {p \in P : p.winners = {}}
           row == [e.t EXCEPT !.status = "waiting", !.pending = Nil,
                              !.currentBet = 0, !.acted = {}]
           rows == [i \in SeatNos |-> settledSeat(e.s[i], won[i])]
<1>1. TotalsOK(e) /\ e.t.dealer \in SeatNos \cup {Nil} /\ e.gone \in Nat
  BY DEF IsState, TableRows, SeatRows, TotalsOK
<1>2. won = wonIn(e, W)
  <2>1. ASSUME NEW i \in SeatNos PROVE won[i] = wonIn(e, W)[i]
    <3> DEFINE g == [p \in P |-> share(p, i)]
               h == [l \in contributed(e) |-> seatShare(e, amountAt(e, l), W[l])[i]]
    <3>1. ASSUME NEW l \in contributed(e)
          PROVE  h[l] = g[potOf(e, W, l)] /\ h[l] \in Int
      <4>1. amountAt(e, l) \in Nat /\ W[l] \in SUBSET SeatNos
        BY <1>1, StepIsPositive
      <4>2. seatShare(e, amountAt(e, l), W[l])[i] \in Nat
        BY <1>1, <4>1, SharesAddUp
      <4>3. potOf(e, W, l) \in P
        BY DEF potsOf
      <4>4. g[potOf(e, W, l)] = distributeAmountAcrossSeatIndexes(e, amountAt(e, l), W[l], i)
        BY <4>3 DEF potOf
      <4> QED
        BY <4>2, <4>4 DEF seatShare
    <3>2. P = {potOf(e, W, l) : l \in contributed(e)}
      BY DEF potsOf
    <3>3. won[i] = SumFunctionOnSet(g, P)
      OBVIOUS
    <3>4. wonIn(e, W)[i] = SumFunctionOnSet(h, contributed(e))
      BY DEF wonIn
    <3> HIDE DEF g, h, P, won
    <3>5. SumFunctionOnSet(g, P) = SumFunctionOnSet(h, contributed(e))
      BY <1>1, <3>1, <3>2, SumOverPots
    <3> QED
      BY <3>3, <3>4, <3>5
  <2> QED
    BY <2>1 DEF wonIn
<1>3. amountOf(lost) = SumFunctionOnSet([l \in unwon(e, W) |-> amountAt(e, l)], unwon(e, W))
  <2> DEFINE D == unwon(e, W)
             g == [p \in lost |-> p.amount]
             h == [l \in D |-> amountAt(e, l)]
  <2>1. lost = {potOf(e, W, l) : l \in D}
    BY DEF potsOf, unwon, potOf
  <2>2. D \in SUBSET contributed(e)
    BY DEF unwon
  <2>3. ASSUME NEW l \in D PROVE h[l] = g[potOf(e, W, l)] /\ h[l] \in Int
    <3>1. potOf(e, W, l) \in lost
      BY <2>1
    <3>2. amountAt(e, l) \in Nat
      BY <1>1, <2>2, StepIsPositive
    <3> HIDE DEF lost, D
    <3> QED
      BY <3>1, <3>2 DEF potOf
  <2> HIDE DEF D, g, h, lost
  <2>4. SumFunctionOnSet(g, lost) = SumFunctionOnSet(h, D)
    BY <1>1, <2>1, <2>2, <2>3, SumOverPots
  <2> QED
    BY <2>4 DEF amountOf, g, h, D
<1> DEFINE gone == e.gone + amountOf(lost)
<1>4. f = [e EXCEPT !.t = row, !.pots = P, !.gone = gone, !.s = rows]
  BY Zenon DEF settleTableToWaiting, settledSeat
<1>5. /\ \A i \in SeatNos : won[i] \in Nat
      /\ amountOf(lost) \in Nat
      /\ SumFunctionOnSet(won, SeatNos) + amountOf(lost)
            = SumFunctionOnSet([i \in seated(e) |-> e.s[i].total], seated(e))
  BY <1>1, <1>2, <1>3, SettlementAddsUp
<1>6. unwon(e, W) = {} => amountOf(lost) = 0
  BY <1>3, SumOfNone
<1>7. ASSUME NEW i \in SeatNos
      PROVE  /\ rows[i] \in SeatRows /\ rows[i].user = e.s[i].user /\ rows[i].total = 0
             /\ rows[i].stack = e.s[i].stack + won[i]
             /\ rows[i] = settledSeat(e.s[i], won[i])
  <2>1. e.s[i] \in SeatRows /\ won[i] \in Nat
    BY <1>5 DEF IsState
  <2> HIDE DEF won
  <2> QED
    BY <2>1, SettledSeat
<1>8. row \in TableRows /\ row.status = "waiting" /\ row.currentBet = 0 /\ row.dealer = e.t.dealer
      /\ row.hands = e.t.hands /\ row.kind = e.t.kind /\ row.event = e.t.event
      /\ row.buyIn = e.t.buyIn /\ row.places = e.t.places /\ row.standing = e.t.standing
  BY DEF IsState, TableRows, Nil
<1> HIDE DEF row, P, won, lost, f
<1>9. rows \in [SeatNos -> SeatRows]
  BY <1>7
<1> HIDE DEF rows
<1>10. gone \in Nat /\ gone >= e.gone /\ (unwon(e, W) = {} => gone = e.gone)
  BY <1>1, <1>5, <1>6
<1>11. /\ f.t = row /\ f.s = rows /\ f.pots = P /\ f.gone = gone
       /\ f.w = e.w /\ f.house = e.house /\ f.pool = e.pool
       /\ f = [t |-> f.t, s |-> f.s, w |-> f.w, house |-> f.house, pool |-> f.pool,
               gone |-> f.gone, pots |-> f.pots]
  <2> HIDE DEF gone
  <2> QED
    BY <1>4 DEF IsState
<1>12. IsState(f)
  BY <1>8, <1>9, <1>10, <1>11 DEF IsState
<1>13. SameTable(e, f)
  BY <1>7, <1>8, <1>11 DEF SameTable
<1>14. chipsIn(f) = chipsIn(e)
  <2> DEFINE before == [i \in SeatNos |-> e.s[i].stack]
             after == [i \in SeatNos |-> f.s[i].stack]
             totals == [i \in SeatNos |-> e.s[i].total]
             none == [i \in SeatNos |-> f.s[i].total]
  <2>1. \A i \in SeatNos : before[i] \in Int /\ won[i] \in Int /\ after[i] = before[i] + won[i]
                           /\ none[i] = 0 /\ totals[i] \in Int
                           /\ (i \notin seated(e) => totals[i] = 0)
    BY <1>5, <1>7, <1>11 DEF IsState, SeatRows, seated
  <2>2. /\ stacksOf(f, SeatNos) = SumFunctionOnSet(after, SeatNos)
        /\ stacksOf(e, SeatNos) = SumFunctionOnSet(before, SeatNos)
        /\ totalOf(f, SeatNos) = SumFunctionOnSet(none, SeatNos)
        /\ totalOf(e, SeatNos) = SumFunctionOnSet(totals, SeatNos)
    BY DEF stacksOf, totalOf
  <2>3. \A i \in seated(e) : totals[i] = [j \in seated(e) |-> e.s[j].total][i]
    BY DEF seated
  <2> HIDE DEF before, after, totals, none
  <2>4. SumFunctionOnSet(after, SeatNos)
            = SumFunctionOnSet(before, SeatNos) + SumFunctionOnSet(won, SeatNos)
    BY <2>1, SeatsAreFinite, SumOfSums
  <2>5. SumFunctionOnSet(none, SeatNos) = 0
    BY <2>1, SeatsAreFinite, SumOfZeros
  <2>6. seated(e) \in SUBSET SeatNos /\ IsFiniteSet(seated(e))
    BY SeatsAreFinite DEF seated
  <2>7. SumFunctionOnSet(totals, SeatNos) = SumFunctionOnSet(totals, seated(e))
    <3>1. \A i \in SeatNos \ seated(e) : totals[i] = 0
      BY <2>1
    <3>2. \A i \in SeatNos : totals[i] \in Int
      BY <2>1
    <3> QED
      BY <2>6, <3>1, <3>2, SeatsAreFinite, SumOfPart
  <2>8. SumFunctionOnSet(totals, seated(e))
            = SumFunctionOnSet([j \in seated(e) |-> e.s[j].total], seated(e))
    BY <2>3, <2>6, SumOfEqual
  <2>9. SumFunctionOnSet(before, SeatNos) \in Int /\ SumFunctionOnSet(won, SeatNos) \in Int
    BY <2>1, SeatsAreFinite, SumIsInt
  <2> QED
    BY <1>1, <1>5, <1>11, <2>2, <2>4, <2>5, <2>7, <2>8, <2>9 DEF chipsIn
<1> QED
  BY <1>2, <1>7, <1>8, <1>10, <1>11, <1>12, <1>13, <1>14 DEF f, P

-----------------------------------------------------------------------------
(***************************************************************************)
(* A hand: who is in it has chips in it, nobody bet more than the current  *)
(* bet, and every seat that can still act has put in the same on earlier   *)
(* streets, so that somebody who did not fold has put in the most.  The    *)
(* last is lost when bots leave in the middle of a hand.                   *)
(***************************************************************************)
Nobody(e) == e.t.currentBet = 0 /\ \A i \in SeatNos : e.s[i].total = 0
BetOn(e, b) ==
    /\ \A i \in SeatNos :
        /\ e.s[i].total <= b + e.s[i].committed
        /\ e.s[i].status = "active" => e.s[i].total = b + e.s[i].committed
    /\ Nobody(e) \/ \E i \in listNonFoldedSeats(e) : e.s[i].total = b + e.t.currentBet
Betting(e) == \E b \in Nat : BetOn(e, b)

HandRows(e) ==
    /\ \A i \in SeatNos :
        /\ e.s[i].user = NoPlayer => e.s[i].stack = 0 /\ e.s[i].status = "waiting"
        /\ e.s[i].status = "waiting" => e.s[i].total = 0 /\ e.s[i].committed = 0
        /\ e.t.status = "waiting" => e.s[i].status = "waiting"
        /\ e.s[i].committed <= e.t.currentBet
    /\ e.t.status = "waiting" => e.t.currentBet = 0

HandOK(e) ==
    /\ IsState(e)
    /\ HandRows(e)
    /\ e.t.kind # "casual" => Betting(e)

\* Every pot has a winner, and the winners have what they won.
Paid(f) ==
    \E e : \E W \in [contributed(e) -> SUBSET SeatNos] :
        /\ TotalsOK(e) /\ e.t.dealer \in SeatNos \cup {Nil}
        /\ f.t.dealer = e.t.dealer /\ f.pots = potsOf(e, W)
        /\ unwon(e, W) = {}
        /\ \A i \in SeatNos : f.s[i].stack >= wonIn(e, W)[i]

Outcome(e, f) ==
    /\ HandOK(f) /\ SameTable(e, f) /\ chipsIn(f) = chipsIn(e)
    /\ f.t.hands = e.t.hands
    /\ f.t.status = "active" =>
        /\ f.pots = e.pots /\ f.gone = e.gone
        /\ f.t.pending \in listActionableSeats(f)
        /\ \A i \in SeatNos : isSeatInHand(e.s[i]) => isSeatInHand(f.s[i])
    /\ e.t.kind # "casual" => f.gone = e.gone /\ (f.t.status = "waiting" => Paid(f))

LEMMA RowFacts ==
    ASSUME NEW e, IsState(e)
    PROVE  /\ \A i \in SeatNos :
                /\ e.s[i] \in SeatRows
                /\ e.s[i].stack \in Nat /\ e.s[i].committed \in Nat /\ e.s[i].total \in Nat
                /\ e.s[i].status \in {"waiting", "active", "folded", "all_in"}
                /\ e.s[i].user \in Players \cup {Bot, NoPlayer}
           /\ e.t.currentBet \in Nat /\ e.t.lastFullRaise \in Nat /\ e.t.hands \in 0..MaxHands
           /\ e.t.dealer \in SeatNos \cup {Nil} /\ e.t.pending \in SeatNos \cup {Nil}
           /\ e.t.acted \in SUBSET SeatNos /\ e.t.status \in {"waiting", "active"}
           /\ e.t.kind \in {"none", "cash", "casual", "tournament"} /\ e.t.board \in {0, 3, 4, 5}
           /\ e.gone \in Nat
           /\ TotalsOK(e)
           /\ seated(e) \in SUBSET SeatNos /\ listNonFoldedSeats(e) \in SUBSET seated(e)
           /\ listActionableSeats(e) \in SUBSET seated(e)
  BY DEF IsState, SeatRows, TableRows, TotalsOK, seated, listNonFoldedSeats, listActionableSeats

\* Whoever is in no pot's winners wins nothing.
LEMMA NothingWon ==
    ASSUME NEW e, IsState(e), NEW W \in [contributed(e) -> SUBSET SeatNos], NEW i \in SeatNos,
           \A l \in contributed(e) : i \notin W[l]
    PROVE  wonIn(e, W)[i] = 0
<1> DEFINE C == contributed(e)
           g == [l \in C |-> seatShare(e, amountAt(e, l), W[l])[i]]
<1>1. TotalsOK(e) /\ e.t.dealer \in SeatNos \cup {Nil}
  BY RowFacts
<1>2. ASSUME NEW l \in C PROVE g[l] = 0
  <2>1. amountAt(e, l) \in Nat /\ W[l] \in SUBSET SeatNos
    BY <1>1, StepIsPositive
  <2>2. i \in SeatNos \ W[l]
    OBVIOUS
  <2>3. seatShare(e, amountAt(e, l), W[l])[i] = 0
    BY <1>1, <2>1, <2>2, SharesAddUp
  <2> QED
    BY <2>3
<1>3. wonIn(e, W)[i] = SumFunctionOnSet(g, C)
  BY DEF wonIn
<1>4. IsFiniteSet(C)
  BY <1>1, LevelFacts
<1> HIDE DEF g, C
<1> QED
  BY <1>2, <1>3, <1>4, SumOfZeros

LEMMA SettledIsOK ==
    ASSUME NEW e, HandOK(e), NEW W \in [contributed(e) -> SUBSET seated(e)],
           e.t.kind # "casual" => unwon(e, W) = {}
    PROVE  Outcome(e, settleTableToWaiting(e, potsOf(e, W)))
<1> DEFINE f == settleTableToWaiting(e, potsOf(e, W))
<1>0. W \in [contributed(e) -> SUBSET SeatNos]
  BY DEF seated
<1>1. IsState(e) /\ \A i \in SeatNos : e.s[i].user = NoPlayer => e.s[i].total = 0
  BY DEF HandOK, HandRows
<1>2. /\ IsState(f) /\ SameTable(e, f) /\ chipsIn(f) = chipsIn(e)
      /\ f.t.status = "waiting" /\ f.t.hands = e.t.hands /\ f.t.currentBet = 0
      /\ f.t.dealer = e.t.dealer
      /\ \A i \in SeatNos : f.s[i] = settledSeat(e.s[i], wonIn(e, W)[i])
      /\ f.pots = potsOf(e, W)
      /\ f.gone >= e.gone /\ (unwon(e, W) = {} => f.gone = e.gone)
  BY <1>0, <1>1, SettleFacts
<1> HIDE DEF f
<1>3. \A i \in SeatNos : wonIn(e, W)[i] \in Nat
  BY <1>0, <1>1, RowFacts, SettlementAddsUp
<1>4. ASSUME NEW i \in SeatNos
      PROVE  /\ f.s[i].user = e.s[i].user /\ f.s[i].stack = e.s[i].stack + wonIn(e, W)[i]
             /\ f.s[i].committed = 0 /\ f.s[i].total = 0 /\ f.s[i].status = "waiting"
             /\ f.s[i].stack >= wonIn(e, W)[i]
  <2>1. e.s[i] \in SeatRows /\ e.s[i].stack \in Nat
    BY <1>1, RowFacts
  <2>2. PICK w \in Nat : w = wonIn(e, W)[i]
    BY <1>3
  <2>3. f.s[i] = settledSeat(e.s[i], w)
    BY <1>2, <2>2
  <2>4. LET y == settledSeat(e.s[i], w)
        IN  /\ y.user = e.s[i].user /\ y.stack = e.s[i].stack + w /\ y.committed = 0
            /\ y.total = 0 /\ y.status = "waiting"
    BY <2>1, SettledSeat
  <2> QED
    BY <2>1, <2>2, <2>3, <2>4
<1>5. ASSUME NEW i \in SeatNos, e.s[i].user = NoPlayer PROVE f.s[i].stack = 0
  <2>1. \A l \in contributed(e) : i \notin W[l]
    BY <1>5 DEF seated
  <2>2. wonIn(e, W)[i] = 0
    BY <1>0, <1>1, <2>1, NothingWon
  <2>3. e.s[i].stack = 0
    BY <1>5 DEF HandOK, HandRows
  <2> QED
    BY <1>4, <2>2, <2>3
<1>6. Betting(f)
  <2>1. /\ \A i \in SeatNos : /\ f.s[i].total <= 0 + f.s[i].committed
                              /\ f.s[i].status = "active" => f.s[i].total = 0 + f.s[i].committed
        /\ Nobody(f)
    BY <1>2, <1>4 DEF Nobody
  <2> QED
    BY <2>1 DEF Betting, BetOn
<1>7. HandRows(f)
  BY <1>2, <1>4, <1>5 DEF HandRows
<1>8. HandOK(f)
  BY <1>2, <1>6, <1>7 DEF HandOK
<1>9. e.t.kind # "casual" => Paid(f)
  <2>1. \A i \in SeatNos : f.s[i].stack >= wonIn(e, W)[i]
    BY <1>4
  <2>2. TotalsOK(e) /\ e.t.dealer \in SeatNos \cup {Nil}
    BY <1>1, RowFacts
  <2> QED
    BY <1>0, <1>2, <2>1, <2>2 DEF Paid
<1> QED
  BY <1>2, <1>8, <1>9 DEF Outcome, f

\* Of those who can win something, somebody has the best hand.
LEMMA HighestRank ==
    ASSUME NEW S, IsFiniteSet(S), NEW x \in S, NEW rank, \A i \in S : rank[i] \in Nat
    PROVE  \E i \in S : \A j \in S : rank[i] >= rank[j]
<1> DEFINE T == {rank[i] : i \in S}
<1>1. \A n \in T : n \in Nat /\ \E i \in S : n = rank[i]
  OBVIOUS
<1>2. \A i \in S : rank[i] \in T
  OBVIOUS
<1> HIDE DEF T
<1>3. IsFiniteSet(T)
  BY <1>1, ImageIsFinite
<1>4. T \in SUBSET Nat /\ T # {}
  BY <1>1, <1>2
<1>5. Max(T) \in T /\ \A m \in T : Max(T) >= m
  BY <1>3, <1>4, MaxOfFinite
<1> QED
  BY <1>1, <1>2, <1>5

\* The next seat round the table is one of those asked for.
LEMMA NextSeat ==
    ASSUME NEW S \in SUBSET SeatNos, NEW from
    PROVE  /\ S # {} => nextSeatIndex(S, from) \in S
           /\ nextSeatIndex(S, from) \in SeatNos \cup {Nil}
<1>1. \A T \in SUBSET S : T # {} => Min(T) \in S
  <2> SUFFICES ASSUME NEW T \in SUBSET S, T # {} PROVE Min(T) \in S
    OBVIOUS
  <2>1. T \in SUBSET Nat
    BY SeatsAreFinite
  <2>2. Min(T) \in T
    BY <2>1, MinOfNaturals
  <2> QED
    BY <2>2
<1>2. {i \in S : i > from} \in SUBSET S
  OBVIOUS
<1>3. S # {} => nextSeatIndex(S, from) \in S
  <2>1. CASE {i \in S : i > from} # {}
    BY <1>1, <1>2, <2>1 DEF nextSeatIndex
  <2>2. CASE {i \in S : i > from} = {}
    BY <1>1, <2>2 DEF nextSeatIndex
  <2> QED
    BY <2>1, <2>2
<1>4. S = {} => nextSeatIndex(S, from) = Nil
  BY DEF nextSeatIndex
<1> QED
  BY <1>3, <1>4

\* The two states differ in nothing that matters for the chips of the hand.
SameHand(e, g) ==
    /\ IsState(g)
    /\ g.s = e.s /\ g.w = e.w /\ g.house = e.house /\ g.pool = e.pool /\ g.gone = e.gone
    /\ g.pots = e.pots
    /\ g.t.kind = e.t.kind /\ g.t.status = e.t.status /\ g.t.event = e.t.event
    /\ g.t.buyIn = e.t.buyIn /\ g.t.places = e.t.places /\ g.t.standing = e.t.standing
    /\ g.t.hands = e.t.hands /\ g.t.currentBet = e.t.currentBet

LEMMA SameHandFacts ==
    ASSUME NEW e, NEW g, SameHand(e, g)
    PROVE  /\ HandOK(e) => HandOK(g)
           /\ \A f : Outcome(g, f) => Outcome(e, f)
           /\ seated(g) = seated(e) /\ contributed(g) = contributed(e)
           /\ listNonFoldedSeats(g) = listNonFoldedSeats(e)
           /\ listActionableSeats(g) = listActionableSeats(e)
           /\ \A W : potsOf(g, W) = potsOf(e, W) /\ unwon(g, W) = unwon(e, W)
<1>1. /\ seated(g) = seated(e) /\ contributed(g) = contributed(e)
      /\ listNonFoldedSeats(g) = listNonFoldedSeats(e)
      /\ listActionableSeats(g) = listActionableSeats(e)
  BY DEF SameHand, seated, contributed, listNonFoldedSeats, listActionableSeats
<1>2. chipsIn(g) = chipsIn(e)
  BY DEF SameHand, chipsIn, stacksOf, totalOf
<1>3. Nobody(g) <=> Nobody(e)
  BY DEF SameHand, Nobody
<1>4. \A b : BetOn(g, b) <=> BetOn(e, b)
  BY <1>1, <1>3 DEF SameHand, BetOn
<1>5. HandRows(g) <=> HandRows(e)
  BY DEF SameHand, HandRows
<1>6. HandOK(e) => HandOK(g)
  BY <1>4, <1>5 DEF SameHand, HandOK, Betting
<1>7. \A f : SameTable(g, f) <=> SameTable(e, f)
  BY DEF SameHand, SameTable
<1>8. ASSUME NEW f, Outcome(g, f) PROVE Outcome(e, f)
  BY <1>2, <1>7, <1>8 DEF SameHand, Outcome
<1>9. \A l : amountAt(g, l) = amountAt(e, l)
  BY <1>1 DEF SameHand, amountAt
<1>10. \A W : potsOf(g, W) = potsOf(e, W) /\ unwon(g, W) = unwon(e, W)
  BY <1>1, <1>9 DEF potsOf, unwon, potOf
<1> QED
  BY <1>1, <1>6, <1>8, <1>10

LEMMA SameHandRow ==
    ASSUME NEW e, IsState(e), NEW r \in TableRows,
           r.kind = e.t.kind, r.status = e.t.status, r.event = e.t.event, r.buyIn = e.t.buyIn,
           r.places = e.t.places, r.standing = e.t.standing, r.hands = e.t.hands,
           r.currentBet = e.t.currentBet
    PROVE  SameHand(e, [e EXCEPT !.t = r]) /\ [e EXCEPT !.t = r].t = r
<1> DEFINE g == [e EXCEPT !.t = r]
<1>1. /\ g.t = r /\ g.s = e.s /\ g.w = e.w /\ g.house = e.house /\ g.pool = e.pool
      /\ g.gone = e.gone /\ g.pots = e.pots
      /\ g = [t |-> g.t, s |-> g.s, w |-> g.w, house |-> g.house, pool |-> g.pool,
              gone |-> g.gone, pots |-> g.pots]
  BY DEF IsState
<1> HIDE DEF g
<1>2. IsState(g)
  BY <1>1 DEF IsState
<1> QED
  BY <1>1, <1>2 DEF SameHand, g

-----------------------------------------------------------------------------
(* The end of a hand and of a street *)

eligibleAt(e, l) == {i \in seated(e) : e.s[i].total >= l /\ e.s[i].status # "folded"}
viewOf(e, l) == [level |-> l, amount |-> amountAt(e, l), eligible |-> eligibleAt(e, l)]

LEMMA PotViews ==
    ASSUME NEW e
    PROVE  buildPendingPotViews(e) = {viewOf(e, l) : l \in contributed(e)}
<1>1. \A l : {m \in contributed(e) : m < l} = under(contributed(e), l)
  BY DEF under
<1>2. \A l : {i \in {j \in seated(e) : e.s[j].total >= l} : e.s[i].status # "folded"}
                = eligibleAt(e, l)
  BY DEF eligibleAt
<1> QED
  BY <1>1, <1>2, Zenon DEF buildPendingPotViews, viewOf, amountAt

LEMMA WinnersOfViews ==
    ASSUME NEW e, NEW W, NEW V, \A l \in contributed(e) : W[l] = V[viewOf(e, l)]
    PROVE  {withWinners(p, V[p]) : p \in buildPendingPotViews(e)} = potsOf(e, W)
<1>1. \A l \in contributed(e) : withWinners(viewOf(e, l), V[viewOf(e, l)]) = potOf(e, W, l)
  BY DEF withWinners, viewOf, potOf
<1>2. \A x : x \in {withWinners(p, V[p]) : p \in buildPendingPotViews(e)}
                <=> \E l \in contributed(e) : x = withWinners(viewOf(e, l), V[viewOf(e, l)])
  BY PotViews
<1>3. \A x : x \in potsOf(e, W) <=> \E l \in contributed(e) : x = potOf(e, W, l)
  BY DEF potsOf
<1>4. \A x : x \in {withWinners(p, V[p]) : p \in buildPendingPotViews(e)} <=> x \in potsOf(e, W)
  BY <1>1, <1>2, <1>3
<1> QED
  BY <1>4

LEMMA FoldOutcome ==
    ASSUME NEW e, HandOK(e), NEW f \in settleByFold(e)
    PROVE  Outcome(e, f)
<1>1. PICK i \in listNonFoldedSeats(e) :
        f = settleTableToWaiting(e, {withWinners(p, {i}) : p \in buildPendingPotViews(e)})
  BY DEF settleByFold
<1> DEFINE W == [l \in contributed(e) |-> {i}]
           V == [p \in buildPendingPotViews(e) |-> {i}]
<1>2. {withWinners(p, {i}) : p \in buildPendingPotViews(e)} = potsOf(e, W)
  <2>1. \A l \in contributed(e) : W[l] = V[viewOf(e, l)]
    BY PotViews
  <2>2. {withWinners(p, V[p]) : p \in buildPendingPotViews(e)} = potsOf(e, W)
    <3> HIDE DEF V, W
    <3> QED
      BY <2>1, WinnersOfViews
  <2> QED
    BY <2>2
<1>3. W \in [contributed(e) -> SUBSET seated(e)] /\ unwon(e, W) = {}
  BY <1>1 DEF listNonFoldedSeats, unwon
<1> HIDE DEF W
<1> QED
  BY <1>1, <1>2, <1>3, SettledIsOK

\* While nobody has left, every pot has a seat that may win it.
LEMMA PotsHaveTakers ==
    ASSUME NEW e, HandOK(e), Betting(e), NEW l \in contributed(e)
    PROVE  eligibleAt(e, l) # {}
<1>1. IsState(e) /\ HandRows(e)
  BY DEF HandOK
<1>2. PICK b \in Nat : BetOn(e, b)
  BY DEF Betting
<1>3. PICK i \in seated(e) : e.s[i].total = l /\ l \in Nat /\ l > 0 /\ i \in SeatNos
  BY <1>1, RowFacts, LevelFacts
<1>4. ~Nobody(e)
  BY <1>3 DEF Nobody
<1>5. PICK j \in listNonFoldedSeats(e) : e.s[j].total = b + e.t.currentBet
  BY <1>2, <1>4 DEF BetOn
<1>6. e.s[i].total <= b + e.s[i].committed /\ e.s[i].committed <= e.t.currentBet
  BY <1>1, <1>2, <1>3 DEF BetOn, HandRows
<1>7. e.s[i].committed \in Nat /\ e.t.currentBet \in Nat
  BY <1>1, <1>3, RowFacts
<1>8. l <= e.s[j].total
  BY <1>2, <1>3, <1>5, <1>6, <1>7
<1>9. e.s[j].total \in Nat /\ e.s[j].total >= l /\ j \in seated(e) /\ e.s[j].status # "folded"
  BY <1>1, <1>3, <1>5, <1>7, <1>8 DEF listNonFoldedSeats
<1> QED
  BY <1>9 DEF eligibleAt

LEMMA EligibleAreShown ==
    ASSUME NEW e, HandOK(e), NEW l \in contributed(e)
    PROVE  eligibleAt(e, l) \in SUBSET listNonFoldedSeats(e)
<1> SUFFICES ASSUME NEW i \in eligibleAt(e, l) PROVE i \in listNonFoldedSeats(e)
  OBVIOUS
<1>1. IsState(e) /\ HandRows(e)
  BY DEF HandOK
<1>2. i \in seated(e) /\ i \in SeatNos /\ e.s[i].total >= l /\ e.s[i].status # "folded"
  BY DEF eligibleAt, seated
<1>3. l \in Nat /\ l # 0 /\ e.s[i].total \in Nat
  BY <1>1, <1>2, RowFacts, LevelFacts
<1>4. e.s[i].total # 0
  BY <1>2, <1>3
<1>5. e.s[i].status # "waiting"
  BY <1>1, <1>2, <1>4 DEF HandRows
<1>6. e.s[i].status \in {"waiting", "active", "folded", "all_in"}
  BY <1>1, <1>2, RowFacts
<1> QED
  BY <1>2, <1>5, <1>6 DEF listNonFoldedSeats

LEMMA ShowdownOutcome ==
    ASSUME NEW e, HandOK(e), NEW f \in settleShowdown(e)
    PROVE  Outcome(e, f)
<1> DEFINE shown == listNonFoldedSeats(e)
           g == [e EXCEPT !.t = [e.t EXCEPT !.board = 5]]
           best(p, rank) == {i \in p.eligible : \A j \in p.eligible : rank[i] >= rank[j]}
<1>1. PICK rank \in [shown -> 1..Cardinality(shown)] :
        f = settleTableToWaiting(g, {withWinners(p, best(p, rank)) : p \in buildPendingPotViews(e)})
  BY DEF settleShowdown
<1>2. IsState(e) /\ HandRows(e)
  BY DEF HandOK
<1>3. SameHand(e, g)
  <2>1. [e.t EXCEPT !.board = 5] \in TableRows
    BY <1>2 DEF IsState, TableRows
  <2>2. /\ [e.t EXCEPT !.board = 5].kind = e.t.kind /\ [e.t EXCEPT !.board = 5].status = e.t.status
        /\ [e.t EXCEPT !.board = 5].event = e.t.event /\ [e.t EXCEPT !.board = 5].buyIn = e.t.buyIn
        /\ [e.t EXCEPT !.board = 5].places = e.t.places
        /\ [e.t EXCEPT !.board = 5].standing = e.t.standing
        /\ [e.t EXCEPT !.board = 5].hands = e.t.hands
        /\ [e.t EXCEPT !.board = 5].currentBet = e.t.currentBet
    BY <1>2 DEF IsState, TableRows
  <2> QED
    BY <1>2, <2>1, <2>2, SameHandRow
<1> HIDE DEF g
<1> DEFINE V == [p \in buildPendingPotViews(e) |-> best(p, rank)]
           W == [l \in contributed(e) |-> best(viewOf(e, l), rank)]
<1>4. {withWinners(p, best(p, rank)) : p \in buildPendingPotViews(e)} = potsOf(e, W)
  <2>1. \A l \in contributed(e) : W[l] = V[viewOf(e, l)]
    BY PotViews
  <2>2. {withWinners(p, V[p]) : p \in buildPendingPotViews(e)} = potsOf(e, W)
    <3> HIDE DEF V, W
    <3> QED
      BY <2>1, WinnersOfViews
  <2> QED
    BY <2>2
<1>5. \A l \in contributed(e) :
        W[l] = {i \in eligibleAt(e, l) : \A j \in eligibleAt(e, l) : rank[i] >= rank[j]}
  BY DEF viewOf
<1>6. W \in [contributed(e) -> SUBSET seated(e)]
  BY <1>5 DEF eligibleAt
<1>7. e.t.kind # "casual" => unwon(e, W) = {}
  <2> SUFFICES ASSUME e.t.kind # "casual", NEW l \in contributed(e) PROVE W[l] # {}
    BY DEF unwon
  <2>1. Betting(e)
    BY DEF HandOK
  <2>2. PICK x : x \in eligibleAt(e, l)
    BY <2>1, PotsHaveTakers
  <2>3. eligibleAt(e, l) \in SUBSET shown /\ shown \in SUBSET SeatNos
    BY <1>2, EligibleAreShown, RowFacts
  <2>4. Cardinality(shown) \in Nat
    BY <2>3, SeatsAreFinite
  <2>5. \A i \in eligibleAt(e, l) : rank[i] \in Nat
    BY <1>1, <2>3, <2>4
  <2>6. IsFiniteSet(eligibleAt(e, l))
    BY <2>3, SeatsAreFinite
  <2> HIDE DEF W
  <2>7. \E i \in eligibleAt(e, l) : \A j \in eligibleAt(e, l) : rank[i] >= rank[j]
    BY <2>2, <2>5, <2>6, HighestRank
  <2> QED
    BY <1>5, <2>7
<1>8. HandOK(g) /\ W \in [contributed(g) -> SUBSET seated(g)] /\ potsOf(e, W) = potsOf(g, W)
      /\ unwon(g, W) = unwon(e, W) /\ g.t.kind = e.t.kind
  <2> HIDE DEF W
  <2> QED
    BY <1>3, <1>6, SameHandFacts DEF SameHand
<1> HIDE DEF W, best
<1>9. Outcome(g, settleTableToWaiting(g, potsOf(g, W)))
  BY <1>7, <1>8, SettledIsOK
<1>10. f = settleTableToWaiting(g, potsOf(g, W))
  BY <1>1, <1>4, <1>8
<1> QED
  BY <1>3, <1>9, <1>10, SameHandFacts

\* A state is the record of its parts.
StateOf(t, s, w, house, pool, gone, pots) ==
    [t |-> t, s |-> s, w |-> w, house |-> house, pool |-> pool, gone |-> gone, pots |-> pots]

Whole(e) == e = StateOf(e.t, e.s, e.w, e.house, e.pool, e.gone, e.pots)

LEMMA WholeState ==
    ASSUME NEW e
    PROVE  IsState(e) <=>
            /\ Whole(e)
            /\ e.t \in TableRows /\ e.s \in [SeatNos -> SeatRows] /\ e.w \in [Players -> Purses]
            /\ e.house \in Int /\ e.pool \in Nat /\ e.gone \in Nat
  BY DEF IsState, Whole, StateOf

LEMMA WholeRecord ==
    ASSUME NEW t, NEW s, NEW w, NEW h, NEW p, NEW g, NEW k,
           NEW e, e = StateOf(t, s, w, h, p, g, k)
    PROVE  /\ Whole(e) /\ e.t = t /\ e.s = s /\ e.w = w /\ e.house = h /\ e.pool = p
           /\ e.gone = g /\ e.pots = k
  BY DEF StateOf, Whole

LEMMA ChangedPart ==
    ASSUME NEW e, Whole(e), NEW x
    PROVE  /\ [e EXCEPT !.t = x] = StateOf(x, e.s, e.w, e.house, e.pool, e.gone, e.pots)
           /\ [e EXCEPT !.s = x] = StateOf(e.t, x, e.w, e.house, e.pool, e.gone, e.pots)
           /\ [e EXCEPT !.w = x] = StateOf(e.t, e.s, x, e.house, e.pool, e.gone, e.pots)
           /\ [e EXCEPT !.house = x] = StateOf(e.t, e.s, e.w, x, e.pool, e.gone, e.pots)
           /\ [e EXCEPT !.pool = x] = StateOf(e.t, e.s, e.w, e.house, x, e.gone, e.pots)
           /\ [e EXCEPT !.gone = x] = StateOf(e.t, e.s, e.w, e.house, e.pool, x, e.pots)
           /\ [e EXCEPT !.pots = x] = StateOf(e.t, e.s, e.w, e.house, e.pool, e.gone, x)
<1> DEFINE t == e.t
           s == e.s
           w == e.w
           h == e.house
           p == e.pool
           g == e.gone
           k == e.pots
<1>1. e = StateOf(t, s, w, h, p, g, k)
  BY DEF Whole
<1> HIDE DEF t, s, w, h, p, g, k
<1>2. /\ [e EXCEPT !.t = x] = StateOf(x, s, w, h, p, g, k)
      /\ [e EXCEPT !.s = x] = StateOf(t, x, w, h, p, g, k)
      /\ [e EXCEPT !.w = x] = StateOf(t, s, x, h, p, g, k)
      /\ [e EXCEPT !.house = x] = StateOf(t, s, w, x, p, g, k)
      /\ [e EXCEPT !.pool = x] = StateOf(t, s, w, h, x, g, k)
      /\ [e EXCEPT !.gone = x] = StateOf(t, s, w, h, p, x, k)
      /\ [e EXCEPT !.pots = x] = StateOf(t, s, w, h, p, g, x)
  BY <1>1 DEF StateOf
<1> QED
  BY <1>2 DEF t, s, w, h, p, g, k

\* f is e with another table row and other seats.
Becomes(e, f, r, s) == f = [e EXCEPT !.t = r, !.s = s]
Differs(e, f, r, s) ==
    /\ f = StateOf(r, s, e.w, e.house, e.pool, e.gone, e.pots)
    /\ Whole(f) /\ f.t = r /\ f.s = s /\ f.w = e.w /\ f.house = e.house
    /\ f.pool = e.pool /\ f.gone = e.gone /\ f.pots = e.pots
    /\ IsState(e) /\ r \in TableRows /\ s \in [SeatNos -> SeatRows] => IsState(f)

LEMMA NewState ==
    ASSUME NEW e, Whole(e), NEW r, NEW s, NEW f, Becomes(e, f, r, s)
    PROVE  Differs(e, f, r, s)
<1> DEFINE d == [e EXCEPT !.t = r]
<1>1. d = StateOf(r, e.s, e.w, e.house, e.pool, e.gone, e.pots)
  BY ChangedPart, Zenon
<1>2. f = [d EXCEPT !.s = s]
  BY DEF Becomes
<1> HIDE DEF d
<1>3. /\ Whole(d) /\ d.t = r /\ d.w = e.w /\ d.house = e.house
      /\ d.pool = e.pool /\ d.gone = e.gone /\ d.pots = e.pots
  BY <1>1, WholeRecord
<1>4. f = StateOf(r, s, e.w, e.house, e.pool, e.gone, e.pots)
  <2>1. f = StateOf(d.t, s, d.w, d.house, d.pool, d.gone, d.pots)
    BY <1>2, <1>3, ChangedPart, Zenon
  <2> QED
    BY <1>3, <2>1, Zenon
<1>5. /\ Whole(f) /\ f.t = r /\ f.s = s /\ f.w = e.w /\ f.house = e.house
      /\ f.pool = e.pool /\ f.gone = e.gone /\ f.pots = e.pots
  BY <1>4, WholeRecord
<1>6. IsState(e) /\ r \in TableRows /\ s \in [SeatNos -> SeatRows] => IsState(f)
  BY <1>5, WholeState
<1> QED
  BY <1>4, <1>5, <1>6 DEF Differs

\* Chips that do not move: a seat's stack and what it put in stay as they are.
LEMMA SameChips ==
    ASSUME NEW e, NEW f, f.gone = e.gone,
           \A i \in SeatNos : f.s[i].stack = e.s[i].stack /\ f.s[i].total = e.s[i].total
    PROVE  chipsIn(f) = chipsIn(e)
<1>1. [i \in SeatNos |-> f.s[i].stack] = [i \in SeatNos |-> e.s[i].stack]
  OBVIOUS
<1>2. [i \in SeatNos |-> f.s[i].total] = [i \in SeatNos |-> e.s[i].total]
  OBVIOUS
<1> QED
  BY <1>1, <1>2 DEF chipsIn, stacksOf, totalOf

resetSeat(x) ==
    [x EXCEPT !.committed = 0,
              !.status = IF x.status = "active" /\ x.stack = 0 THEN "all_in" ELSE x.status]

LEMMA ResetSeat ==
    ASSUME NEW x \in SeatRows
    PROVE  LET y == resetSeat(x)
           IN  /\ y \in SeatRows /\ y.user = x.user /\ y.stack = x.stack /\ y.total = x.total
               /\ y.committed = 0
               /\ y.status = IF x.status = "active" /\ x.stack = 0 THEN "all_in" ELSE x.status
  BY DEF resetSeat, SeatRows

LEMMA StreetOutcome ==
    ASSUME NEW e, HandOK(e), e.t.status = "active", e.t.board # 5,
           hasRoundCompleted(e), listActionableSeats(e) # {}
    PROVE  Outcome(e, dealNextStreet(e))
<1> DEFINE next == nextSeatIndex(listActionableSeats(e), e.t.dealer)
           s == [i \in SeatNos |-> resetSeat(e.s[i])]
           r == [[[e.t EXCEPT !.currentBet = 0, !.lastFullRaise = BigBlind, !.acted = {}]
                    EXCEPT !.board = nextStreet(e.t.board)] EXCEPT !.pending = next]
           f == [e EXCEPT !.t = r, !.s = s]
<1>1. IsState(e) /\ Whole(e) /\ HandRows(e) /\ BigBlind \in Nat
  BY HoldemBlinds, WholeState DEF HandOK
<1>2. next \in listActionableSeats(e) /\ next \in SeatNos
  <2>1. listActionableSeats(e) \in SUBSET SeatNos
    BY <1>1, RowFacts
  <2> QED
    BY <2>1, NextSeat
<1>3. nextStreet(e.t.board) \in {3, 4, 5}
  <2>1. e.t.board \in {0, 3, 4}
    BY <1>1, RowFacts
  <2> QED
    BY <2>1 DEF nextStreet
<1> HIDE DEF next
<1>4. /\ r \in TableRows /\ r.currentBet = 0 /\ r.pending = next /\ r.status = "active"
      /\ r.kind = e.t.kind /\ r.event = e.t.event /\ r.buyIn = e.t.buyIn
      /\ r.places = e.t.places /\ r.standing = e.t.standing /\ r.hands = e.t.hands
  BY <1>1, <1>2, <1>3 DEF IsState, TableRows
<1>5. ASSUME NEW i \in SeatNos
      PROVE  /\ s[i] \in SeatRows /\ s[i].user = e.s[i].user /\ s[i].stack = e.s[i].stack
             /\ s[i].total = e.s[i].total /\ s[i].committed = 0
             /\ s[i].status = IF e.s[i].status = "active" /\ e.s[i].stack = 0
                              THEN "all_in" ELSE e.s[i].status
  <2>1. e.s[i] \in SeatRows
    BY <1>1, RowFacts
  <2> QED
    BY <2>1, ResetSeat
<1>6. dealNextStreet(e) = f
  <2> DEFINE a == [e.t EXCEPT !.currentBet = 0, !.lastFullRaise = BigBlind, !.acted = {}]
             b == [a EXCEPT !.board = nextStreet(e.t.board)]
             reset == [e EXCEPT !.t = a, !.s = s]
             dealt == [reset EXCEPT !.t = b]
             done == [dealt EXCEPT !.t = r]
  <2>1. resetStreetCommitments(e) = reset
    BY Zenon DEF resetStreetCommitments, resetSeat
  <2> HIDE DEF s, next
  <2>2. r = [b EXCEPT !.pending = next]
    OBVIOUS
  <2> HIDE DEF r, a, b
  <2>3. reset = StateOf(a, s, e.w, e.house, e.pool, e.gone, e.pots) /\ reset.t = a
    <3>1. Becomes(e, reset, a, s)
      BY Zenon DEF Becomes
    <3> HIDE DEF reset
    <3> QED
      BY <1>1, <3>1, NewState DEF Differs
  <2>4. dealt = StateOf(b, s, e.w, e.house, e.pool, e.gone, e.pots) /\ dealt.t = b
    <3> HIDE DEF reset
    <3>1. /\ Whole(reset) /\ reset.s = s /\ reset.w = e.w /\ reset.house = e.house
          /\ reset.pool = e.pool /\ reset.gone = e.gone /\ reset.pots = e.pots
      BY <2>3, WholeRecord
    <3>2. dealt = StateOf(b, reset.s, reset.w, reset.house, reset.pool, reset.gone, reset.pots)
      BY <3>1, ChangedPart, Zenon
    <3> HIDE DEF dealt
    <3>3. dealt = StateOf(b, s, e.w, e.house, e.pool, e.gone, e.pots)
      BY <3>1, <3>2, Zenon
    <3> QED
      BY <3>3, WholeRecord
  <2>5. done = StateOf(r, s, e.w, e.house, e.pool, e.gone, e.pots)
    <3> HIDE DEF dealt
    <3>1. /\ Whole(dealt) /\ dealt.s = s /\ dealt.w = e.w /\ dealt.house = e.house
          /\ dealt.pool = e.pool /\ dealt.gone = e.gone /\ dealt.pots = e.pots
      BY <2>4, WholeRecord
    <3>2. done = StateOf(r, dealt.s, dealt.w, dealt.house, dealt.pool, dealt.gone, dealt.pots)
      BY <3>1, ChangedPart, Zenon
    <3> HIDE DEF done
    <3> QED
      BY <3>1, <3>2, Zenon
  <2>6. f = StateOf(r, s, e.w, e.house, e.pool, e.gone, e.pots)
    <3>1. Becomes(e, f, r, s)
      BY Zenon DEF Becomes
    <3> HIDE DEF f
    <3> QED
      BY <1>1, <3>1, NewState DEF Differs
  <2>7. dealNextStreet(e) = done
    <3>1. dealt = [resetStreetCommitments(e) EXCEPT
                    !.t = [resetStreetCommitments(e).t EXCEPT !.board = nextStreet(e.t.board)]]
      BY <2>1, <2>3, Zenon DEF b
    <3>2. dealNextStreet(e) = waitsFor(dealt, next)
      <4> HIDE DEF dealt
      <4> QED
        BY <3>1, Zenon DEF dealNextStreet, next
    <3>3. waitsFor(dealt, next) = [dealt EXCEPT !.t = [dealt.t EXCEPT !.pending = next]]
      BY Zenon DEF waitsFor
    <3> HIDE DEF dealt
    <3> QED
      BY <2>2, <2>4, <3>2, <3>3, Zenon
  <2> HIDE DEF done, f
  <2> QED
    BY <2>5, <2>6, <2>7
<1> HIDE DEF r, s
<1>7. s \in [SeatNos -> SeatRows]
  <2>1. DOMAIN s = SeatNos /\ s = [i \in SeatNos |-> s[i]]
    BY DEF s
  <2> QED
    BY <1>5, <2>1
<1>8. /\ IsState(f) /\ f.t = r /\ f.s = s /\ f.w = e.w /\ f.house = e.house
      /\ f.pool = e.pool /\ f.gone = e.gone /\ f.pots = e.pots
  <2>1. Becomes(e, f, r, s)
    BY Zenon DEF Becomes
  <2> HIDE DEF f
  <2> QED
    BY <1>1, <1>4, <1>7, <2>1, NewState DEF Differs
<1> HIDE DEF f
<1>9. SameTable(e, f)
  BY <1>4, <1>5, <1>8 DEF SameTable
<1>10. chipsIn(f) = chipsIn(e)
  BY <1>5, <1>8, SameChips
<1>11. HandRows(f)
  BY <1>1, <1>4, <1>5, <1>8 DEF HandRows
<1>12. listActionableSeats(f) = listActionableSeats(e)
  BY <1>5, <1>8 DEF listActionableSeats, seated
<1>13. ASSUME NEW b \in Nat, BetOn(e, b) PROVE Betting(f)
  <2>1. PICK c \in Nat : c = b + e.t.currentBet
    BY <1>1, RowFacts
  <2>2. ASSUME NEW i \in SeatNos
        PROVE  /\ f.s[i].total <= c + f.s[i].committed
               /\ f.s[i].status = "active" => f.s[i].total = c + f.s[i].committed
    <3>1. /\ e.s[i].total <= b + e.s[i].committed
          /\ e.s[i].status = "active" => e.s[i].total = b + e.s[i].committed
      BY <1>13 DEF BetOn
    <3>2. e.s[i].total \in Nat /\ e.s[i].committed \in Nat /\ e.s[i].stack \in Nat
          /\ e.t.currentBet \in Nat /\ e.s[i].committed <= e.t.currentBet
      BY <1>1, RowFacts DEF HandRows
    <3>3. f.s[i].total <= c + f.s[i].committed
      BY <1>5, <1>8, <2>1, <3>1, <3>2
    <3>4. f.s[i].status = "active" => i \in listActionableSeats(e) /\ e.s[i].status = "active"
      <4>1. f.s[i].status = "active" => e.s[i].status = "active" /\ e.s[i].stack > 0
        BY <1>5, <1>8, <3>2
      <4>2. e.s[i].status = "active" => i \in seated(e)
        BY <1>1 DEF HandRows, seated
      <4> QED
        BY <4>1, <4>2 DEF listActionableSeats
    <3>5. f.s[i].status = "active" => e.s[i].committed = e.t.currentBet
      BY <3>4 DEF hasRoundCompleted
    <3>6. f.s[i].status = "active" => f.s[i].total = c + f.s[i].committed
      BY <1>5, <1>8, <2>1, <3>1, <3>2, <3>4, <3>5
    <3> QED
      BY <3>3, <3>6
  <2>3. Nobody(e) => Nobody(f)
    BY <1>4, <1>5, <1>8 DEF Nobody
  <2>4. ASSUME NEW j \in listNonFoldedSeats(e), e.s[j].total = b + e.t.currentBet
        PROVE  j \in listNonFoldedSeats(f) /\ f.s[j].total = c + f.t.currentBet
    <3>1. j \in SeatNos
      BY <1>1, RowFacts
    <3>2. j \in listNonFoldedSeats(f)
      BY <1>5, <1>8, <3>1 DEF listNonFoldedSeats, seated
    <3>3. f.s[j].total = c + f.t.currentBet
      BY <1>4, <1>5, <1>8, <2>1, <2>4, <3>1
    <3> QED
      BY <3>2, <3>3
  <2>5. Nobody(f) \/ \E i \in listNonFoldedSeats(f) : f.s[i].total = c + f.t.currentBet
    BY <1>13, <2>3, <2>4 DEF BetOn
  <2> QED
    BY <2>2, <2>5 DEF Betting, BetOn
<1>14. HandOK(f)
  BY <1>4, <1>8, <1>11, <1>13 DEF HandOK, Betting
<1>15. \A i \in SeatNos : isSeatInHand(e.s[i]) => isSeatInHand(f.s[i])
  BY <1>5, <1>8 DEF isSeatInHand
<1>16. f.t.pending \in listActionableSeats(f)
  BY <1>2, <1>4, <1>8, <1>12
<1> QED
  BY <1>4, <1>6, <1>8, <1>9, <1>10, <1>14, <1>15, <1>16 DEF Outcome

TurnIsTaken(e) ==
    /\ HandOK(e) /\ e.t.status = "active"
    /\ listActionableSeats(e) # {} => e.t.pending \in listActionableSeats(e)

LEMMA ResolveOutcome ==
    ASSUME NEW e, TurnIsTaken(e), NEW f \in resolveTerminalAndStreetProgression(e)
    PROVE  Outcome(e, f)
<1>1. HandOK(e) /\ e.t.status = "active"
  BY DEF TurnIsTaken
<1>2. CASE f \in settleByFold(e)
  BY <1>1, <1>2, FoldOutcome
<1>3. CASE ~hasRoundCompleted(e) /\ f = e
  <2>1. listActionableSeats(e) # {}
    BY <1>3 DEF hasRoundCompleted
  <2>2. SameTable(e, e)
    BY DEF SameTable
  <2> QED
    BY <1>1, <1>3, <2>1, <2>2 DEF Outcome, TurnIsTaken
<1>4. CASE f \in settleShowdown(e)
  BY <1>1, <1>4, ShowdownOutcome
<1>5. CASE /\ hasRoundCompleted(e) /\ e.t.board # 5 /\ listActionableSeats(e) # {}
           /\ f = dealNextStreet(e)
  BY <1>1, <1>5, StreetOutcome
<1> QED
  BY <1>2, <1>3, <1>4, <1>5 DEF resolveTerminalAndStreetProgression

-----------------------------------------------------------------------------
(* A seat's move *)

\* A seat puts in n of its chips.
putIn(x, n) ==
    [x EXCEPT !.stack = x.stack - n, !.committed = x.committed + n, !.total = x.total + n,
              !.status = IF n = x.stack THEN "all_in" ELSE x.status]

LEMMA PutIn ==
    ASSUME NEW x \in SeatRows, NEW n \in Nat, n <= x.stack
    PROVE  LET y == putIn(x, n)
           IN  /\ y \in SeatRows /\ y.user = x.user /\ y.stack = x.stack - n
               /\ y.committed = x.committed + n /\ y.total = x.total + n
               /\ y.status = IF n = x.stack THEN "all_in" ELSE x.status
<1>1. x.stack \in Nat /\ x.committed \in Nat /\ x.total \in Nat
  BY DEF SeatRows
<1>2. x.stack - n \in Nat /\ x.committed + n \in Nat /\ x.total + n \in Nat
  BY <1>1
<1> QED
  BY <1>2 DEF putIn, SeatRows

LEMMA LeastOfTwo ==
    ASSUME NEW a \in Int, NEW b \in Int
    PROVE  /\ Min({a, b}) = (IF a <= b THEN a ELSE b)
           /\ Max({a, b}) = (IF a >= b THEN a ELSE b)
  BY DEF Min, Max

LEMMA Posting ==
    ASSUME NEW x \in SeatRows, NEW amount \in Nat
    PROVE  \E n \in Nat : /\ n <= x.stack /\ n <= amount /\ postFromStack(x, amount) = putIn(x, n)
                          /\ amount <= x.stack => n = amount
                          /\ n < amount => n = x.stack
<1>1. x.stack \in Nat
  BY DEF SeatRows
<1>2. PICK n \in Nat : n = Min({x.stack, amount}) /\ n = IF x.stack <= amount THEN x.stack ELSE amount
  BY <1>1, LeastOfTwo
<1>3. postFromStack(x, amount) = putIn(x, n)
  BY <1>2 DEF postFromStack, putIn
<1> QED
  BY <1>1, <1>2, <1>3

BecomesToo(e, f, r, s) == f = [e EXCEPT !.s = s, !.t = r]

LEMMA NewStateToo ==
    ASSUME NEW e, Whole(e), NEW r, NEW s, NEW f, BecomesToo(e, f, r, s)
    PROVE  Differs(e, f, r, s)
<1> DEFINE d == [e EXCEPT !.s = s]
<1>1. d = StateOf(e.t, s, e.w, e.house, e.pool, e.gone, e.pots)
  BY ChangedPart, Zenon
<1>2. f = [d EXCEPT !.t = r]
  BY DEF BecomesToo
<1> HIDE DEF d
<1>3. /\ Whole(d) /\ d.s = s /\ d.w = e.w /\ d.house = e.house
      /\ d.pool = e.pool /\ d.gone = e.gone /\ d.pots = e.pots
  BY <1>1, WholeRecord
<1>4. f = StateOf(r, s, e.w, e.house, e.pool, e.gone, e.pots)
  <2>1. f = StateOf(r, d.s, d.w, d.house, d.pool, d.gone, d.pots)
    BY <1>2, <1>3, ChangedPart, Zenon
  <2> QED
    BY <1>3, <2>1, Zenon
<1>5. /\ Whole(f) /\ f.t = r /\ f.s = s /\ f.w = e.w /\ f.house = e.house
      /\ f.pool = e.pool /\ f.gone = e.gone /\ f.pots = e.pots
  BY <1>4, WholeRecord
<1>6. IsState(e) /\ r \in TableRows /\ s \in [SeatNos -> SeatRows] => IsState(f)
  BY <1>5, WholeState
<1> QED
  BY <1>4, <1>5, <1>6 DEF Differs

LEMMA Waiting ==
    ASSUME NEW e, NEW r, NEW s, NEW g, Differs(e, g, r, s), NEW k
    PROVE  Differs(e, waitsFor(g, k), [r EXCEPT !.pending = k], s)
<1> DEFINE q == [r EXCEPT !.pending = k]
           f == [g EXCEPT !.t = q]
<1>1. waitsFor(g, k) = f
  BY Zenon DEF waitsFor, Differs
<1> HIDE DEF q
<1>2. f = StateOf(q, s, e.w, e.house, e.pool, e.gone, e.pots)
  <2>1. /\ Whole(g) /\ g.t = r /\ g.s = s /\ g.w = e.w /\ g.house = e.house
        /\ g.pool = e.pool /\ g.gone = e.gone /\ g.pots = e.pots
    BY DEF Differs
  <2>2. f = StateOf(q, g.s, g.w, g.house, g.pool, g.gone, g.pots)
    BY <2>1, ChangedPart, Zenon
  <2> QED
    BY <2>1, <2>2, Zenon
<1> HIDE DEF f
<1>3. /\ Whole(f) /\ f.t = q /\ f.s = s /\ f.w = e.w /\ f.house = e.house
      /\ f.pool = e.pool /\ f.gone = e.gone /\ f.pots = e.pots
  BY <1>2, WholeRecord
<1>4. IsState(e) /\ q \in TableRows /\ s \in [SeatNos -> SeatRows] => IsState(f)
  BY <1>3, WholeState
<1> QED
  BY <1>1, <1>2, <1>3, <1>4 DEF Differs, q

\* A seat whose turn it is goes on, puts in n chips, or folds to a bet it has not met.
Plays(x, y, n, bet) ==
    /\ y \in SeatRows /\ y.user = x.user /\ y.stack = x.stack - n
    /\ y.committed = x.committed + n /\ y.total = x.total + n
    /\ y.status \in {"active", "all_in"} \/ (y.status = "folded" /\ n = 0 /\ x.committed < bet)

Played(e, g, i, y, n) ==
    /\ IsState(g)
    /\ g.s = [e.s EXCEPT ![i] = y]
    /\ g.w = e.w /\ g.house = e.house /\ g.pool = e.pool /\ g.gone = e.gone /\ g.pots = e.pots
    /\ g.t.kind = e.t.kind /\ g.t.status = e.t.status /\ g.t.event = e.t.event
    /\ g.t.buyIn = e.t.buyIn /\ g.t.places = e.t.places /\ g.t.standing = e.t.standing
    /\ g.t.hands = e.t.hands
    /\ g.t.currentBet = IF e.t.currentBet >= y.committed THEN e.t.currentBet ELSE y.committed

LEMMA SeatsFinite == IsFiniteSet(SeatNos)
  BY SeatsAreFinite

LEMMA SeatSumUpdate ==
    ASSUME NEW f, NEW g, NEW i \in SeatNos, \A j \in SeatNos : f[j] \in Int /\ g[j] \in Int,
           \A j \in SeatNos \ {i} : g[j] = f[j]
    PROVE  SumFunctionOnSet(g, SeatNos) = SumFunctionOnSet(f, SeatNos) + g[i] - f[i]
  BY SeatsFinite, SumOfUpdate

LEMMA MoveKeeps ==
    ASSUME NEW e, HandOK(e), e.t.status = "active", NEW i \in SeatNos, e.s[i].status = "active",
           NEW n \in Nat, NEW y, Plays(e.s[i], y, n, e.t.currentBet),
           NEW g, Played(e, g, i, y, n)
    PROVE  /\ HandOK(g) /\ SameTable(e, g) /\ chipsIn(g) = chipsIn(e)
           /\ \A j \in SeatNos : isSeatInHand(e.s[j]) => isSeatInHand(g.s[j])
<1> DEFINE x == e.s[i]
           bet == e.t.currentBet
<1>1. IsState(e) /\ HandRows(e) /\ IsState(g)
  BY DEF HandOK, Played
<1>2. /\ x \in SeatRows /\ x.stack \in Nat /\ x.committed \in Nat /\ x.total \in Nat /\ bet \in Nat
      /\ x.committed <= bet /\ x.user # NoPlayer
  BY <1>1, RowFacts DEF HandRows
<1>3. /\ g.s[i] = y
      /\ \A j \in SeatNos \ {i} : g.s[j] = e.s[j]
  BY <1>1 DEF Played, IsState
<1>4. /\ y.user = x.user /\ y.stack = x.stack - n /\ y.committed = x.committed + n
      /\ y.total = x.total + n /\ y.status \in {"active", "all_in", "folded"}
      /\ y.status = "folded" => n = 0 /\ x.committed < bet
      /\ y.stack \in Nat /\ y.committed \in Nat /\ y.total \in Nat
  <2>1. y.stack \in Nat /\ y.committed \in Nat /\ y.total \in Nat
    BY DEF Plays, SeatRows
  <2> QED
    BY <2>1 DEF Plays
<1>5. \A j \in SeatNos : g.s[j].user = e.s[j].user
  BY <1>3, <1>4
<1>6. SameTable(e, g)
  BY <1>5 DEF SameTable, Played
<1>7. \A j \in SeatNos : isSeatInHand(e.s[j]) => isSeatInHand(g.s[j])
  BY <1>3, <1>4 DEF isSeatInHand
<1>8. chipsIn(g) = chipsIn(e)
  <2> DEFINE a == [j \in SeatNos |-> e.s[j].stack]
             b == [j \in SeatNos |-> e.s[j].total]
             c == [j \in SeatNos |-> g.s[j].stack]
             d == [j \in SeatNos |-> g.s[j].total]
  <2>1. \A j \in SeatNos : a[j] \in Int /\ b[j] \in Int /\ c[j] \in Int /\ d[j] \in Int
    BY <1>1, RowFacts
  <2>2. \A j \in SeatNos \ {i} : c[j] = a[j] /\ d[j] = b[j]
    BY <1>3
  <2>3. c[i] = a[i] - n /\ d[i] = b[i] + n
    BY <1>3, <1>4
  <2>4. /\ stacksOf(e, SeatNos) = SumFunctionOnSet(a, SeatNos)
        /\ totalOf(e, SeatNos) = SumFunctionOnSet(b, SeatNos)
        /\ stacksOf(g, SeatNos) = SumFunctionOnSet(c, SeatNos)
        /\ totalOf(g, SeatNos) = SumFunctionOnSet(d, SeatNos)
    BY DEF stacksOf, totalOf
  <2> HIDE DEF a, b, c, d
  <2>5. SumFunctionOnSet(c, SeatNos) = SumFunctionOnSet(a, SeatNos) + c[i] - a[i]
    BY <2>1, <2>2, SeatSumUpdate
  <2>6. SumFunctionOnSet(d, SeatNos) = SumFunctionOnSet(b, SeatNos) + d[i] - b[i]
    BY <2>1, <2>2, SeatSumUpdate
  <2>7. SumFunctionOnSet(a, SeatNos) \in Int /\ SumFunctionOnSet(b, SeatNos) \in Int
    BY <2>1, SeatsAreFinite, SumIsInt
  <2>8. g.gone = e.gone /\ e.gone \in Nat
    BY <1>1, RowFacts DEF Played
  <2> QED
    BY <2>1, <2>3, <2>4, <2>5, <2>6, <2>7, <2>8 DEF chipsIn
<1>9. g.t.status = "active" /\ g.t.currentBet \in Nat /\ g.t.currentBet >= bet
      /\ g.t.currentBet >= y.committed /\ (g.t.currentBet = bet \/ g.t.currentBet = y.committed)
  BY <1>2, <1>4 DEF Played
<1>10. HandRows(g)
  <2> SUFFICES ASSUME NEW j \in SeatNos
               PROVE  /\ g.s[j].user = NoPlayer => g.s[j].stack = 0 /\ g.s[j].status = "waiting"
                      /\ g.s[j].status = "waiting" => g.s[j].total = 0 /\ g.s[j].committed = 0
                      /\ g.s[j].committed <= g.t.currentBet
    BY <1>9 DEF HandRows
  <2>1. CASE j = i
    BY <1>2, <1>3, <1>4, <1>9, <2>1
  <2>2. CASE j # i
    <3>1. g.s[j] = e.s[j] /\ e.s[j].committed \in Nat
      BY <1>1, <1>3, <2>2, RowFacts
    <3> QED
      BY <1>1, <1>2, <1>9, <3>1 DEF HandRows
  <2> QED
    BY <2>1, <2>2
<1>11. ASSUME NEW b \in Nat, BetOn(e, b) PROVE BetOn(g, b)
  <2>1. x.total = b + x.committed
    BY <1>11 DEF BetOn
  <2>2. ASSUME NEW j \in SeatNos
        PROVE  /\ g.s[j].total <= b + g.s[j].committed
               /\ g.s[j].status = "active" => g.s[j].total = b + g.s[j].committed
    <3>1. CASE j = i
      BY <1>2, <1>3, <1>4, <2>1, <3>1
    <3>2. CASE j # i
      BY <1>3, <1>11, <3>2 DEF BetOn
    <3> QED
      BY <3>1, <3>2
  <2>3. i \in listNonFoldedSeats(g) <=> y.status # "folded"
    BY <1>2, <1>3, <1>4 DEF listNonFoldedSeats, seated
  <2>4. CASE g.t.currentBet # bet
    <3>1. g.t.currentBet = x.committed + n /\ n # 0
      BY <1>2, <1>4, <1>9, <2>4
    <3>2. i \in listNonFoldedSeats(g)
      BY <1>4, <2>3, <3>1
    <3>3. g.s[i].total = b + g.t.currentBet
      BY <1>2, <1>3, <1>4, <2>1, <3>1
    <3> QED
      BY <2>2, <3>2, <3>3 DEF BetOn
  <2>5. CASE g.t.currentBet = bet /\ Nobody(e)
    <3>1. bet = 0 /\ n = 0
      BY <1>2, <1>4, <1>9, <2>5 DEF Nobody
    <3>2. \A j \in SeatNos : g.s[j].total = 0
      BY <1>2, <1>3, <1>4, <2>5, <3>1 DEF Nobody
    <3>3. Nobody(g)
      BY <2>5, <3>1, <3>2 DEF Nobody
    <3> QED
      BY <2>2, <3>3 DEF BetOn
  <2>6. ASSUME g.t.currentBet = bet, NEW j \in listNonFoldedSeats(e), e.s[j].total = b + bet
        PROVE  BetOn(g, b)
    <3>1. j \in SeatNos
      BY <1>1, RowFacts
    <3>2. CASE j = i
      <4>1. n = 0 /\ y.status # "folded"
        BY <1>2, <1>4, <1>9, <2>1, <2>6, <3>2
      <4>2. g.s[i].total = b + g.t.currentBet
        BY <1>2, <1>3, <1>4, <2>6, <3>2, <4>1
      <4> QED
        BY <2>2, <2>3, <4>1, <4>2 DEF BetOn
    <3>3. CASE j # i
      <4>1. g.s[j] = e.s[j] /\ j \in listNonFoldedSeats(g)
        BY <1>3, <3>1, <3>3 DEF listNonFoldedSeats, seated
      <4> QED
        BY <2>2, <2>6, <4>1 DEF BetOn
    <3> QED
      BY <3>2, <3>3
  <2> QED
    BY <1>11, <2>4, <2>5, <2>6 DEF BetOn
<1>12. HandOK(g)
  <2>1. g.t.kind = e.t.kind
    BY DEF Played
  <2> QED
    BY <1>1, <1>10, <1>11, <2>1 DEF HandOK, Betting
<1> QED
  BY <1>6, <1>7, <1>8, <1>12

RowMoves(e, r, y) ==
    /\ r \in TableRows
    /\ r.kind = e.t.kind /\ r.status = e.t.status /\ r.event = e.t.event
    /\ r.buyIn = e.t.buyIn /\ r.places = e.t.places /\ r.standing = e.t.standing
    /\ r.hands = e.t.hands
    /\ r.currentBet = IF e.t.currentBet >= y.committed THEN e.t.currentBet ELSE y.committed

LEMMA SeatUpdate ==
    ASSUME NEW s \in [SeatNos -> SeatRows], NEW i \in SeatNos, NEW y \in SeatRows
    PROVE  [s EXCEPT ![i] = y] \in [SeatNos -> SeatRows]
OBVIOUS

\* From the moved seat and row to the state that waits for the next seat.
LEMMA MovedState ==
    ASSUME NEW e, IsState(e), NEW i \in SeatNos, NEW y \in SeatRows, NEW n, NEW r, RowMoves(e, r, y),
           NEW moved, BecomesToo(e, moved, r, [e.s EXCEPT ![i] = y]),
           NEW k \in SeatNos \cup {Nil}
    PROVE  /\ Played(e, waitsFor(moved, k), i, y, n)
           /\ waitsFor(moved, k).t.pending = k
           /\ listActionableSeats(waitsFor(moved, k)) = listActionableSeats(moved)
<1> DEFINE s == [e.s EXCEPT ![i] = y]
           q == [r EXCEPT !.pending = k]
           g == waitsFor(moved, k)
<1>1. s \in [SeatNos -> SeatRows]
  <2>1. e.s \in [SeatNos -> SeatRows]
    BY DEF IsState
  <2> QED
    BY <2>1, SeatUpdate
<1>2. q \in TableRows /\ q.pending = k /\ RowMoves(e, q, y)
  BY DEF RowMoves, TableRows
<1>3. Differs(e, moved, r, s)
  <2>1. Whole(e)
    BY WholeState
  <2> QED
    BY <2>1, NewStateToo
<1> HIDE DEF s, q
<1>4. Differs(e, g, q, s)
  <2> HIDE DEF g
  <2>1. Differs(e, waitsFor(moved, k), q, s)
    BY <1>3, Waiting DEF q
  <2> QED
    BY <2>1 DEF g
<1> HIDE DEF g
<1>5. IsState(g) /\ g.t = q /\ g.s = s
  BY <1>1, <1>2, <1>4 DEF Differs
<1>6. Played(e, g, i, y, n)
  BY <1>2, <1>4, <1>5 DEF Differs, Played, RowMoves, s
<1>7. listActionableSeats(g) = listActionableSeats(moved)
  <2>1. moved.s = s
    BY <1>3 DEF Differs
  <2> QED
    BY <1>5, <2>1 DEF listActionableSeats, seated
<1> QED
  BY <1>2, <1>5, <1>6, <1>7 DEF g

\* A move that is on offer.
Offered(e, i, move) ==
    /\ e.t.status = "active" /\ e.s[i].status = "active" /\ e.t.pending = i
    /\ \/ move.action = "fold" /\ e.t.currentBet > e.s[i].committed
       \/ move.action \in {"check", "call"}
       \/ /\ move.action \notin {"fold", "check", "call"}
          /\ move.to \in Nat /\ move.to >= e.s[i].committed
          /\ move.to <= e.s[i].committed + e.s[i].stack

LEMMA OfferedMoves ==
    ASSUME NEW e, HandOK(e), NEW i \in SeatNos,
           NEW move, move \in resolveHoldemActionAvailability(e, i)
    PROVE  Offered(e, i, move)
<1> DEFINE passive == IF toCall(e, i) > 0 THEN {"fold", "call"} ELSE {"check"}
           opens == IF e.t.currentBet = 0 THEN "bet" ELSE "raise"
<1>1. IsState(e) /\ HandRows(e)
  BY DEF HandOK
<1>2. /\ e.s[i].stack \in Nat /\ e.s[i].committed \in Nat
      /\ e.t.currentBet \in Nat /\ e.t.lastFullRaise \in Nat
      /\ e.s[i].committed <= e.t.currentBet
      /\ BigBlind \in Nat
  BY <1>1, RowFacts, HoldemBlinds DEF HandRows
<1>3. e.t.status = "active" /\ e.s[i].status = "active" /\ e.t.pending = i
  BY DEF resolveHoldemActionAvailability
<1>4. \/ move \in [action : passive, to : {0}]
      \/ move \in [action : {opens}, to : minimumRaiseTo(e)..maximumRaiseTo(e, i)]
      \/ move \in [action : {"all_in"}, to : {maximumRaiseTo(e, i)}]
  BY DEF resolveHoldemActionAvailability
<1>5. toCall(e, i) > 0 => e.t.currentBet > e.s[i].committed
  <2>1. PICK d \in Int : d = e.t.currentBet - e.s[i].committed
    BY <1>2
  <2>2. toCall(e, i) = IF 0 >= d THEN 0 ELSE d
    <3>1. Max({0, d}) = IF 0 >= d THEN 0 ELSE d
      BY <2>1 DEF Max
    <3> QED
      BY <2>1, <3>1 DEF toCall
  <2> QED
    BY <1>2, <2>1, <2>2
<1>6. PICK top \in Nat : top = maximumRaiseTo(e, i) /\ top = e.s[i].committed + e.s[i].stack
  BY <1>2 DEF maximumRaiseTo
<1>7. PICK low \in Nat : low = minimumRaiseTo(e) /\ low >= e.s[i].committed
  BY <1>2 DEF minimumRaiseTo
<1>8. CASE move \in [action : passive, to : {0}]
  BY <1>3, <1>5, <1>8 DEF Offered
<1>9. CASE move \in [action : {opens}, to : minimumRaiseTo(e)..maximumRaiseTo(e, i)]
  <2>1. move.action \in {"bet", "raise"} /\ move.to \in low..top
    BY <1>6, <1>7, <1>9
  <2>2. move.to \in Nat /\ move.to >= e.s[i].committed /\ move.to <= e.s[i].committed + e.s[i].stack
    BY <1>2, <1>6, <1>7, <2>1
  <2> QED
    BY <1>3, <2>1, <2>2 DEF Offered
<1>10. CASE move \in [action : {"all_in"}, to : {maximumRaiseTo(e, i)}]
  <2>1. move.action = "all_in" /\ move.to = top
    BY <1>6, <1>10
  <2> QED
    BY <1>2, <1>3, <1>6, <2>1 DEF Offered
<1> QED
  BY <1>4, <1>8, <1>9, <1>10

\* What a move makes of the seat and of the table's row.
MadeOf(e, i, moved) ==
    \E n \in Nat, y \in SeatRows : \E r :
        /\ Plays(e.s[i], y, n, e.t.currentBet) /\ RowMoves(e, r, y)
        /\ BecomesToo(e, moved, r, [e.s EXCEPT ![i] = y])

LEMMA PassiveMove ==
    ASSUME NEW e, HandOK(e), NEW i \in SeatNos, NEW move, Offered(e, i, move),
           move.action \in {"fold", "check", "call"}
    PROVE  MadeOf(e, i, applyPassiveSeatAction(e, i, move))
<1> DEFINE x == e.s[i]
           y == CASE move.action = "fold" -> [x EXCEPT !.status = "folded"]
                  [] move.action = "check" -> x
                  [] move.action = "call" -> postFromStack(x, toCall(e, i))
           acted == IF move.action = "fold" THEN e.t.acted ELSE e.t.acted \cup {i}
           r == [e.t EXCEPT !.acted = acted]
           moved == applyPassiveSeatAction(e, i, move)
<1>1. IsState(e) /\ HandRows(e)
  BY DEF HandOK
<1>2. /\ x \in SeatRows /\ x.stack \in Nat /\ x.committed \in Nat /\ x.total \in Nat
      /\ x.status = "active" /\ e.t.currentBet \in Nat /\ x.committed <= e.t.currentBet
  BY <1>1, RowFacts DEF HandRows, Offered
<1>3. BecomesToo(e, moved, r, [e.s EXCEPT ![i] = y])
  BY Zenon DEF BecomesToo, applyPassiveSeatAction
<1>4. acted \in SUBSET SeatNos
  BY <1>1, RowFacts
<1>5. PICK n \in Nat : Plays(x, y, n, e.t.currentBet) /\ y \in SeatRows
                       /\ y.committed <= e.t.currentBet /\ y.committed \in Nat
  <2>1. CASE move.action = "fold"
    <3>1. y = [x EXCEPT !.status = "folded"]
      BY <2>1
    <3>2. /\ y \in SeatRows /\ y.user = x.user /\ y.stack = x.stack /\ y.committed = x.committed
          /\ y.total = x.total /\ y.status = "folded"
      BY <1>2, <3>1 DEF SeatRows
    <3> HIDE DEF y
    <3>3. x.committed < e.t.currentBet
      BY <1>2, <2>1 DEF Offered
    <3>4. Plays(x, y, 0, e.t.currentBet)
      BY <1>2, <3>2, <3>3 DEF Plays
    <3> QED
      BY <1>2, <3>2, <3>4
  <2>2. CASE move.action = "check"
    <3>1. y = x
      BY <2>2
    <3> HIDE DEF y
    <3>2. Plays(x, y, 0, e.t.currentBet)
      BY <1>2, <3>1 DEF Plays
    <3> QED
      BY <1>2, <3>1, <3>2
  <2>3. CASE move.action = "call"
    <3>1. y = postFromStack(x, toCall(e, i))
      BY <2>3
    <3>2. PICK d \in Nat : d = toCall(e, i) /\ d = e.t.currentBet - x.committed
      <4>1. PICK d \in Nat : d = e.t.currentBet - x.committed
        BY <1>2
      <4>2. Max({0, d}) = d
        BY <4>1 DEF Max
      <4> QED
        BY <4>1, <4>2 DEF toCall
    <3> HIDE DEF y, x
    <3>3. PICK n \in Nat : n <= x.stack /\ n <= d /\ postFromStack(x, d) = putIn(x, n)
      BY <1>2, <3>2, Posting
    <3>4. LET z == putIn(x, n)
          IN  /\ z \in SeatRows /\ z.user = x.user /\ z.stack = x.stack - n
              /\ z.committed = x.committed + n /\ z.total = x.total + n
              /\ z.status = IF n = x.stack THEN "all_in" ELSE x.status
      BY <1>2, <3>3, PutIn
    <3>5. y = putIn(x, n)
      BY <3>1, <3>2, <3>3
    <3>6. Plays(x, y, n, e.t.currentBet)
      BY <1>2, <3>4, <3>5 DEF Plays
    <3>7. y.committed <= e.t.currentBet /\ y.committed \in Nat
      BY <1>2, <3>2, <3>3, <3>4, <3>5
    <3> QED
      BY <3>4, <3>5, <3>6, <3>7
  <2> QED
    BY <2>1, <2>2, <2>3
<1> HIDE DEF y, acted
<1>6. /\ r \in TableRows /\ r.kind = e.t.kind /\ r.status = e.t.status /\ r.event = e.t.event
      /\ r.buyIn = e.t.buyIn /\ r.places = e.t.places /\ r.standing = e.t.standing
      /\ r.hands = e.t.hands /\ r.currentBet = e.t.currentBet
  BY <1>1, <1>4 DEF IsState, TableRows
<1>7. RowMoves(e, r, y)
  BY <1>2, <1>5, <1>6 DEF RowMoves
<1> HIDE DEF r, moved, x
<1> QED
  BY <1>3, <1>5, <1>7 DEF MadeOf, moved, x

LEMMA BetMove ==
    ASSUME NEW e, HandOK(e), NEW i \in SeatNos, NEW move, Offered(e, i, move),
           move.action \notin {"fold", "check", "call"}
    PROVE  MadeOf(e, i, applyBetOrRaise(e, i, move))
<1> DEFINE x == e.s[i]
           bet == e.t.currentBet
           size == move.to - bet
           full == IF bet = 0 THEN move.to >= BigBlind ELSE size >= e.t.lastFullRaise
           y == postFromStack(x, move.to - x.committed)
           r == [e.t EXCEPT !.currentBet = Max({bet, move.to}),
                            !.lastFullRaise = IF full THEN size ELSE e.t.lastFullRaise,
                            !.acted = IF y.status = "active" THEN {i} ELSE {}]
           moved == applyBetOrRaise(e, i, move)
<1>1. IsState(e) /\ HandRows(e)
  BY DEF HandOK
<1>2. /\ x \in SeatRows /\ x.stack \in Nat /\ x.committed \in Nat /\ x.total \in Nat
      /\ x.status = "active" /\ bet \in Nat /\ x.committed <= bet
      /\ e.t.lastFullRaise \in Nat
  BY <1>1, RowFacts DEF HandRows, Offered
<1>3. BecomesToo(e, moved, r, [e.s EXCEPT ![i] = y])
  BY Zenon DEF BecomesToo, applyBetOrRaise
<1>4. PICK n \in Nat : n = move.to - x.committed /\ n <= x.stack /\ move.to \in Nat
  BY <1>2 DEF Offered
<1>5. y = putIn(x, n)
  <2> HIDE DEF x
  <2>1. PICK m \in Nat : postFromStack(x, n) = putIn(x, m) /\ (n <= x.stack => m = n)
    BY <1>2, Posting
  <2> QED
    BY <1>4, <2>1
<1>6. /\ y \in SeatRows /\ y.user = x.user /\ y.stack = x.stack - n
      /\ y.committed = x.committed + n /\ y.total = x.total + n
      /\ y.status = IF n = x.stack THEN "all_in" ELSE x.status
  <2> HIDE DEF x, y
  <2> QED
    BY <1>2, <1>4, <1>5, PutIn
<1> HIDE DEF y
<1>7. y.committed = move.to /\ Plays(x, y, n, bet)
  BY <1>2, <1>4, <1>6 DEF Plays
<1>8. Max({bet, move.to}) = (IF bet >= move.to THEN bet ELSE move.to) /\ Max({bet, move.to}) \in Nat
  <2>1. PICK p \in Nat, q \in Nat : p = bet /\ q = move.to
    BY <1>2, <1>4
  <2>2. Max({p, q}) = IF p >= q THEN p ELSE q
    BY LeastOfTwo
  <2> QED
    BY <2>1, <2>2
<1>9. (IF full THEN size ELSE e.t.lastFullRaise) \in Nat
  BY <1>2, <1>4
<1>10. (IF y.status = "active" THEN {i} ELSE {}) \in SUBSET SeatNos
  OBVIOUS
<1> DEFINE top == Max({bet, move.to})
           raise == IF full THEN size ELSE e.t.lastFullRaise
           who == IF y.status = "active" THEN {i} ELSE {}
<1>11. r = [e.t EXCEPT !.currentBet = top, !.lastFullRaise = raise, !.acted = who]
  OBVIOUS
<1> HIDE DEF top, raise, who, r
<1>12. /\ r \in TableRows /\ r.kind = e.t.kind /\ r.status = e.t.status /\ r.event = e.t.event
       /\ r.buyIn = e.t.buyIn /\ r.places = e.t.places /\ r.standing = e.t.standing
       /\ r.hands = e.t.hands /\ r.currentBet = top
  <2>1. top \in Nat /\ raise \in Nat /\ who \in SUBSET SeatNos
    BY <1>8, <1>9, <1>10 DEF top, raise, who
  <2>2. e.t \in TableRows
    BY <1>1 DEF IsState
  <2> QED
    BY <1>11, <2>1, <2>2 DEF TableRows
<1>13. RowMoves(e, r, y)
  BY <1>7, <1>8, <1>12 DEF RowMoves, top
<1> HIDE DEF moved, x
<1> QED
  BY <1>3, <1>6, <1>7, <1>13 DEF MadeOf, moved, x

LEMMA MoveOutcome ==
    ASSUME NEW e, HandOK(e), NEW i \in SeatNos, NEW move, NEW f \in actOnHoldemSeat(e, i, move)
    PROVE  Outcome(e, f)
<1> DEFINE moved == IF move.action \in {"fold", "check", "call"}
                    THEN applyPassiveSeatAction(e, i, move)
                    ELSE applyBetOrRaise(e, i, move)
           next == nextSeatIndex(listActionableSeats(moved), i)
           g == waitsFor(moved, next)
<1>1. move \in resolveHoldemActionAvailability(e, i)
      /\ f \in resolveTerminalAndStreetProgression(g)
  BY DEF actOnHoldemSeat
<1>2. Offered(e, i, move)
  BY <1>1, OfferedMoves
<1>3. MadeOf(e, i, moved)
  BY <1>2, PassiveMove, BetMove
<1> HIDE DEF moved
<1>4. PICK n \in Nat, y \in SeatRows : \E r :
        /\ Plays(e.s[i], y, n, e.t.currentBet) /\ RowMoves(e, r, y)
        /\ BecomesToo(e, moved, r, [e.s EXCEPT ![i] = y])
  BY <1>3 DEF MadeOf
<1>40. PICK r :
        /\ Plays(e.s[i], y, n, e.t.currentBet) /\ RowMoves(e, r, y)
        /\ BecomesToo(e, moved, r, [e.s EXCEPT ![i] = y])
  BY <1>4
<1>5. IsState(e) /\ e.t.status = "active" /\ e.s[i].status = "active"
  BY <1>2 DEF HandOK, Offered
<1>6. listActionableSeats(moved) \in SUBSET SeatNos
  BY DEF listActionableSeats, seated
<1>7. next \in SeatNos \cup {Nil}
      /\ (listActionableSeats(moved) # {} => next \in listActionableSeats(moved))
  BY <1>6, NextSeat
<1> HIDE DEF next
<1>8. /\ Played(e, g, i, y, n) /\ g.t.pending = next
      /\ listActionableSeats(g) = listActionableSeats(moved)
  BY <1>40, <1>5, <1>7, MovedState
<1> HIDE DEF g
<1>9. /\ HandOK(g) /\ SameTable(e, g) /\ chipsIn(g) = chipsIn(e)
      /\ \A j \in SeatNos : isSeatInHand(e.s[j]) => isSeatInHand(g.s[j])
  BY <1>40, <1>5, <1>8, MoveKeeps
<1>10. TurnIsTaken(g)
  BY <1>5, <1>7, <1>8, <1>9 DEF TurnIsTaken, Played
<1>11. Outcome(g, f)
  BY <1>1, <1>10, ResolveOutcome
<1> QED
  BY <1>8, <1>9, <1>11 DEF Outcome, SameTable, Played

-----------------------------------------------------------------------------
(* The start of a hand *)

LEMMA ChipsMove ==
    ASSUME NEW e, NEW f, IsState(e), IsState(f), f.gone = e.gone,
           \A i \in SeatNos : f.s[i].stack + f.s[i].total = e.s[i].stack + e.s[i].total
    PROVE  chipsIn(f) = chipsIn(e)
<1> DEFINE a == [i \in SeatNos |-> e.s[i].stack]
           b == [i \in SeatNos |-> e.s[i].total]
           c == [i \in SeatNos |-> f.s[i].stack]
           d == [i \in SeatNos |-> f.s[i].total]
           m == [i \in SeatNos |-> e.s[i].stack + e.s[i].total]
<1>1. \A i \in SeatNos : /\ a[i] \in Int /\ b[i] \in Int /\ c[i] \in Int /\ d[i] \in Int
                         /\ m[i] = a[i] + b[i] /\ m[i] = c[i] + d[i]
  BY RowFacts
<1>2. /\ stacksOf(e, SeatNos) = SumFunctionOnSet(a, SeatNos)
      /\ totalOf(e, SeatNos) = SumFunctionOnSet(b, SeatNos)
      /\ stacksOf(f, SeatNos) = SumFunctionOnSet(c, SeatNos)
      /\ totalOf(f, SeatNos) = SumFunctionOnSet(d, SeatNos)
  BY DEF stacksOf, totalOf
<1> HIDE DEF a, b, c, d, m
<1>3. SumFunctionOnSet(m, SeatNos) = SumFunctionOnSet(a, SeatNos) + SumFunctionOnSet(b, SeatNos)
  BY <1>1, SeatsFinite, SumOfSums
<1>4. SumFunctionOnSet(m, SeatNos) = SumFunctionOnSet(c, SeatNos) + SumFunctionOnSet(d, SeatNos)
  BY <1>1, SeatsFinite, SumOfSums
<1> QED
  BY <1>2, <1>3, <1>4 DEF chipsIn

dealtTo(x, in) ==
    [x EXCEPT !.committed = 0, !.total = 0, !.status = IF in THEN "active" ELSE "waiting"]

\* A seat that has been dealt in, or left out, and has put in n.
DealtIn(x, y, in, n) ==
    /\ y \in SeatRows /\ y.user = x.user /\ y.stack = x.stack - n /\ y.committed = n /\ y.total = n
    /\ in => y.status \in {"active", "all_in"}
    /\ ~in => n = 0 /\ y.status = "waiting"

LEMMA Dealing ==
    ASSUME NEW x \in SeatRows, NEW in \in BOOLEAN, NEW blind \in Nat
    PROVE  /\ DealtIn(x, dealtTo(x, in), in, 0)
           /\ in => \E n \in Nat : DealtIn(x, postFromStack(dealtTo(x, in), blind), in, n)
<1> DEFINE y == dealtTo(x, in)
<1>1. /\ y \in SeatRows /\ y.user = x.user /\ y.stack = x.stack /\ y.committed = 0 /\ y.total = 0
      /\ y.status = IF in THEN "active" ELSE "waiting"
  BY DEF dealtTo, SeatRows
<1>2. x.stack \in Nat
  BY DEF SeatRows
<1> HIDE DEF y
<1>3. DealtIn(x, y, in, 0)
  BY <1>1, <1>2 DEF DealtIn
<1>4. ASSUME in PROVE \E n \in Nat : DealtIn(x, postFromStack(y, blind), in, n)
  <2>1. PICK n \in Nat : n <= y.stack /\ postFromStack(y, blind) = putIn(y, n)
    BY <1>1, Posting
  <2>2. LET z == putIn(y, n)
        IN  /\ z \in SeatRows /\ z.user = y.user /\ z.stack = y.stack - n
            /\ z.committed = y.committed + n /\ z.total = y.total + n
            /\ z.status = IF n = y.stack THEN "all_in" ELSE y.status
    BY <1>1, <2>1, PutIn
  <2>3. DealtIn(x, putIn(y, n), in, n)
    BY <1>1, <1>2, <1>4, <2>2 DEF DealtIn
  <2> QED
    BY <2>1, <2>3
<1> QED
  BY <1>3, <1>4 DEF y

LEMMA DealerAndBlinds ==
    ASSUME NEW e, listEligibleSeats(e) # {}
    PROVE  /\ resolveNextDealerSeatIndex(e) \in listEligibleSeats(e)
           /\ LET blind == resolveBlindSeats(e, resolveNextDealerSeatIndex(e))
              IN  /\ blind.small \in listEligibleSeats(e) \cup {Nil}
                  /\ blind.big \in listEligibleSeats(e) \cup {Nil}
<1> DEFINE in == listEligibleSeats(e)
           dealer == resolveNextDealerSeatIndex(e)
           left == nextSeatIndex(in, dealer)
           blind == resolveBlindSeats(e, dealer)
<1>1. in \in SUBSET SeatNos
  BY DEF listEligibleSeats, seated
<1>2. \A k : nextSeatIndex(in, k) \in in
  <2> HIDE DEF in
  <2>1. in # {}
    BY DEF in
  <2> QED
    BY <1>1, <2>1, NextSeat
<1>3. Min(in) \in in
  <2> HIDE DEF in
  <2>1. in # {} /\ in \in SUBSET Nat
    BY <1>1, SeatsAreFinite DEF in
  <2> QED
    BY <2>1, MinOfNaturals
<1>4. dealer \in in
  BY <1>2, <1>3 DEF resolveNextDealerSeatIndex
<1>5. blind \in {[small |-> Nil, big |-> Nil], [small |-> dealer, big |-> left],
                 [small |-> left, big |-> nextSeatIndex(in, left)]}
  BY DEF resolveBlindSeats
<1>6. left \in in /\ nextSeatIndex(in, left) \in in
  BY <1>2
<1> HIDE DEF in, dealer, left, blind
<1>7. blind.small \in in \cup {Nil} /\ blind.big \in in \cup {Nil}
  BY <1>4, <1>5, <1>6
<1> QED
  BY <1>4, <1>7 DEF in, dealer, blind

Started(e, f) ==
    /\ HandOK(f) /\ SameTable(e, f) /\ chipsIn(f) = chipsIn(e)
    /\ f.t.hands = e.t.hands + 1
    /\ f.t.status = "active" =>
        /\ f.pots = e.pots /\ f.gone = e.gone
        /\ f.t.pending \in listActionableSeats(f)
        /\ \A i \in listEligibleSeats(e) : isSeatInHand(f.s[i])
    /\ e.t.kind # "casual" => f.gone = e.gone

\* Every seat is dealt in or left out; nobody has put in more than the current bet.
HandDealt(e, g) ==
    /\ \A i \in SeatNos : \E n \in 0..g.t.currentBet :
        DealtIn(e.s[i], g.s[i], i \in listEligibleSeats(e), n)
    /\ \E i \in SeatNos : DealtIn(e.s[i], g.s[i], i \in listEligibleSeats(e), g.t.currentBet)
    /\ IsState(g) /\ g.t.status = "active" /\ g.t.hands = e.t.hands + 1
    /\ g.w = e.w /\ g.house = e.house /\ g.pool = e.pool /\ g.gone = e.gone /\ g.pots = e.pots
    /\ g.t.kind = e.t.kind /\ g.t.event = e.t.event
    /\ g.t.buyIn = e.t.buyIn /\ g.t.places = e.t.places /\ g.t.standing = e.t.standing

LEMMA DealingKeeps ==
    ASSUME NEW e, HandOK(e), e.t.status = "waiting", NEW g, HandDealt(e, g)
    PROVE  /\ HandOK(g) /\ SameTable(e, g) /\ chipsIn(g) = chipsIn(e)
           /\ \A i \in listEligibleSeats(e) : isSeatInHand(g.s[i])
<1> DEFINE in(i) == i \in listEligibleSeats(e)
<1>1. IsState(e) /\ IsState(g) /\ HandRows(e) /\ g.t.currentBet \in Nat
  BY RowFacts DEF HandOK, HandDealt
<1>2. \A i \in SeatNos : /\ e.s[i].total = 0 /\ e.s[i].committed = 0 /\ e.s[i].stack \in Nat
                         /\ e.s[i].user = NoPlayer => e.s[i].stack = 0 /\ ~in(i)
  BY <1>1, RowFacts DEF HandRows, listEligibleSeats, seated
<1>3. ASSUME NEW i \in SeatNos
      PROVE  /\ g.s[i].user = e.s[i].user
             /\ g.s[i].stack + g.s[i].total = e.s[i].stack + e.s[i].total
             /\ g.s[i].total = g.s[i].committed /\ g.s[i].committed \in Nat
             /\ g.s[i].committed <= g.t.currentBet
             /\ in(i) => g.s[i].status \in {"active", "all_in"}
             /\ ~in(i) => g.s[i].status = "waiting" /\ g.s[i].total = 0 /\ g.s[i].stack = e.s[i].stack
  <2>1. PICK n \in 0..g.t.currentBet : DealtIn(e.s[i], g.s[i], in(i), n)
    BY DEF HandDealt
  <2> QED
    BY <1>1, <1>2, <2>1 DEF DealtIn
<1>4. SameTable(e, g)
  BY <1>3 DEF HandDealt, SameTable
<1>5. chipsIn(g) = chipsIn(e)
  BY <1>1, <1>3, ChipsMove DEF HandDealt
<1>6. \A i \in listEligibleSeats(e) : isSeatInHand(g.s[i])
  BY <1>3 DEF listEligibleSeats, seated, isSeatInHand
<1>7. HandRows(g)
  <2>1. ASSUME NEW i \in SeatNos
        PROVE  /\ g.s[i].user = NoPlayer => g.s[i].stack = 0 /\ g.s[i].status = "waiting"
               /\ g.s[i].status = "waiting" => g.s[i].total = 0 /\ g.s[i].committed = 0
               /\ g.s[i].committed <= g.t.currentBet
    BY <1>2, <1>3
  <2>2. g.t.status = "active"
    BY DEF HandDealt
  <2> QED
    BY <2>1, <2>2 DEF HandRows
<1>8. BetOn(g, 0)
  <2>1. \A i \in SeatNos : /\ g.s[i].total <= 0 + g.s[i].committed
                           /\ g.s[i].status = "active" => g.s[i].total = 0 + g.s[i].committed
    BY <1>3
  <2>2. PICK i \in SeatNos : DealtIn(e.s[i], g.s[i], in(i), g.t.currentBet)
    BY DEF HandDealt
  <2>3. CASE g.t.currentBet = 0
    <3>1. Nobody(g)
      BY <1>3, <2>3 DEF Nobody
    <3> QED
      BY <2>1, <3>1 DEF BetOn
  <2>4. CASE g.t.currentBet # 0
    <3>1. in(i) /\ g.s[i].total = 0 + g.t.currentBet
      BY <1>1, <2>2, <2>4 DEF DealtIn
    <3>2. i \in listNonFoldedSeats(g)
      BY <1>2, <1>3, <3>1 DEF listNonFoldedSeats, seated
    <3> QED
      BY <2>1, <3>1, <3>2 DEF BetOn
  <2> QED
    BY <2>3, <2>4
<1>9. HandOK(g)
  BY <1>1, <1>7, <1>8 DEF HandOK, Betting
<1> QED
  BY <1>4, <1>5, <1>6, <1>9

LEMMA StartOutcome ==
    ASSUME NEW e, HandOK(e), e.t.status = "waiting", e.t.hands < MaxHands,
           listEligibleSeats(e) # {}, NEW f \in startHoldemHand(e)
    PROVE  Started(e, f)
<1> DEFINE in == listEligibleSeats(e)
           dealer == resolveNextDealerSeatIndex(e)
           blind == resolveBlindSeats(e, dealer)
           dealt(i) == [e.s[i] EXCEPT !.committed = 0, !.total = 0,
                                      !.status = IF i \in in THEN "active" ELSE "waiting"]
           posted == [i \in SeatNos |->
                       CASE i = blind.small -> postFromStack(dealt(i), SmallBlind)
                         [] i = blind.big -> postFromStack(dealt(i), BigBlind)
                         [] OTHER -> dealt(i)]
           bet == Max({posted[i].committed : i \in SeatNos})
           row == [e.t EXCEPT !.status = "active", !.hands = e.t.hands + 1, !.board = 0,
                              !.dealer = dealer, !.acted = {}, !.currentBet = bet,
                              !.lastFullRaise = BigBlind]
           opened == [e EXCEPT !.s = posted, !.t = row]
           first == nextSeatIndex(listActionableSeats(opened),
                                  IF blind.big = Nil THEN dealer ELSE blind.big)
           q == [row EXCEPT !.pending = first]
           g == waitsFor(opened, first)
<1>1. f \in resolveTerminalAndStreetProgression(g)
  BY Zenon DEF startHoldemHand
<1>2. IsState(e) /\ Whole(e) /\ HandRows(e) /\ BigBlind \in Nat /\ SmallBlind \in Nat
  BY HoldemBlinds, WholeState DEF HandOK
<1>3. dealer \in in /\ blind.small \in in \cup {Nil} /\ blind.big \in in \cup {Nil}
  BY DealerAndBlinds
<1>4. in \in SUBSET SeatNos /\ \A i \in SeatNos : i # Nil
  BY DEF listEligibleSeats, seated, SeatNos, Nil
<1>5. \A i \in SeatNos : dealt(i) = dealtTo(e.s[i], i \in in)
  BY DEF dealtTo
<1>6. ASSUME NEW i \in SeatNos
      PROVE  \E n \in Nat : DealtIn(e.s[i], posted[i], i \in in, n)
  <2>1. e.s[i] \in SeatRows /\ (i \in in) \in BOOLEAN
    BY <1>2, RowFacts
  <2>2. \/ posted[i] = dealt(i)
        \/ i \in in /\ posted[i] = postFromStack(dealt(i), SmallBlind)
        \/ i \in in /\ posted[i] = postFromStack(dealt(i), BigBlind)
    <3>1. /\ i = blind.small => i \in in
          /\ i = blind.big => i \in in
      BY <1>3, <1>4
    <3> HIDE DEF in, dealer, blind, dealt
    <3>2. posted[i] = CASE i = blind.small -> postFromStack(dealt(i), SmallBlind)
                        [] i = blind.big -> postFromStack(dealt(i), BigBlind)
                        [] OTHER -> dealt(i)
      OBVIOUS
    <3> QED
      BY <3>1, <3>2
  <2> HIDE DEF posted, dealt, in
  <2>3. dealt(i) = dealtTo(e.s[i], i \in in)
    BY <1>5
  <2>4. DealtIn(e.s[i], dealtTo(e.s[i], i \in in), i \in in, 0)
    BY <1>2, <2>1, Dealing
  <2>5. ASSUME i \in in, NEW c \in Nat
        PROVE  \E n \in Nat : DealtIn(e.s[i], postFromStack(dealtTo(e.s[i], i \in in), c), i \in in, n)
    BY <2>1, <2>5, Dealing
  <2> QED
    BY <1>2, <2>2, <2>3, <2>4, <2>5
<1>7. posted \in [SeatNos -> SeatRows]
  <2>1. posted = [i \in SeatNos |-> posted[i]]
    OBVIOUS
  <2> HIDE DEF posted
  <2>2. \A i \in SeatNos : posted[i] \in SeatRows
    BY <1>6 DEF DealtIn
  <2> QED
    BY <2>1, <2>2
<1> HIDE DEF posted, dealt, blind, dealer
<1>8. /\ bet \in Nat /\ \A i \in SeatNos : posted[i].committed <= bet
      /\ \E i \in SeatNos : posted[i].committed = bet
  <2> DEFINE B == {posted[i].committed : i \in SeatNos}
             p == [i \in SeatNos |-> posted[i].committed]
  <2>1. \A i \in SeatNos : p[i] \in Nat /\ p[i] \in B /\ p[i] = posted[i].committed
    BY <1>7 DEF SeatRows
  <2>2. \A b \in B : \E i \in SeatNos : b = p[i]
    OBVIOUS
  <2>3. \E i \in SeatNos : TRUE
    BY <1>3, <1>4
  <2> HIDE DEF B, p
  <2>4. IsFiniteSet(B)
    BY <2>2, SeatsFinite, ImageIsFinite
  <2>5. B \in SUBSET Nat /\ B # {}
    BY <2>1, <2>2, <2>3
  <2>6. Max(B) \in B /\ \A m \in B : Max(B) >= m
    BY <2>4, <2>5, MaxOfFinite
  <2>7. Max(B) \in Nat /\ (\A i \in SeatNos : p[i] <= Max(B)) /\ \E i \in SeatNos : p[i] = Max(B)
    BY <2>1, <2>2, <2>5, <2>6
  <2> QED
    BY <2>1, <2>7 DEF B
<1> HIDE DEF bet
<1>9. first \in SeatNos \cup {Nil}
      /\ (listActionableSeats(opened) # {} => first \in listActionableSeats(opened))
  <2>1. listActionableSeats(opened) \in SUBSET SeatNos
    BY DEF listActionableSeats, seated
  <2> HIDE DEF opened
  <2> QED
    BY <2>1, NextSeat
<1>10. e.t.hands + 1 \in 0..MaxHands
  <2>1. e.t.hands \in 0..MaxHands /\ MaxHands \in Nat
    BY <1>2, RowFacts, HoldemAssumption
  <2> QED
    BY <2>1
<1> HIDE DEF first
<1>11. /\ row \in TableRows /\ q \in TableRows /\ q.pending = first /\ q.status = "active"
       /\ q.hands = e.t.hands + 1
       /\ q.currentBet = bet /\ q.kind = e.t.kind /\ q.event = e.t.event /\ q.buyIn = e.t.buyIn
       /\ q.places = e.t.places /\ q.standing = e.t.standing
  <2>1. e.t \in TableRows /\ dealer \in SeatNos
    BY <1>2, <1>3, <1>4 DEF IsState
  <2> HIDE DEF in
  <2>2. /\ row \in TableRows /\ row.status = "active" /\ row.hands = e.t.hands + 1
        /\ row.currentBet = bet /\ row.kind = e.t.kind /\ row.event = e.t.event
        /\ row.buyIn = e.t.buyIn /\ row.places = e.t.places /\ row.standing = e.t.standing
    BY <1>2, <1>8, <1>10, <2>1 DEF TableRows
  <2> HIDE DEF row
  <2> QED
    BY <1>9, <2>2 DEF TableRows
<1> HIDE DEF row, q
<1>12. Differs(e, opened, row, posted)
  <2>1. BecomesToo(e, opened, row, posted)
    BY Zenon DEF BecomesToo
  <2> HIDE DEF opened
  <2> QED
    BY <1>2, <2>1, NewStateToo
<1> HIDE DEF opened
<1>13. Differs(e, g, q, posted)
  <2> HIDE DEF g
  <2>1. Differs(e, waitsFor(opened, first), q, posted)
    BY <1>12, Waiting DEF q
  <2> QED
    BY <2>1 DEF g
<1> HIDE DEF g
<1>14. IsState(g) /\ g.t = q /\ g.s = posted
  BY <1>2, <1>7, <1>11, <1>13 DEF Differs
<1>15. HandDealt(e, g)
  <2>1. ASSUME NEW i \in SeatNos
        PROVE  posted[i].committed \in 0..bet /\ DealtIn(e.s[i], posted[i], i \in in, posted[i].committed)
    <3>1. PICK n \in Nat : DealtIn(e.s[i], posted[i], i \in in, n)
      BY <1>6
    <3>2. n = posted[i].committed
      BY <3>1 DEF DealtIn
    <3> QED
      BY <1>8, <3>1, <3>2
  <2>2. PICK i \in SeatNos : posted[i].committed = bet
    BY <1>8
  <2> HIDE DEF in
  <2>3. g.t.currentBet = bet
    BY <1>11, <1>14
  <2>4. \A j \in SeatNos : \E n \in 0..g.t.currentBet : DealtIn(e.s[j], g.s[j], j \in in, n)
    BY <1>14, <2>1, <2>3
  <2>5. DealtIn(e.s[i], g.s[i], i \in in, g.t.currentBet)
    BY <1>14, <2>1, <2>2, <2>3
  <2> QED
    BY <1>11, <1>13, <1>14, <2>4, <2>5 DEF HandDealt, Differs, in
<1>16. /\ HandOK(g) /\ SameTable(e, g) /\ chipsIn(g) = chipsIn(e)
       /\ \A i \in listEligibleSeats(e) : isSeatInHand(g.s[i])
  BY <1>15, DealingKeeps
<1>17. TurnIsTaken(g)
  <2>1. listActionableSeats(g) = listActionableSeats(opened)
    BY <1>12, <1>14 DEF Differs, listActionableSeats, seated
  <2> QED
    BY <1>9, <1>11, <1>14, <1>16, <2>1 DEF TurnIsTaken
<1>18. Outcome(g, f)
  BY <1>1, <1>17, ResolveOutcome
<1>19. SameTable(e, f)
  BY <1>16, <1>18 DEF Outcome, SameTable
<1>20. ASSUME f.t.status = "active", NEW i \in listEligibleSeats(e) PROVE isSeatInHand(f.s[i])
  <2>1. i \in SeatNos
    BY <1>4
  <2> QED
    BY <1>16, <1>18, <1>20, <2>1 DEF Outcome
<1>21. g.t.hands = e.t.hands + 1 /\ g.gone = e.gone /\ g.pots = e.pots /\ g.t.kind = e.t.kind
  BY <1>15 DEF HandDealt
<1> QED
  BY <1>16, <1>18, <1>19, <1>20, <1>21 DEF Outcome, Started

-----------------------------------------------------------------------------
(* The rake *)

\* What the pots below a level hold, and what is taken of the level's own pot.
heldBelow(e, l) ==
    SumFunctionOnSet([m \in contributed(e) |-> amountAt(e, m)], under(contributed(e), l))
takenAt(e, rake, l) == Min({amountAt(e, l), Max({0, rake - heldBelow(e, l)})})

LEMMA TakenFacts ==
    ASSUME NEW e, TotalsOK(e), NEW rake \in Nat, NEW l \in contributed(e)
    PROVE  \E a \in Nat, b \in Nat, t \in Nat :
            /\ a = amountAt(e, l) /\ b = heldBelow(e, l) /\ t = takenAt(e, rake, l)
            /\ t = IF rake - b <= 0 THEN 0 ELSE IF a <= rake - b THEN a ELSE rake - b
<1> DEFINE amount == [m \in contributed(e) |-> amountAt(e, m)]
           S == under(contributed(e), l)
<1>1. PICK a \in Nat : a = amountAt(e, l)
  BY StepIsPositive
<1>2. PICK b \in Nat : b = heldBelow(e, l)
  <2>1. S \in SUBSET contributed(e) /\ IsFiniteSet(S)
    BY LevelFacts, LevelMembers, FS_Subset
  <2>2. \A m \in S : amount[m] \in Nat
    BY <2>1, StepIsPositive
  <2> HIDE DEF amount, S
  <2>3. SumFunctionOnSet(amount, S) \in Nat
    BY <2>1, <2>2, SumIsNat
  <2> QED
    BY <2>3 DEF heldBelow, amount, S
<1>3. PICK d \in Int : d = rake - b
  OBVIOUS
<1>4. PICK c \in Nat : c = Max({0, d}) /\ c = IF d <= 0 THEN 0 ELSE d
  <2>1. Max({0, d}) = IF d <= 0 THEN 0 ELSE d
    BY DEF Max
  <2> QED
    BY <2>1
<1>5. Min({a, c}) = IF a <= c THEN a ELSE c
  BY LeastOfTwo
<1>6. takenAt(e, rake, l) = IF a <= c THEN a ELSE c
  BY <1>1, <1>2, <1>3, <1>4, <1>5 DEF takenAt
<1> QED
  BY <1>1, <1>2, <1>3, <1>4, <1>6

\* Pot by pot from the lowest, what is taken is the rake.
LEMMA TakenAddsUp ==
    ASSUME NEW e, TotalsOK(e), NEW rake \in Nat,
           rake <= SumFunctionOnSet([l \in contributed(e) |-> amountAt(e, l)], contributed(e))
    PROVE  SumFunctionOnSet([l \in contributed(e) |-> takenAt(e, rake, l)], contributed(e)) = rake
<1> DEFINE C == contributed(e)
           amount == [l \in C |-> amountAt(e, l)]
           taken == [l \in C |-> takenAt(e, rake, l)]
           upto(s) == SumFunctionOnSet(amount, s)
           h == [s \in SUBSET C |-> IF upto(s) <= rake THEN upto(s) ELSE rake]
<1>1. IsFiniteSet(C) /\ C \in SUBSET Nat
  BY LevelFacts
<1>2. \A l \in C : amount[l] \in Nat
  BY StepIsPositive
<1>3. ASSUME NEW s \in SUBSET C PROVE upto(s) \in Nat /\ IsFiniteSet(s)
  <2> HIDE DEF amount, C
  <2>1. IsFiniteSet(s) /\ \A l \in s : amount[l] \in Nat
    BY <1>1, <1>2, FS_Subset
  <2> QED
    BY <2>1, SumIsNat
<1>4. h[{}] = 0
  <2>1. upto({}) = 0
    BY SumOfNone
  <2> HIDE DEF upto, amount
  <2> QED
    BY <2>1
<1>5. ASSUME NEW l \in C PROVE h[upTo(C, l)] = taken[l] + h[under(C, l)] /\ taken[l] \in Nat
  <2>1. PICK a \in Nat, b \in Nat, t \in Nat :
            /\ a = amountAt(e, l) /\ b = heldBelow(e, l) /\ t = takenAt(e, rake, l)
            /\ t = IF rake - b <= 0 THEN 0 ELSE IF a <= rake - b THEN a ELSE rake - b
    BY TakenFacts
  <2>2. upTo(C, l) \in SUBSET C /\ under(C, l) \in SUBSET C
    BY LevelMembers
  <2>3. l \notin under(C, l) /\ upTo(C, l) = under(C, l) \cup {l}
    <3>1. l \in Nat /\ \A m \in C : m \in Nat
      BY <1>1
    <3> HIDE DEF C
    <3>2. l \notin under(C, l)
      BY <3>1, LevelMembers
    <3>3. \A m \in C : m <= l <=> m < l \/ m = l
      BY <3>1
    <3>4. \A m : m \in upTo(C, l) <=> m \in under(C, l) \cup {l}
      BY <1>5, <3>1, <3>3, LevelMembers
    <3> QED
      BY <3>2, <3>4
  <2>4. upto(under(C, l)) = b
    BY <2>1 DEF heldBelow
  <2>5. upto(upTo(C, l)) = a + b
    <3>1. amount[l] = a /\ \A m \in under(C, l) \cup {l} : amount[m] \in Int
      BY <1>2, <2>1, <2>2
    <3>2. IsFiniteSet(under(C, l))
      BY <1>3, <2>2
    <3> HIDE DEF amount, C
    <3>3. SumFunctionOnSet(amount, under(C, l) \cup {l}) = amount[l] + SumFunctionOnSet(amount, under(C, l))
      BY <2>3, <3>1, <3>2, SumWith
    <3> QED
      BY <2>3, <2>4, <3>1, <3>3
  <2>6. taken[l] = t
    BY <2>1
  <2>7. h[upTo(C, l)] = (IF upto(upTo(C, l)) <= rake THEN upto(upTo(C, l)) ELSE rake)
        /\ h[under(C, l)] = (IF upto(under(C, l)) <= rake THEN upto(under(C, l)) ELSE rake)
    BY <2>2
  <2> HIDE DEF h, taken, C, upto
  <2> QED
    BY <2>1, <2>4, <2>5, <2>6, <2>7
<1>6. h[C] = rake
  <2>1. h[C] = IF upto(C) <= rake THEN upto(C) ELSE rake
    OBVIOUS
  <2>2. upto(C) \in Nat /\ rake <= upto(C)
    BY <1>3
  <2> HIDE DEF h, upto, C
  <2> QED
    BY <2>1, <2>2
<1> HIDE DEF h, taken, C
<1>7. GrowsByLevels(h, taken, C)
  BY <1>1, <1>4, <1>5 DEF GrowsByLevels
<1>8. \A l \in C : taken[l] \in Int
  BY <1>5
<1>9. SumFunctionOnSet(taken, C) = h[C]
  BY <1>1, <1>7, <1>8, SumByLevels
<1> QED
  BY <1>6, <1>9 DEF taken, C

\* What the seats pay is the rake, and nobody pays more than what they won.
rakeOn(e, W, rake) ==
    [i \in SeatNos |->
        SumFunctionOnSet([l \in contributed(e) |-> seatShare(e, takenAt(e, rake, l), W[l])[i]],
                         contributed(e))]

LEMMA RakeSharesAddUp ==
    ASSUME NEW e, TotalsOK(e), e.t.dealer \in SeatNos \cup {Nil},
           NEW W \in [contributed(e) -> SUBSET SeatNos], unwon(e, W) = {}, NEW rake \in Nat,
           rake <= SumFunctionOnSet([l \in contributed(e) |-> amountAt(e, l)], contributed(e))
    PROVE  /\ SumFunctionOnSet(rakeOn(e, W, rake), SeatNos) = rake
           /\ \A i \in SeatNos : /\ rakeOn(e, W, rake)[i] \in Nat
                                 /\ rakeOn(e, W, rake)[i] <= wonIn(e, W)[i]
<1> DEFINE C == contributed(e)
           paid == rakeOn(e, W, rake)
           taken == [l \in C |-> takenAt(e, rake, l)]
           share == [l \in C |-> seatShare(e, takenAt(e, rake, l), W[l])]
           row == [l \in C |-> SumFunctionOnSet(share[l], SeatNos)]
           column == [i \in SeatNos |-> SumFunctionOnSet([l \in C |-> share[l][i]], C)]
<1>1. IsFiniteSet(C)
  BY LevelFacts
<1>2. ASSUME NEW l \in C
      PROVE  /\ takenAt(e, rake, l) \in Nat /\ amountAt(e, l) \in Nat
             /\ takenAt(e, rake, l) <= amountAt(e, l)
             /\ W[l] \in SUBSET SeatNos /\ W[l] # {}
  <2>1. PICK a \in Nat, b \in Nat, t \in Nat :
            /\ a = amountAt(e, l) /\ b = heldBelow(e, l) /\ t = takenAt(e, rake, l)
            /\ t = IF rake - b <= 0 THEN 0 ELSE IF a <= rake - b THEN a ELSE rake - b
    BY TakenFacts
  <2>2. W[l] \in SUBSET SeatNos /\ W[l] # {}
    BY DEF unwon
  <2> QED
    BY <2>1, <2>2
<1>3. ASSUME NEW l \in C
      PROVE  /\ \A i \in SeatNos : share[l][i] \in Nat
             /\ SumFunctionOnSet(share[l], SeatNos) = taken[l] /\ taken[l] \in Nat
  <2>1. share[l] = seatShare(e, takenAt(e, rake, l), W[l]) /\ taken[l] = takenAt(e, rake, l)
    OBVIOUS
  <2>2. /\ \A i \in SeatNos : seatShare(e, takenAt(e, rake, l), W[l])[i] \in Nat
        /\ SumFunctionOnSet(seatShare(e, takenAt(e, rake, l), W[l]), SeatNos)
              = IF W[l] = {} THEN 0 ELSE takenAt(e, rake, l)
    BY <1>2, SharesAddUp
  <2> HIDE DEF share, taken
  <2> QED
    BY <1>2, <2>1, <2>2
<1>4. column = paid
  <2>1. \A i \in SeatNos :
            [l \in C |-> share[l][i]] = [l \in C |-> seatShare(e, takenAt(e, rake, l), W[l])[i]]
    OBVIOUS
  <2> HIDE DEF share
  <2> QED
    BY <2>1 DEF rakeOn
<1>5. SumFunctionOnSet(row, C) = SumFunctionOnSet(column, SeatNos)
  <2> HIDE DEF share, C
  <2>1. ASSUME NEW A, IsFiniteSet(A), \A l \in C : \A i \in A : share[l][i] \in Int
        PROVE  SumFunctionOnSet([l \in C |-> SumFunctionOnSet(share[l], A)], C)
                 = SumFunctionOnSet([i \in A |-> SumFunctionOnSet([l \in C |-> share[l][i]], C)], A)
    BY <1>1, <2>1, SumsSwap
  <2>2. \A l \in C : \A i \in SeatNos : share[l][i] \in Int
    BY <1>3
  <2> QED
    BY <2>1, <2>2, SeatsFinite, Zenon
<1>6. SumFunctionOnSet(row, C) = SumFunctionOnSet(taken, C)
  <2>1. \A l \in C : row[l] = SumFunctionOnSet(share[l], SeatNos)
    OBVIOUS
  <2> HIDE DEF row, taken, share, C
  <2>2. \A l \in C : row[l] = taken[l]
    BY <1>3, <2>1
  <2> QED
    BY <1>1, <2>2, SumOfEqual
<1>7. SumFunctionOnSet(taken, C) = rake
  BY TakenAddsUp
<1>8. ASSUME NEW i \in SeatNos PROVE paid[i] \in Nat /\ paid[i] <= wonIn(e, W)[i]
  <2> DEFINE p == [l \in C |-> seatShare(e, takenAt(e, rake, l), W[l])[i]]
             q == [l \in C |-> seatShare(e, amountAt(e, l), W[l])[i]]
  <2>1. ASSUME NEW l \in C PROVE p[l] \in Nat /\ q[l] \in Nat /\ p[l] <= q[l]
    <3>1. /\ seatShare(e, takenAt(e, rake, l), W[l])[i] \in Nat
          /\ seatShare(e, amountAt(e, l), W[l])[i] \in Nat
      BY <1>2, SharesAddUp
    <3>2. seatShare(e, takenAt(e, rake, l), W[l])[i] <= seatShare(e, amountAt(e, l), W[l])[i]
      BY <1>2, LargerAmountLargerShare
    <3> QED
      BY <3>1, <3>2
  <2>2. paid[i] = SumFunctionOnSet(p, C) /\ wonIn(e, W)[i] = SumFunctionOnSet(q, C)
    BY DEF wonIn, rakeOn
  <2> HIDE DEF p, q, C
  <2>3. SumFunctionOnSet(p, C) \in Nat
    BY <1>1, <2>1, SumIsNat
  <2>4. SumFunctionOnSet(p, C) <= SumFunctionOnSet(q, C)
    <3>1. \A l \in C : p[l] \in Int /\ q[l] \in Int /\ p[l] <= q[l]
      BY <2>1
    <3> QED
      BY <1>1, <3>1, SumAtMost
  <2> QED
    BY <2>2, <2>3, <2>4
<1> QED
  BY <1>4, <1>5, <1>6, <1>7, <1>8

lessStack(x, n) == [x EXCEPT !.stack = x.stack - n]

LEMMA LessStack ==
    ASSUME NEW x \in SeatRows, NEW n \in Nat, n <= x.stack
    PROVE  LET y == lessStack(x, n)
           IN  /\ y \in SeatRows /\ y.user = x.user /\ y.stack = x.stack - n
               /\ y.committed = x.committed /\ y.total = x.total /\ y.status = x.status
<1>1. x.stack - n \in Nat
  BY DEF SeatRows
<1> QED
  BY <1>1 DEF lessStack, SeatRows

\* The rate is at most all of the pot.
rateOf(total, bps, cap) == Min({(total * bps) \div 10000, cap})

LEMMA RateOfTotal ==
    ASSUME NEW total \in Nat, NEW bps \in Nat, bps <= 10000, NEW cap \in Nat
    PROVE  rateOf(total, bps, cap) \in 0..total
<1>1. PICK x \in Nat : x = total * bps
  <2>1. bps \in Nat
    OBVIOUS
  <2>2. \A p, q \in Nat : p * q \in Nat
    OBVIOUS
  <2> QED
    BY <2>1, <2>2
<1>2. x <= total * 10000
  <2>1. bps \in Nat /\ bps <= 10000
    OBVIOUS
  <2>2. \A p, q, r \in Nat : q <= r => p * q <= p * r
    OBVIOUS
  <2> QED
    BY <1>1, <2>1, <2>2
<1>3. PICK q \in Nat, r \in Nat : q = x \div 10000 /\ x = q * 10000 + r
  BY Division
<1>4. q <= total
  <2>1. q * 10000 <= total * 10000
    BY <1>2, <1>3
  <2> QED
    BY <2>1
<1>5. Min({q, cap}) = IF q <= cap THEN q ELSE cap
  BY LeastOfTwo
<1>6. Min({q, cap}) \in 0..total
  BY <1>4, <1>5
<1>7. (total * bps) \div 10000 = q
  BY <1>1, <1>3
<1>8. rateOf(total, bps, cap) = Min({q, cap})
  BY <1>7 DEF rateOf
<1> QED
  BY <1>6, <1>8

LEMMA RakeIsPart ==
    ASSUME NEW f, amountOf(f.pots) \in Nat
    PROVE  totalRakeAmount(f, RakePolicy) \in 0..amountOf(f.pots)
<1> DEFINE rate == RakePolicy.rakeBps
           most == RakePolicy.cap
           all == amountOf(f.pots)
           free == RakePolicy.noFlopNoDrop /\ f.t.board < 3
<1>1. rate \in Nat /\ rate <= 10000
  <2>1. rate \in 0..10000
    BY HoldemAssumption
  <2> HIDE DEF rate
  <2> QED
    BY <2>1
<1>2. most \in Nat
  BY HoldemAssumption
<1>3. totalRakeAmount(f, RakePolicy) = IF free THEN 0 ELSE rateOf(all, rate, most)
  BY DEF totalRakeAmount, rateOf
<1>4. all \in Nat
  OBVIOUS
<1> HIDE DEF rate, most, free, all
<1>5. rateOf(all, rate, most) \in 0..all
  BY <1>1, <1>2, <1>4, RateOfTotal
<1>6. totalRakeAmount(f, RakePolicy) \in 0..all
  BY <1>3, <1>4, <1>5
<1> QED
  BY <1>6 DEF all

LEMMA PotSums ==
    ASSUME NEW e, TotalsOK(e), NEW W, NEW T \in SUBSET contributed(e),
           NEW P, P = {potOf(e, W, l) : l \in T}
    PROVE  /\ amountOf(P) = SumFunctionOnSet([l \in contributed(e) |-> amountAt(e, l)], T)
           /\ amountOf(P) \in Nat
<1> DEFINE f == [p \in P |-> p.amount]
           g == [l \in contributed(e) |-> amountAt(e, l)]
<1>1. \A l \in T : g[l] = f[potOf(e, W, l)] /\ g[l] \in Nat
  <2>1. ASSUME NEW l \in T PROVE g[l] = f[potOf(e, W, l)] /\ g[l] \in Nat
    <3>1. potOf(e, W, l) \in P /\ potOf(e, W, l).amount = amountAt(e, l)
      BY DEF potOf
    <3>2. l \in contributed(e) /\ amountAt(e, l) \in Nat
      BY StepIsPositive
    <3> QED
      BY <3>1, <3>2
  <2> QED
    BY <2>1
<1>2. amountOf(P) = SumFunctionOnSet(f, P)
  BY DEF amountOf
<1>3. IsFiniteSet(T)
  BY LevelFacts, FS_Subset
<1> HIDE DEF f, g
<1>4. \A l \in T : g[l] = f[potOf(e, W, l)] /\ g[l] \in Int
  BY <1>1
<1>5. SumFunctionOnSet(f, P) = SumFunctionOnSet(g, T)
  BY <1>4, SumOverPots
<1>6. SumFunctionOnSet(g, T) \in Nat
  BY <1>1, <1>3, SumIsNat
<1> QED
  BY <1>2, <1>5, <1>6 DEF g

\* What is held by the pots below a level, as the code reckons it from the pots.
LEMMA LowerPots ==
    ASSUME NEW e, TotalsOK(e), NEW W \in [contributed(e) -> SUBSET SeatNos], unwon(e, W) = {},
           NEW l \in contributed(e)
    PROVE  amountOf({q \in potsOf(e, W) : q.level < l /\ q.winners # {}}) = heldBelow(e, l)
<1> DEFINE C == contributed(e)
           S == under(C, l)
           Q == {q \in potsOf(e, W) : q.level < l /\ q.winners # {}}
           R == {potOf(e, W, m) : m \in S}
<1>1. \A m \in C : /\ potOf(e, W, m).level = m /\ potOf(e, W, m).winners = W[m]
                   /\ W[m] # {}
  BY DEF potOf, unwon
<1>2. \A q : q \in Q <=> q \in R
  <2>1. \A q : q \in Q <=> \E m \in C : q = potOf(e, W, m) /\ q.level < l /\ q.winners # {}
    BY DEF potsOf
  <2>2. \A q : q \in R <=> \E m \in C : q = potOf(e, W, m) /\ m < l
    BY LevelMembers
  <2> HIDE DEF Q, R
  <2> QED
    BY <1>1, <2>1, <2>2
<1>3. Q = R
  <2> HIDE DEF Q, R
  <2> QED
    BY <1>2
<1>4. S \in SUBSET C
  BY LevelMembers
<1>5. amountOf(R) = SumFunctionOnSet([m \in C |-> amountAt(e, m)], S)
  BY <1>4, PotSums
<1> QED
  BY <1>3, <1>5 DEF heldBelow

LEMMA SameShare ==
    ASSUME NEW e, NEW f, f.t.dealer = e.t.dealer, NEW amount, NEW W, NEW i \in SeatNos
    PROVE  distributeAmountAcrossSeatIndexes(f, amount, W, i) = seatShare(e, amount, W)[i]
<1>1. \A j : sortSeatIndexesLeftOfDealer(f, j) = sortSeatIndexesLeftOfDealer(e, j)
  BY DEF sortSeatIndexesLeftOfDealer
<1>2. {j \in W : sortSeatIndexesLeftOfDealer(f, j) < sortSeatIndexesLeftOfDealer(f, i)}
        = {j \in W : sortSeatIndexesLeftOfDealer(e, j) < sortSeatIndexesLeftOfDealer(e, i)}
  BY <1>1
<1>3. distributeAmountAcrossSeatIndexes(f, amount, W, i)
        = distributeAmountAcrossSeatIndexes(e, amount, W, i)
  BY <1>2 DEF distributeAmountAcrossSeatIndexes
<1> QED
  BY <1>3 DEF seatShare

LEMMA NewRows ==
    ASSUME NEW e, Whole(e), NEW s, NEW f, f = [e EXCEPT !.s = s]
    PROVE  Differs(e, f, e.t, s)
<1>1. f = StateOf(e.t, s, e.w, e.house, e.pool, e.gone, e.pots)
  BY ChangedPart, Zenon
<1>2. /\ Whole(f) /\ f.t = e.t /\ f.s = s /\ f.w = e.w /\ f.house = e.house
      /\ f.pool = e.pool /\ f.gone = e.gone /\ f.pots = e.pots
  BY <1>1, WholeRecord
<1>3. IsState(e) /\ e.t \in TableRows /\ s \in [SeatNos -> SeatRows] => IsState(f)
  BY <1>2, WholeState
<1> QED
  BY <1>1, <1>2, <1>3 DEF Differs

\* The seats pay the rake of a hand out of what they won in it.
Raked(f, net, rake, paid) ==
    /\ rake \in Nat /\ paid \in [SeatNos -> Nat] /\ SumFunctionOnSet(paid, SeatNos) = rake
    /\ IsState(net) /\ net.t = f.t /\ net.w = f.w /\ net.house = f.house /\ net.pool = f.pool
    /\ net.gone = f.gone
    /\ \A i \in SeatNos : paid[i] <= f.s[i].stack /\ net.s[i] = lessStack(f.s[i], paid[i])

LEMMA RakeFacts ==
    ASSUME NEW f, IsState(f), Paid(f)
    PROVE  \E paid : Raked(f, applyRakeToSettledState(f, RakePolicy), totalRakeAmount(f, RakePolicy), paid)
<1> DEFINE P == f.pots
           rake == totalRakeAmount(f, RakePolicy)
           lower(p) == amountOf({q \in P : q.level < p.level /\ q.winners # {}})
           potRake == [p \in P |-> Min({p.amount, Max({0, rake - lower(p)})})]
           share(p, i) == distributeAmountAcrossSeatIndexes(f, potRake[p], p.winners, i)
           seatRake == [i \in SeatNos |-> SumFunctionOnSet([p \in P |-> share(p, i)], P)]
           rows == [i \in SeatNos |-> [f.s[i] EXCEPT !.stack = f.s[i].stack - seatRake[i]]]
           net == applyRakeToSettledState(f, RakePolicy)
<1>0. PICK e : \E W \in [contributed(e) -> SUBSET SeatNos] :
        /\ TotalsOK(e) /\ e.t.dealer \in SeatNos \cup {Nil}
        /\ f.t.dealer = e.t.dealer /\ f.pots = potsOf(e, W)
        /\ unwon(e, W) = {}
        /\ \A i \in SeatNos : f.s[i].stack >= wonIn(e, W)[i]
  BY DEF Paid
<1>1. PICK W \in [contributed(e) -> SUBSET SeatNos] :
        /\ TotalsOK(e) /\ e.t.dealer \in SeatNos \cup {Nil}
        /\ f.t.dealer = e.t.dealer /\ f.pots = potsOf(e, W)
        /\ unwon(e, W) = {}
        /\ \A i \in SeatNos : f.s[i].stack >= wonIn(e, W)[i]
  BY <1>0
<1> DEFINE C == contributed(e)
           paid == rakeOn(e, W, rake)
<1>2. net = [f EXCEPT !.s = rows]
  BY DEF applyRakeToSettledState
<1>3. /\ amountOf(P) = SumFunctionOnSet([l \in C |-> amountAt(e, l)], C)
      /\ amountOf(P) \in Nat
  <2>1. P = {potOf(e, W, l) : l \in C} /\ C \in SUBSET C
    BY <1>1 DEF potsOf
  <2> QED
    BY <1>1, <2>1, PotSums
<1>4. rake \in Nat /\ rake <= SumFunctionOnSet([l \in C |-> amountAt(e, l)], C)
  <2>1. rake \in 0..amountOf(f.pots)
    BY <1>3, RakeIsPart
  <2> QED
    BY <1>3, <2>1
<1>5. ASSUME NEW l \in C
      PROVE  /\ potOf(e, W, l) \in P /\ potOf(e, W, l).level = l /\ potOf(e, W, l).winners = W[l]
             /\ potOf(e, W, l).amount = amountAt(e, l)
             /\ potRake[potOf(e, W, l)] = takenAt(e, rake, l)
  <2>1. /\ potOf(e, W, l) \in P /\ potOf(e, W, l).level = l /\ potOf(e, W, l).winners = W[l]
        /\ potOf(e, W, l).amount = amountAt(e, l)
    BY <1>1 DEF potOf, potsOf
  <2>2. lower(potOf(e, W, l)) = amountOf({q \in potsOf(e, W) : q.level < l /\ q.winners # {}})
    BY <1>1, <2>1
  <2>3. lower(potOf(e, W, l)) = heldBelow(e, l)
    BY <1>1, <2>2, LowerPots
  <2> HIDE DEF lower, rake
  <2>4. potRake[potOf(e, W, l)]
          = Min({potOf(e, W, l).amount, Max({0, rake - lower(potOf(e, W, l))})})
    BY <2>1
  <2> QED
    BY <2>1, <2>3, <2>4 DEF takenAt
<1> HIDE DEF lower, potRake, net, rake
<1>6. ASSUME NEW i \in SeatNos PROVE seatRake[i] = paid[i]
  <2> DEFINE g == [p \in P |-> share(p, i)]
             h == [l \in C |-> seatShare(e, takenAt(e, rake, l), W[l])[i]]
  <2>1. ASSUME NEW l \in C PROVE h[l] = g[potOf(e, W, l)] /\ h[l] \in Int
    <3>1. g[potOf(e, W, l)] = distributeAmountAcrossSeatIndexes(f, takenAt(e, rake, l), W[l], i)
      BY <1>5
    <3>2. g[potOf(e, W, l)] = seatShare(e, takenAt(e, rake, l), W[l])[i]
      BY <1>1, <3>1, SameShare
    <3>3. takenAt(e, rake, l) \in Nat
      <4>1. PICK a \in Nat, b \in Nat, t \in Nat : t = takenAt(e, rake, l)
        BY <1>1, <1>4, TakenFacts
      <4> QED
        BY <4>1
    <3>4. seatShare(e, takenAt(e, rake, l), W[l])[i] \in Nat
      <4>1. W[l] \in SUBSET SeatNos
        OBVIOUS
      <4> QED
        BY <1>1, <3>3, <4>1, SharesAddUp
    <3> QED
      BY <3>2, <3>4
  <2>2. P = {potOf(e, W, l) : l \in C} /\ C \in SUBSET C
    BY <1>1 DEF potsOf
  <2>3. seatRake[i] = SumFunctionOnSet(g, P) /\ paid[i] = SumFunctionOnSet(h, C)
    BY DEF rakeOn
  <2> HIDE DEF g, h, seatRake, paid
  <2> QED
    BY <1>1, <2>1, <2>2, <2>3, SumOverPots
<1>7. /\ SumFunctionOnSet(paid, SeatNos) = rake
      /\ \A i \in SeatNos : paid[i] \in Nat /\ paid[i] <= wonIn(e, W)[i]
  BY <1>1, <1>4, RakeSharesAddUp
<1>8. paid \in [SeatNos -> Nat]
  <2>1. paid = [i \in SeatNos |-> paid[i]]
    BY DEF rakeOn
  <2> HIDE DEF paid
  <2> QED
    BY <1>7, <2>1
<1> HIDE DEF paid, seatRake
<1>9. ASSUME NEW i \in SeatNos
      PROVE  /\ paid[i] <= f.s[i].stack /\ rows[i] = lessStack(f.s[i], paid[i])
             /\ rows[i] \in SeatRows
  <2>1. f.s[i] \in SeatRows /\ f.s[i].stack \in Nat
    BY RowFacts
  <2>2. paid[i] \in Nat /\ paid[i] <= f.s[i].stack
    <3>1. wonIn(e, W)[i] \in Nat
      BY <1>1, SettlementAddsUp
    <3> QED
      BY <1>1, <1>7, <2>1, <3>1
  <2>3. rows[i] = lessStack(f.s[i], paid[i])
    BY <1>6 DEF lessStack
  <2> HIDE DEF rows
  <2> QED
    BY <2>1, <2>2, <2>3, LessStack
<1>10. rows \in [SeatNos -> SeatRows]
  <2>1. rows = [i \in SeatNos |-> rows[i]]
    OBVIOUS
  <2> HIDE DEF rows
  <2> QED
    BY <1>9, <2>1
<1> HIDE DEF rows
<1>11. Whole(f) /\ f.t \in TableRows
  BY WholeState
<1>12. Differs(f, net, f.t, rows)
  BY <1>2, <1>11, NewRows
<1>13. Raked(f, net, rake, paid)
  BY <1>4, <1>7, <1>8, <1>9, <1>10, <1>11, <1>12 DEF Raked, Differs
<1> QED
  BY <1>13 DEF net, rake

-----------------------------------------------------------------------------
(***************************************************************************)
(* What holds of a table between two transactions.                         *)
(***************************************************************************)
money(e) == SumFunctionOnSet([u \in Players |-> e.w[u].free + e.w[u].locked], Players)
inPots(e) == IF isTournamentTable(e) THEN 0 ELSE totalOf(e, SeatNos)
worth(e) == money(e) + e.house + e.pool + inPots(e) + e.gone

Locks(e) ==
    \A u \in Players :
        e.w[u].locked = IF isTournamentTable(e) THEN 0 ELSE stacksOf(e, seatsOf(e, u))

Kinds(e) ==
    /\ e.t.kind = "none" => seated(e) = {} /\ \A u \in Players : e.t.standing[u] = Nil
    /\ e.t.kind # "casual" => e.gone = 0 /\ bots(e) = {}
    /\ e.t.kind # "tournament" => e.pool = 0 /\ e.t.event = "none"

Turn(e) ==
    e.t.status = "active" =>
        e.t.pending \in listActionableSeats(e) /\ \E i \in humans(e) : isSeatInHand(e.s[i])

\* A tournament: who still plays has a seat and no place yet.
Seating(e) ==
    /\ \A i \in seated(e) : e.t.standing[e.s[i].user] = 0
    /\ \A i, j \in seated(e) : e.s[i].user = e.s[j].user => i = j
    /\ \A u \in Players : e.t.standing[u] = 0 => seatsOf(e, u) # {}

\* The places behind those who still play are taken, by one player each.
Placing(e) ==
    /\ \A u \in Players :
        e.t.standing[u] \in {Nil, 0} \cup (Cardinality(seated(e)) + 1)..Cardinality(registered(e))
    /\ \A u, v \in Players :
        u # v /\ e.t.standing[u] = e.t.standing[v] => e.t.standing[u] \in {Nil, 0}

AtStake(e) ==
    /\ e.t.event # "none"
    /\ e.t.event = "completed" => seated(e) = {} /\ e.pool = 0
    /\ e.t.event # "completed" =>
        /\ e.pool = e.t.buyIn * Cardinality(registered(e))
        /\ stacksOf(e, SeatNos) + totalOf(e, SeatNos) = StartingStack * Cardinality(registered(e))
        /\ registered(e) # {} => e.t.places \in 1..3 /\ e.t.places <= Cardinality(registered(e))
    /\ e.t.event = "registering" =>
        /\ e.t.status = "waiting"
        /\ \A u \in Players : e.t.standing[u] \in {Nil, 0}
        /\ \A i \in seated(e) : e.s[i].stack = StartingStack

Event(e) == e.t.kind = "tournament" => Seating(e) /\ Placing(e) /\ AtStake(e)

Sound(e) ==
    /\ HandOK(e) /\ Locks(e) /\ Kinds(e) /\ Turn(e) /\ Event(e)
    /\ worth(e) = Funds * Cardinality(Players)

\* Nothing that Sound speaks of is different.
Looks(e, f) ==
    /\ IsState(f)
    /\ f.w = e.w /\ f.house = e.house /\ f.pool = e.pool /\ f.gone = e.gone
    /\ f.t.kind = e.t.kind /\ f.t.status = e.t.status /\ f.t.event = e.t.event
    /\ f.t.buyIn = e.t.buyIn /\ f.t.places = e.t.places /\ f.t.standing = e.t.standing
    /\ f.t.currentBet = e.t.currentBet
    /\ e.t.status = "active" => f.t.pending = e.t.pending
    /\ \A i \in SeatNos :
        /\ f.s[i].user = e.s[i].user /\ f.s[i].stack = e.s[i].stack
        /\ f.s[i].committed = e.s[i].committed /\ f.s[i].total = e.s[i].total
        /\ f.s[i].status = e.s[i].status

LEMMA LooksSame ==
    ASSUME NEW e, NEW f, Looks(e, f)
    PROVE  /\ seated(f) = seated(e) /\ humans(f) = humans(e) /\ bots(f) = bots(e)
           /\ \A u : seatsOf(f, u) = seatsOf(e, u)
           /\ registered(f) = registered(e)
           /\ listActionableSeats(f) = listActionableSeats(e)
           /\ listNonFoldedSeats(f) = listNonFoldedSeats(e)
           /\ stacksOf(f, SeatNos) = stacksOf(e, SeatNos)
           /\ totalOf(f, SeatNos) = totalOf(e, SeatNos)
           /\ \A u : stacksOf(f, seatsOf(f, u)) = stacksOf(e, seatsOf(e, u))
<1>1. /\ seated(f) = seated(e) /\ listActionableSeats(f) = listActionableSeats(e)
      /\ listNonFoldedSeats(f) = listNonFoldedSeats(e)
  BY DEF Looks, seated, listActionableSeats, listNonFoldedSeats
<1>2. \A u : seatsOf(f, u) = seatsOf(e, u)
  BY DEF Looks, seatsOf
<1>3. humans(f) = humans(e) /\ bots(f) = bots(e)
  BY <1>1, <1>2 DEF Looks, humans, bots, seated
<1>4. registered(f) = registered(e)
  BY DEF Looks, registered
<1>5. ASSUME NEW S \in SUBSET SeatNos
      PROVE  stacksOf(f, S) = stacksOf(e, S) /\ totalOf(f, S) = totalOf(e, S)
  <2>1. \A i \in S : f.s[i].stack = e.s[i].stack /\ f.s[i].total = e.s[i].total
    BY DEF Looks
  <2>2. [i \in S |-> f.s[i].stack] = [i \in S |-> e.s[i].stack]
    BY <2>1
  <2>3. [i \in S |-> f.s[i].total] = [i \in S |-> e.s[i].total]
    BY <2>1
  <2> QED
    BY <2>2, <2>3 DEF stacksOf, totalOf
<1>6. \A u : seatsOf(e, u) \in SUBSET SeatNos
  BY DEF seatsOf
<1>7. \A u : stacksOf(f, seatsOf(f, u)) = stacksOf(e, seatsOf(e, u))
  BY <1>2, <1>5, <1>6
<1> QED
  BY <1>1, <1>2, <1>3, <1>4, <1>5, <1>7

LEMMA LooksHand ==
    ASSUME NEW e, NEW f, Looks(e, f), HandOK(e)
    PROVE  HandOK(f)
<1>1. listNonFoldedSeats(f) = listNonFoldedSeats(e)
  BY LooksSame
<1>2. HandRows(f)
  BY DEF Looks, HandOK, HandRows
<1>3. Nobody(e) => Nobody(f)
  BY DEF Looks, Nobody
<1>4. ASSUME NEW b \in Nat, BetOn(e, b) PROVE BetOn(f, b)
  <2>1. \A i \in SeatNos :
            /\ f.s[i].total <= b + f.s[i].committed
            /\ f.s[i].status = "active" => f.s[i].total = b + f.s[i].committed
    BY <1>4 DEF BetOn, Looks
  <2>2. ASSUME NEW i \in listNonFoldedSeats(e), e.s[i].total = b + e.t.currentBet
        PROVE  i \in listNonFoldedSeats(f) /\ f.s[i].total = b + f.t.currentBet
    BY <1>1, <2>2 DEF Looks, listNonFoldedSeats, seated
  <2> QED
    BY <1>3, <1>4, <2>1, <2>2 DEF BetOn
<1>5. e.t.kind # "casual" => Betting(f)
  BY <1>4 DEF HandOK, Betting
<1> QED
  BY <1>2, <1>5 DEF Looks, HandOK

LEMMA LooksSound ==
    ASSUME NEW e, NEW f, Looks(e, f), Sound(e)
    PROVE  Sound(f)
<1>1. HandOK(f)
  BY LooksHand DEF Sound
<1>2. /\ f.w = e.w /\ f.house = e.house /\ f.pool = e.pool /\ f.gone = e.gone
      /\ f.t.kind = e.t.kind /\ f.t.status = e.t.status /\ f.t.event = e.t.event
      /\ f.t.buyIn = e.t.buyIn /\ f.t.places = e.t.places /\ f.t.standing = e.t.standing
      /\ (e.t.status = "active" => f.t.pending = e.t.pending)
      /\ (isTournamentTable(f) <=> isTournamentTable(e))
      /\ \A i \in SeatNos : /\ f.s[i].user = e.s[i].user /\ f.s[i].stack = e.s[i].stack
                            /\ isSeatInHand(f.s[i]) <=> isSeatInHand(e.s[i])
  BY DEF Looks, isTournamentTable, isSeatInHand
<1>3. Locks(f)
  BY <1>2, LooksSame DEF Sound, Locks
<1>4. Kinds(f)
  BY <1>2, LooksSame DEF Sound, Kinds
<1>5. Turn(f)
  <2>1. humans(e) \in SUBSET SeatNos
    BY DEF humans, seated
  <2> QED
    BY <1>2, <2>1, LooksSame DEF Sound, Turn
<1>6. Event(f)
  <2>1. seated(e) \in SUBSET SeatNos
    BY DEF seated
  <2>2. Seating(e) => Seating(f)
    BY <1>2, <2>1, LooksSame DEF Seating
  <2>3. Placing(e) => Placing(f)
    BY <1>2, LooksSame DEF Placing
  <2>4. AtStake(e) => AtStake(f)
    BY <1>2, <2>1, LooksSame DEF AtStake
  <2> QED
    BY <1>2, <2>2, <2>3, <2>4 DEF Sound, Event
<1>7. worth(f) = worth(e)
  <2>1. money(f) = money(e)
    BY <1>2 DEF money
  <2>2. inPots(f) = inPots(e)
    BY <1>2, LooksSame DEF inPots
  <2> QED
    BY <1>2, <2>1, <2>2 DEF worth
<1> QED
  BY <1>1, <1>3, <1>4, <1>5, <1>6, <1>7 DEF Sound

-----------------------------------------------------------------------------
(* Sums over the seats and over the players *)

owner(e) == [i \in SeatNos |-> e.s[i].user]
stacks(e) == [i \in SeatNos |-> e.s[i].stack]
totals(e) == [i \in SeatNos |-> e.s[i].total]

LEMMA OwnedSeats ==
    ASSUME NEW e, NEW u
    PROVE  seatsOf(e, u) = ownedBy(SeatNos, owner(e), u) /\ seatsOf(e, u) \in SUBSET SeatNos
<1>1. \A i : i \in seatsOf(e, u) <=> i \in ownedBy(SeatNos, owner(e), u)
  BY DEF seatsOf, ownedBy, owner
<1>2. \A i : i \in seatsOf(e, u) => i \in SeatNos
  BY DEF seatsOf
<1> QED
  BY <1>1, <1>2

\* Every chip is a player's, a bot's, or at a seat nobody sits in.
LEMMA SeatsByOwner ==
    ASSUME NEW e, IsState(e), NEW d, \A i \in SeatNos : d[i] \in Int,
           \A i \in SeatNos : e.s[i].user = NoPlayer => d[i] = 0
    PROVE  SumFunctionOnSet([u \in Players |-> SumFunctionOnSet(d, seatsOf(e, u))], Players)
             + SumFunctionOnSet(d, bots(e)) = SumFunctionOnSet(d, SeatNos)
<1> DEFINE U == Players \cup {Bot}
           own == owner(e)
           all == [u \in U |-> SumFunctionOnSet(d, ownedBy(SeatNos, own, u))]
           each == [u \in Players |-> SumFunctionOnSet(d, seatsOf(e, u))]
<1>1. IsFiniteSet(Players) /\ Bot \notin Players
  BY HoldemAssumption
<1>2. IsFiniteSet(U)
  BY <1>1, FS_AddElement
<1>3. \A i \in SeatNos : own[i] \notin U => d[i] = 0
  BY RowFacts DEF owner
<1>4. SumFunctionOnSet(all, U) = SumFunctionOnSet(d, SeatNos)
  <2> HIDE DEF own, U
  <2> QED
    BY <1>2, <1>3, SeatsFinite, SumByOwner
<1>5. \A u \in U : all[u] = SumFunctionOnSet(d, seatsOf(e, u)) /\ all[u] \in Int
  <2> SUFFICES ASSUME NEW u \in U
               PROVE  all[u] = SumFunctionOnSet(d, seatsOf(e, u)) /\ all[u] \in Int
    OBVIOUS
  <2>1. seatsOf(e, u) = ownedBy(SeatNos, own, u) /\ seatsOf(e, u) \in SUBSET SeatNos
    BY OwnedSeats
  <2>2. IsFiniteSet(seatsOf(e, u))
    BY <2>1, SeatsFinite, FS_Subset
  <2>3. \A i \in seatsOf(e, u) : d[i] \in Int
    BY <2>1
  <2>4. SumFunctionOnSet(d, seatsOf(e, u)) \in Int
    BY <2>2, <2>3, SumIsInt
  <2> HIDE DEF own
  <2>5. all[u] = SumFunctionOnSet(d, ownedBy(SeatNos, own, u))
    OBVIOUS
  <2> HIDE DEF all
  <2> QED
    BY <2>1, <2>4, <2>5, Zenon
<1>6. \A u \in Players : each[u] = all[u]
  <2>1. \A u \in Players : each[u] = SumFunctionOnSet(d, seatsOf(e, u)) /\ u \in U
    OBVIOUS
  <2> HIDE DEF each, all, U
  <2> QED
    BY <1>5, <2>1
<1> HIDE DEF all, each
<1>7. SumFunctionOnSet(all, Players \cup {Bot}) = all[Bot] + SumFunctionOnSet(all, Players)
  <2>1. \A u \in Players \cup {Bot} : all[u] \in Int
    BY <1>5
  <2> QED
    BY <1>1, <2>1, SumWith
<1>8. SumFunctionOnSet(each, Players) = SumFunctionOnSet(all, Players)
  BY <1>1, <1>6, SumOfEqual
<1>9. all[Bot] = SumFunctionOnSet(d, bots(e)) /\ all[Bot] \in Int
  BY <1>5 DEF bots
<1>10. SumFunctionOnSet(all, Players) \in Int
  <2>1. \A u \in Players : all[u] \in Int
    BY <1>5
  <2> QED
    BY <1>1, <2>1, SumIsInt
<1> QED
  BY <1>4, <1>7, <1>8, <1>9, <1>10 DEF each

LEMMA ChipSums ==
    ASSUME NEW e, IsState(e), NEW S \in SUBSET SeatNos
    PROVE  /\ stacksOf(e, S) = SumFunctionOnSet(stacks(e), S) /\ stacksOf(e, S) \in Nat
           /\ totalOf(e, S) = SumFunctionOnSet(totals(e), S) /\ totalOf(e, S) \in Nat
           /\ \A i \in SeatNos : stacks(e)[i] \in Nat /\ totals(e)[i] \in Nat
           /\ IsFiniteSet(S)
<1> DEFINE a == [i \in S |-> e.s[i].stack]
           b == [i \in S |-> e.s[i].total]
<1>1. IsFiniteSet(S)
  BY SeatsFinite, FS_Subset
<1>2. \A i \in SeatNos : stacks(e)[i] \in Nat /\ totals(e)[i] \in Nat
  BY RowFacts DEF stacks, totals
<1>3. \A i \in S : a[i] = stacks(e)[i] /\ b[i] = totals(e)[i]
  BY DEF stacks, totals
<1>4. \A i \in S : stacks(e)[i] \in Nat /\ totals(e)[i] \in Nat
  BY <1>2
<1>5. stacksOf(e, S) = SumFunctionOnSet(a, S) /\ totalOf(e, S) = SumFunctionOnSet(b, S)
  BY DEF stacksOf, totalOf
<1> HIDE DEF a, b
<1>6. /\ SumFunctionOnSet(a, S) = SumFunctionOnSet(stacks(e), S)
      /\ SumFunctionOnSet(b, S) = SumFunctionOnSet(totals(e), S)
  BY <1>1, <1>3, SumOfEqual
<1>7. SumFunctionOnSet(stacks(e), S) \in Nat /\ SumFunctionOnSet(totals(e), S) \in Nat
  BY <1>1, <1>4, SumIsNat
<1> QED
  BY <1>1, <1>2, <1>5, <1>6, <1>7

\* The players' money changes by what each player's does.
LEMMA MoneyMoves ==
    ASSUME NEW e, IsState(e), NEW f, IsState(f), NEW d,
           \A u \in Players : /\ d[u] \in Int
                              /\ f.w[u].free + f.w[u].locked = e.w[u].free + e.w[u].locked + d[u]
    PROVE  /\ money(f) = money(e) + SumFunctionOnSet(d, Players)
           /\ money(e) \in Int /\ SumFunctionOnSet(d, Players) \in Int
<1> DEFINE a == [u \in Players |-> e.w[u].free + e.w[u].locked]
           b == [u \in Players |-> f.w[u].free + f.w[u].locked]
<1>1. IsFiniteSet(Players)
  BY HoldemAssumption
<1>2. \A u \in Players : /\ e.w[u].free \in Nat /\ e.w[u].locked \in Nat
                         /\ f.w[u].free \in Nat /\ f.w[u].locked \in Nat
  BY DEF IsState, Purses
<1>3. \A u \in Players : a[u] \in Int /\ d[u] \in Int /\ b[u] = a[u] + d[u]
  BY <1>2
<1>4. money(e) = SumFunctionOnSet(a, Players) /\ money(f) = SumFunctionOnSet(b, Players)
  BY DEF money
<1> HIDE DEF a, b
<1>5. SumFunctionOnSet(b, Players) = SumFunctionOnSet(a, Players) + SumFunctionOnSet(d, Players)
  BY <1>1, <1>3, SumOfSums
<1>6. SumFunctionOnSet(a, Players) \in Int /\ SumFunctionOnSet(d, Players) \in Int
  BY <1>1, <1>3, SumIsInt
<1> QED
  BY <1>4, <1>5, <1>6

LEMMA SameMoney ==
    ASSUME NEW e, NEW f,
           \A u \in Players : f.w[u].free + f.w[u].locked = e.w[u].free + e.w[u].locked
    PROVE  money(f) = money(e)
<1>1. [u \in Players |-> f.w[u].free + f.w[u].locked]
        = [u \in Players |-> e.w[u].free + e.w[u].locked]
  OBVIOUS
<1> QED
  BY <1>1 DEF money

-----------------------------------------------------------------------------
(* Seats that empty *)

Made(f, t, s, w, house, pool, gone) ==
    /\ Whole(f) /\ f.t = t /\ f.s = s /\ f.w = w /\ f.house = house /\ f.pool = pool
    /\ f.gone = gone

LEMMA PartsMade ==
    ASSUME NEW e, Whole(e), NEW x
    PROVE  /\ Made([e EXCEPT !.t = x], x, e.s, e.w, e.house, e.pool, e.gone)
           /\ Made([e EXCEPT !.s = x], e.t, x, e.w, e.house, e.pool, e.gone)
           /\ Made([e EXCEPT !.w = x], e.t, e.s, x, e.house, e.pool, e.gone)
           /\ Made([e EXCEPT !.house = x], e.t, e.s, e.w, x, e.pool, e.gone)
           /\ Made([e EXCEPT !.pool = x], e.t, e.s, e.w, e.house, x, e.gone)
           /\ Made([e EXCEPT !.gone = x], e.t, e.s, e.w, e.house, e.pool, x)
           /\ Made([e EXCEPT !.pots = x], e.t, e.s, e.w, e.house, e.pool, e.gone)
<1>1. ASSUME NEW t, NEW s, NEW w, NEW h, NEW p, NEW g, NEW k, NEW f,
             f = StateOf(t, s, w, h, p, g, k)
      PROVE  Made(f, t, s, w, h, p, g)
  BY <1>1, WholeRecord DEF Made
<1>2. Made([e EXCEPT !.t = x], x, e.s, e.w, e.house, e.pool, e.gone)
  <2>1. [e EXCEPT !.t = x] = StateOf(x, e.s, e.w, e.house, e.pool, e.gone, e.pots)
    BY ChangedPart, Zenon
  <2> QED
    BY <1>1, <2>1, Zenon
<1>3. Made([e EXCEPT !.s = x], e.t, x, e.w, e.house, e.pool, e.gone)
  <2>1. [e EXCEPT !.s = x] = StateOf(e.t, x, e.w, e.house, e.pool, e.gone, e.pots)
    BY ChangedPart, Zenon
  <2> QED
    BY <1>1, <2>1, Zenon
<1>4. Made([e EXCEPT !.w = x], e.t, e.s, x, e.house, e.pool, e.gone)
  <2>1. [e EXCEPT !.w = x] = StateOf(e.t, e.s, x, e.house, e.pool, e.gone, e.pots)
    BY ChangedPart, Zenon
  <2> QED
    BY <1>1, <2>1, Zenon
<1>5. Made([e EXCEPT !.house = x], e.t, e.s, e.w, x, e.pool, e.gone)
  <2>1. [e EXCEPT !.house = x] = StateOf(e.t, e.s, e.w, x, e.pool, e.gone, e.pots)
    BY ChangedPart, Zenon
  <2> QED
    BY <1>1, <2>1, Zenon
<1>6. Made([e EXCEPT !.pool = x], e.t, e.s, e.w, e.house, x, e.gone)
  <2>1. [e EXCEPT !.pool = x] = StateOf(e.t, e.s, e.w, e.house, x, e.gone, e.pots)
    BY ChangedPart, Zenon
  <2> QED
    BY <1>1, <2>1, Zenon
<1>7. Made([e EXCEPT !.gone = x], e.t, e.s, e.w, e.house, e.pool, x)
  <2>1. [e EXCEPT !.gone = x] = StateOf(e.t, e.s, e.w, e.house, e.pool, x, e.pots)
    BY ChangedPart, Zenon
  <2> QED
    BY <1>1, <2>1, Zenon
<1>8. Made([e EXCEPT !.pots = x], e.t, e.s, e.w, e.house, e.pool, e.gone)
  <2>1. [e EXCEPT !.pots = x] = StateOf(e.t, e.s, e.w, e.house, e.pool, e.gone, x)
    BY ChangedPart, Zenon
  <2> QED
    BY <1>1, <2>1, Zenon
<1> QED
  BY <1>2, <1>3, <1>4, <1>5, <1>6, <1>7, <1>8

LEMMA MadeState ==
    ASSUME NEW f, NEW t \in TableRows, NEW s \in [SeatNos -> SeatRows], NEW w \in [Players -> Purses],
           NEW h \in Int, NEW p \in Nat, NEW g \in Nat, Made(f, t, s, w, h, p, g)
    PROVE  IsState(f)
  BY WholeState DEF Made

LEMMA NoSeat ==
    /\ noSeat \in SeatRows /\ noSeat.user = NoPlayer /\ noSeat.stack = 0 /\ noSeat.committed = 0
    /\ noSeat.total = 0 /\ noSeat.status = "waiting"
  BY DEF noSeat, SeatRows

emptied(e, S) == [i \in SeatNos |-> IF i \in S THEN noSeat ELSE e.s[i]]

LEMMA EmptiedRows ==
    ASSUME NEW e, IsState(e), NEW S
    PROVE  /\ emptied(e, S) \in [SeatNos -> SeatRows]
           /\ \A i \in SeatNos : emptied(e, S)[i] = IF i \in S THEN noSeat ELSE e.s[i]
<1>1. \A i \in SeatNos : e.s[i] \in SeatRows
  BY RowFacts
<1> QED
  BY <1>1, NoSeat DEF emptied

\* Who leaves changes nothing about a hand that goes on, or about the event.
Keeps(e, f) ==
    /\ f.t.kind = e.t.kind /\ f.t.status = e.t.status /\ f.t.event = e.t.event
    /\ f.t.buyIn = e.t.buyIn /\ f.t.places = e.t.places /\ f.t.standing = e.t.standing
    /\ f.t.currentBet = e.t.currentBet
    /\ e.t.status = "active" => f.t.pending = e.t.pending

\* A table nobody sits at is reset; it was waiting already.
LEMMA ClearedIsSound ==
    ASSUME NEW e, Sound(e)
    PROVE  LET f == clearTableAfterCashout(e)
           IN  Sound(f) /\ f.s = e.s /\ Keeps(e, f) /\ Looks(e, f)
<1>1. IsState(e) /\ e.t \in TableRows /\ Whole(e)
  BY WholeState DEF Sound, HandOK
<1>2. Looks(e, e)
  BY <1>1 DEF Looks
<1>3. CASE seated(e) # {}
  BY <1>2, <1>3 DEF clearTableAfterCashout, Keeps
<1>4. CASE seated(e) = {}
  <2> DEFINE r == [e.t EXCEPT !.status = "waiting", !.board = 0, !.pending = Nil,
                              !.currentBet = 0, !.lastFullRaise = 0, !.acted = {}]
             f == [e EXCEPT !.t = r]
  <2>1. clearTableAfterCashout(e) = f
    BY <1>4 DEF clearTableAfterCashout
  <2>2. e.t.status # "active" /\ e.t.status \in {"waiting", "active"}
    BY <1>1, <1>4, RowFacts DEF Sound, Turn, listActionableSeats
  <2>3. e.t.status = "waiting" /\ e.t.currentBet = 0
    BY <2>2 DEF Sound, HandOK, HandRows
  <2>40. r \in TableRows
    BY <1>1 DEF TableRows, Nil
  <2>4. /\ r \in TableRows /\ r.kind = e.t.kind /\ r.status = e.t.status /\ r.event = e.t.event
        /\ r.buyIn = e.t.buyIn /\ r.places = e.t.places /\ r.standing = e.t.standing
        /\ r.currentBet = e.t.currentBet
    BY <1>1, <2>3, <2>40 DEF TableRows
  <2> HIDE DEF r
  <2>5. Made(f, r, e.s, e.w, e.house, e.pool, e.gone)
    BY <1>1, PartsMade
  <2> HIDE DEF f
  <2>6. IsState(f)
    BY <1>1, <2>4, <2>5, WholeState DEF Made
  <2>7. Looks(e, f)
    BY <2>3, <2>4, <2>5, <2>6 DEF Looks, Made
  <2> QED
    BY <2>1, <2>4, <2>5, <2>7, LooksSound DEF Made, Looks, Keeps
<1> QED
  BY <1>3, <1>4

LEMMA MoneyIsInt ==
    ASSUME NEW e, IsState(e)
    PROVE  money(e) \in Int
<1> DEFINE d == [u \in Players |-> 0]
<1>1. \A u \in Players : /\ d[u] \in Int
                         /\ e.w[u].free + e.w[u].locked = e.w[u].free + e.w[u].locked + d[u]
  BY DEF IsState, Purses
<1> HIDE DEF d
<1> QED
  BY <1>1, MoneyMoves

LEMMA BotsRemoved ==
    ASSUME NEW e, Sound(e), NEW S \in SUBSET bots(e),
           e.t.status = "active" => e.t.pending \notin S
    PROVE  LET f == removeBotSeats(e, S)
           IN  Sound(f) /\ Keeps(e, f) /\ \A i \in SeatNos \ S : f.s[i] = e.s[i]
<1>1. IsState(e) /\ HandRows(e) /\ Whole(e) /\ Kinds(e) /\ Locks(e) /\ Turn(e)
  BY WholeState DEF Sound, HandOK
<1>2. CASE S = {}
  BY <1>2 DEF removeBotSeats, Keeps
<1>3. CASE S # {}
  <2> DEFINE m == empties(e, S)
             d == [m EXCEPT !.gone = e.gone + totalOf(e, S)]
             rows == emptied(e, S)
  <2>1. removeBotSeats(e, S) = clearTableAfterCashout(d)
    BY <1>3 DEF removeBotSeats
  <2>2. S \in SUBSET SeatNos /\ \A i \in S : e.s[i].user = Bot
    BY DEF bots, seatsOf
  <2>3. e.t.kind = "casual"
    BY <1>1, <1>3 DEF Kinds
  <2>4. Made(m, e.t, rows, e.w, e.house, e.pool, e.gone)
    BY <1>1, PartsMade DEF empties, emptied
  <2>5. /\ totalOf(e, S) = SumFunctionOnSet(totals(e), S) /\ totalOf(e, S) \in Nat
        /\ e.gone + totalOf(e, S) \in Nat
    BY <1>1, <2>2, ChipSums, RowFacts
  <2> HIDE DEF m
  <2>6. Made(d, e.t, rows, e.w, e.house, e.pool, e.gone + totalOf(e, S))
    <3>1. /\ Whole(m) /\ m.t = e.t /\ m.s = rows /\ m.w = e.w /\ m.house = e.house
          /\ m.pool = e.pool
      BY <2>4 DEF Made
    <3>2. Made(d, m.t, m.s, m.w, m.house, m.pool, e.gone + totalOf(e, S))
      BY <3>1, PartsMade, Zenon
    <3> HIDE DEF d
    <3> QED
      BY <3>1, <3>2, Zenon
  <2>7. rows \in [SeatNos -> SeatRows]
        /\ \A i \in SeatNos : rows[i] = IF i \in S THEN noSeat ELSE e.s[i]
    BY <1>1, EmptiedRows
  <2> HIDE DEF d, rows
  <2>8. IsState(d)
    BY <1>1, <2>5, <2>6, <2>7, WholeState DEF Made
  <2>9. \A i \in SeatNos : /\ i \in S => d.s[i] = noSeat
                           /\ i \notin S => d.s[i] = e.s[i]
    BY <2>6, <2>7 DEF Made
  <2>10. NoPlayer \notin Players /\ Bot \notin Players /\ NoPlayer # Bot
    BY HoldemAssumption
  <2>11. HandOK(d)
    <3>1. HandRows(d)
      <4>1. d.t = e.t /\ e.t.currentBet \in Nat
        BY <1>1, <2>6, RowFacts DEF Made
      <4>2. ASSUME NEW i \in SeatNos
            PROVE  /\ d.s[i].user = NoPlayer => d.s[i].stack = 0 /\ d.s[i].status = "waiting"
                   /\ d.s[i].status = "waiting" => d.s[i].total = 0 /\ d.s[i].committed = 0
                   /\ d.t.status = "waiting" => d.s[i].status = "waiting"
                   /\ d.s[i].committed <= d.t.currentBet
        BY <1>1, <2>9, <4>1, NoSeat DEF HandRows
      <4>3. d.t.status = "waiting" => d.t.currentBet = 0
        BY <1>1, <4>1 DEF HandRows
      <4> QED
        BY <4>2, <4>3 DEF HandRows
    <3>2. d.t.kind = "casual"
      BY <2>3, <2>6 DEF Made
    <3> QED
      BY <2>8, <3>1, <3>2 DEF HandOK
  <2>12. ASSUME NEW u \in Players
         PROVE  stacksOf(d, seatsOf(d, u)) = stacksOf(e, seatsOf(e, u))
    <3>1. \A i \in SeatNos : d.s[i].user = u <=> e.s[i].user = u
      BY <2>2, <2>9, <2>10, NoSeat
    <3>2. seatsOf(d, u) = seatsOf(e, u)
      BY <3>1 DEF seatsOf
    <3>3. \A i \in seatsOf(e, u) : d.s[i] = e.s[i]
      BY <2>2, <2>9, <2>10 DEF seatsOf
    <3>4. [i \in seatsOf(e, u) |-> d.s[i].stack] = [i \in seatsOf(e, u) |-> e.s[i].stack]
      BY <3>3
    <3> QED
      BY <3>2, <3>4 DEF stacksOf
  <2>13. Locks(d)
    <3>1. d.t = e.t /\ d.w = e.w
      BY <2>6 DEF Made
    <3> QED
      BY <1>1, <2>12, <3>1 DEF Locks, isTournamentTable
  <2>14. Kinds(d)
    BY <1>1, <2>3, <2>6 DEF Kinds, Made
  <2>15. Turn(d)
    <3>1. \A i \in SeatNos \ S : /\ i \in listActionableSeats(e) => i \in listActionableSeats(d)
                                 /\ i \in humans(e) => i \in humans(d)
      BY <2>9 DEF listActionableSeats, humans, seated
    <3>2. \A i \in humans(e) : i \in SeatNos \ S
      BY <2>2 DEF humans, seated
    <3>3. listActionableSeats(e) \in SUBSET SeatNos
      BY DEF listActionableSeats, seated
    <3>4. d.t = e.t
      BY <2>6 DEF Made
    <3> QED
      BY <1>1, <2>9, <3>1, <3>2, <3>3, <3>4 DEF Turn
  <2>16. Event(d)
    BY <2>3, <2>6 DEF Event, Made
  <2>17. worth(d) = worth(e)
    <3>1. \A i \in SeatNos : totals(e)[i] \in Int
                             /\ totals(d)[i] = IF i \in S THEN 0 ELSE totals(e)[i]
      <4>1. \A i \in SeatNos : totals(e)[i] = e.s[i].total /\ totals(d)[i] = d.s[i].total
        BY DEF totals
      <4> QED
        BY <1>1, <2>9, <4>1, NoSeat, RowFacts
    <3>2. SumFunctionOnSet(totals(d), SeatNos) + SumFunctionOnSet(totals(e), S)
            = SumFunctionOnSet(totals(e), SeatNos)
      BY <2>2, <3>1, SeatsFinite, SumOfRest
    <3>3. /\ totalOf(e, SeatNos) = SumFunctionOnSet(totals(e), SeatNos) /\ totalOf(e, SeatNos) \in Nat
          /\ totalOf(d, SeatNos) = SumFunctionOnSet(totals(d), SeatNos) /\ totalOf(d, SeatNos) \in Nat
      BY <1>1, <2>8, ChipSums
    <3>4. d.w = e.w /\ d.house = e.house /\ d.pool = e.pool /\ d.gone = e.gone + totalOf(e, S)
          /\ d.t = e.t
      BY <2>6 DEF Made
    <3>5. money(d) = money(e)
      BY <3>4 DEF money
    <3>6. inPots(d) = totalOf(d, SeatNos) /\ inPots(e) = totalOf(e, SeatNos)
      BY <2>3, <3>4 DEF inPots, isTournamentTable
    <3>7. money(e) \in Int /\ e.house \in Int /\ e.pool \in Int /\ e.gone \in Int
      BY <1>1, MoneyIsInt DEF IsState
    <3>8. inPots(d) + d.gone = inPots(e) + e.gone
      BY <2>5, <3>2, <3>3, <3>4, <3>6, <3>7
    <3> QED
      BY <2>5, <3>3, <3>4, <3>5, <3>6, <3>7, <3>8 DEF worth
  <2>18. Sound(d)
    BY <2>11, <2>13, <2>14, <2>15, <2>16, <2>17 DEF Sound
  <2> QED
    BY <2>1, <2>6, <2>9, <2>18, ClearedIsSound DEF Made, Keeps
<1> QED
  BY <1>2, <1>3

LEMMA PurseOf ==
    ASSUME NEW a \in Nat, NEW b \in Nat
    PROVE  LET x == [free |-> a, locked |-> b]
           IN  x \in Purses /\ x.free = a /\ x.locked = b
  BY DEF Purses

\* What a player's seats held is in the player's balance; what they keep stays locked.
Emptied(e, d, S) == \A i \in SeatNos : d.s[i] = IF i \in S THEN noSeat ELSE e.s[i]

LEMMA CashedOutStacks ==
    ASSUME NEW e, IsState(e), NEW S, NEW d, NEW u \in Players, Emptied(e, d, S)
    PROVE  /\ stacksOf(e, seatsOf(e, u)) = stacksOf(e, seatsOf(e, u) \cap S) + stacksOf(d, seatsOf(d, u))
           /\ stacksOf(e, seatsOf(e, u) \cap S) \in Nat /\ stacksOf(d, seatsOf(d, u)) \in Nat
<1> DEFINE Q == seatsOf(e, u)
           R == Q \ S
<1>1. Q \in SUBSET SeatNos /\ Q \cap S \in SUBSET SeatNos /\ R \in SUBSET SeatNos
  BY DEF seatsOf
<1>2. /\ stacksOf(e, Q) = SumFunctionOnSet(stacks(e), Q)
      /\ stacksOf(e, Q \cap S) = SumFunctionOnSet(stacks(e), Q \cap S) /\ stacksOf(e, Q \cap S) \in Nat
      /\ stacksOf(e, R) = SumFunctionOnSet(stacks(e), R) /\ stacksOf(e, R) \in Nat
      /\ \A i \in SeatNos : stacks(e)[i] \in Nat
      /\ IsFiniteSet(Q)
  BY <1>1, ChipSums
<1>3. SumFunctionOnSet(stacks(e), Q)
        = SumFunctionOnSet(stacks(e), Q \cap S) + SumFunctionOnSet(stacks(e), Q \ S)
  <2>1. \A i \in Q : stacks(e)[i] \in Int
    BY <1>1, <1>2
  <2> HIDE DEF Q
  <2> QED
    BY <1>2, <2>1, SumOfHalves
<1>4. seatsOf(d, u) = R
  <2>1. u # NoPlayer
    BY HoldemAssumption
  <2>2. \A i \in SeatNos : d.s[i].user = u <=> (e.s[i].user = u /\ i \notin S)
    BY <2>1, NoSeat DEF Emptied
  <2>3. \A i : i \in seatsOf(d, u) <=> i \in R
    BY <2>2 DEF seatsOf
  <2> HIDE DEF R
  <2> QED
    BY <2>3
<1>5. stacksOf(d, R) = stacksOf(e, R)
  <2>1. \A i \in R : d.s[i] = e.s[i]
    BY <1>1 DEF Emptied
  <2>2. [i \in R |-> d.s[i].stack] = [i \in R |-> e.s[i].stack]
    BY <2>1
  <2> QED
    BY <2>2 DEF stacksOf
<1> HIDE DEF Q
<1> QED
  BY <1>2, <1>3, <1>4, <1>5 DEF Q

LEMMA CashedOut ==
    ASSUME NEW e, Sound(e), ~isTournamentTable(e), NEW S \in SUBSET humans(e),
           \A i \in S : e.s[i].status = "waiting"
    PROVE  LET f == removeSeatAndCashOut(e, S)
           IN  Sound(f) /\ Keeps(e, f) /\ \A i \in SeatNos \ S : f.s[i] = e.s[i]
<1>1. IsState(e) /\ HandRows(e) /\ Whole(e) /\ Kinds(e) /\ Locks(e) /\ Turn(e)
  BY WholeState DEF Sound, HandOK
<1> DEFINE cashedOut(u) == stacksOf(e, seatsOf(e, u) \cap S)
           w == [u \in Players |-> [free |-> e.w[u].free + cashedOut(u),
                                    locked |-> e.w[u].locked - cashedOut(u)]]
           m == empties(e, S)
           d == [m EXCEPT !.w = w]
           rows == emptied(e, S)
<1>2. removeSeatAndCashOut(e, S) = clearTableAfterCashout(d)
  BY DEF removeSeatAndCashOut
<1>3. S \in SUBSET SeatNos
  BY DEF humans, seated
<1>4. Made(m, e.t, rows, e.w, e.house, e.pool, e.gone)
  BY <1>1, PartsMade DEF empties, emptied
<1>5. \A u \in Players : w[u].free = e.w[u].free + cashedOut(u)
                         /\ w[u].locked = e.w[u].locked - cashedOut(u)
                         /\ w[u] = [free |-> w[u].free, locked |-> w[u].locked]
  OBVIOUS
<1>6. w = [u \in Players |-> w[u]]
  OBVIOUS
<1> HIDE DEF m, cashedOut, w
<1>7. Made(d, e.t, rows, w, e.house, e.pool, e.gone)
  <2>1. /\ Whole(m) /\ m.t = e.t /\ m.s = rows /\ m.house = e.house
        /\ m.pool = e.pool /\ m.gone = e.gone
    BY <1>4 DEF Made
  <2>2. Made(d, m.t, m.s, w, m.house, m.pool, m.gone)
    BY <2>1, PartsMade, Zenon
  <2> HIDE DEF d
  <2> QED
    BY <2>1, <2>2, Zenon
<1>8. rows \in [SeatNos -> SeatRows]
      /\ \A i \in SeatNos : rows[i] = IF i \in S THEN noSeat ELSE e.s[i]
  BY <1>1, EmptiedRows
<1> HIDE DEF d, rows
<1>9. /\ d.t = e.t /\ d.w = w /\ d.house = e.house /\ d.pool = e.pool /\ d.gone = e.gone
      /\ d.s = rows /\ Whole(d)
  BY <1>7 DEF Made
<1>10. \A i \in SeatNos : d.s[i] = IF i \in S THEN noSeat ELSE e.s[i]
  BY <1>8, <1>9
<1>11. ASSUME NEW u \in Players
       PROVE  \E c \in Nat, k \in Nat, a \in Nat :
                /\ c = cashedOut(u) /\ k = stacksOf(d, seatsOf(d, u))
                /\ e.w[u].free = a /\ e.w[u].locked = c + k
                /\ w[u].free = a + c /\ w[u].locked = k /\ w[u] \in Purses
  <2>1. e.w[u].locked = stacksOf(e, seatsOf(e, u))
    BY <1>1 DEF Locks
  <2>2. e.w[u].free \in Nat /\ e.w[u].locked \in Nat
    BY <1>1 DEF IsState, Purses
  <2>3. Emptied(e, d, S)
    BY <1>10 DEF Emptied
  <2>4. /\ stacksOf(e, seatsOf(e, u)) = cashedOut(u) + stacksOf(d, seatsOf(d, u))
        /\ cashedOut(u) \in Nat /\ stacksOf(d, seatsOf(d, u)) \in Nat
    BY <1>1, <2>3, CashedOutStacks DEF cashedOut
  <2>5. PICK c \in Nat : c = cashedOut(u)
    BY <2>4
  <2>6. PICK k \in Nat : k = stacksOf(d, seatsOf(d, u))
    BY <2>4
  <2>7. PICK a \in Nat : a = e.w[u].free
    BY <2>2
  <2>8. e.w[u].locked = c + k
    BY <2>1, <2>4, <2>5, <2>6
  <2>9. a + c \in Nat /\ (c + k) - c = k
    OBVIOUS
  <2>10. w[u] = [free |-> a + c, locked |-> (c + k) - c]
    BY <1>5, <2>5, <2>7, <2>8
  <2>11. w[u] = [free |-> a + c, locked |-> k]
    BY <2>9, <2>10
  <2>12. w[u] \in Purses /\ w[u].free = a + c /\ w[u].locked = k
    BY <2>9, <2>11, PurseOf
  <2> QED
    BY <2>5, <2>6, <2>7, <2>8, <2>12
<1>12. w \in [Players -> Purses]
  BY <1>6, <1>11
<1>13. IsState(d)
  BY <1>1, <1>8, <1>9, <1>12, WholeState
<1>14. HandOK(d)
  <2>1. HandRows(d)
    <3>1. e.t.currentBet \in Nat
      BY <1>1, RowFacts
    <3>2. ASSUME NEW i \in SeatNos
          PROVE  /\ d.s[i].user = NoPlayer => d.s[i].stack = 0 /\ d.s[i].status = "waiting"
                 /\ d.s[i].status = "waiting" => d.s[i].total = 0 /\ d.s[i].committed = 0
                 /\ d.t.status = "waiting" => d.s[i].status = "waiting"
                 /\ d.s[i].committed <= d.t.currentBet
      BY <1>1, <1>9, <1>10, <3>1, NoSeat DEF HandRows
    <3>3. d.t.status = "waiting" => d.t.currentBet = 0
      BY <1>1, <1>9 DEF HandRows
    <3> QED
      BY <3>2, <3>3 DEF HandRows
  <2>2. ASSUME NEW b \in Nat, BetOn(e, b) PROVE BetOn(d, b)
    <3>1. \A i \in SeatNos :
              /\ d.s[i].total <= b + d.s[i].committed
              /\ d.s[i].status = "active" => d.s[i].total = b + d.s[i].committed
      BY <1>10, <2>2, NoSeat DEF BetOn
    <3>2. Nobody(e) => Nobody(d)
      BY <1>9, <1>10, NoSeat DEF Nobody
    <3>3. ASSUME NEW i \in listNonFoldedSeats(e), e.s[i].total = b + e.t.currentBet
          PROVE  i \in listNonFoldedSeats(d) /\ d.s[i].total = b + d.t.currentBet
      <4>1. i \in SeatNos /\ i \notin S
        BY DEF listNonFoldedSeats, seated
      <4> QED
        BY <1>9, <1>10, <3>3, <4>1 DEF listNonFoldedSeats, seated
    <3> QED
      BY <2>2, <3>1, <3>2, <3>3 DEF BetOn
  <2>3. d.t.kind # "casual" => Betting(d)
    <3>1. e.t.kind # "casual" => Betting(e)
      BY DEF Sound, HandOK
    <3> QED
      BY <1>9, <2>2, <3>1 DEF Betting
  <2> QED
    BY <1>13, <2>1, <2>3 DEF HandOK
<1>15. Locks(d)
  <2>1. \A u \in Players : d.w[u].locked = stacksOf(d, seatsOf(d, u))
    BY <1>9, <1>11
  <2> QED
    BY <1>9, <2>1 DEF Locks, isTournamentTable
<1>16. Kinds(d)
  <2>1. \A i \in SeatNos : (i \in seated(d) => i \in seated(e)) /\ (i \in bots(d) => i \in bots(e))
    BY <1>10, NoSeat, HoldemAssumption DEF seated, bots, seatsOf
  <2>2. seated(d) \in SUBSET SeatNos /\ bots(d) \in SUBSET SeatNos
    BY DEF seated, bots, seatsOf
  <2> QED
    BY <1>1, <1>9, <2>1, <2>2 DEF Kinds
<1>17. Turn(d)
  <2>1. \A i \in SeatNos : /\ i \in listActionableSeats(e) => i \in listActionableSeats(d)
                           /\ i \in humans(e) /\ isSeatInHand(e.s[i])
                                => i \in humans(d) /\ isSeatInHand(d.s[i])
    BY <1>10 DEF listActionableSeats, humans, seated, isSeatInHand
  <2>2. listActionableSeats(e) \in SUBSET SeatNos /\ humans(e) \in SUBSET SeatNos
    BY DEF listActionableSeats, humans, seated
  <2> QED
    BY <1>1, <1>9, <2>1, <2>2 DEF Turn
<1>18. Event(d)
  BY <1>9 DEF Event, isTournamentTable
<1>19. worth(d) = worth(e)
  <2>1. money(d) = money(e)
    <3>1. ASSUME NEW u \in Players
          PROVE  d.w[u].free + d.w[u].locked = e.w[u].free + e.w[u].locked
      <4>1. PICK c \in Nat, k \in Nat, a \in Nat :
              /\ e.w[u].free = a /\ e.w[u].locked = c + k
              /\ w[u].free = a + c /\ w[u].locked = k
        BY <1>11
      <4> QED
        BY <1>9, <4>1
    <3> QED
      BY <3>1, SameMoney
  <2>2. totalOf(d, SeatNos) = totalOf(e, SeatNos)
    <3>1. \A i \in SeatNos : d.s[i].total = e.s[i].total
      BY <1>1, <1>10, NoSeat DEF HandRows
    <3>2. [i \in SeatNos |-> d.s[i].total] = [i \in SeatNos |-> e.s[i].total]
      BY <3>1
    <3> QED
      BY <3>2 DEF totalOf
  <2> QED
    BY <1>9, <2>1, <2>2 DEF worth, inPots, isTournamentTable
<1>20. Sound(d)
  BY <1>14, <1>15, <1>16, <1>17, <1>18, <1>19 DEF Sound
<1> QED
  BY <1>2, <1>9, <1>10, <1>20, ClearedIsSound DEF Keeps

\* Broke bots go, then whoever asked to be cashed out and is not in the hand.
LEMMA PendingCashOuts ==
    ASSUME NEW e, Sound(e), ~isTournamentTable(e)
    PROVE  LET f == settlePendingSeatCashOuts(e)
           IN  Sound(f) /\ Keeps(e, f)
<1> DEFINE broke == {i \in bots(e) : e.s[i].stack = 0}
           due == {i \in humans(e) : e.s[i].cashOut /\ canUserLeaveTable(e, i)}
           d == removeBotSeats(e, broke)
<1>1. IsState(e) /\ HandRows(e) /\ Turn(e)
  BY DEF Sound, HandOK
<1>2. e.t.status = "active" => e.t.pending \notin broke
  BY <1>1 DEF Turn, listActionableSeats
<1>3. broke \in SUBSET bots(e)
  OBVIOUS
<1>4. \A i \in due : i \in SeatNos \ broke /\ e.s[i].user # NoPlayer /\ e.s[i].user # Bot
  BY DEF humans, seated, bots, seatsOf
<1>5. \A i \in due : e.s[i].status = "waiting"
  <2>1. \A i \in due : i \in SeatNos /\ ~(e.t.status = "active" /\ isSeatInHand(e.s[i]))
    BY <1>4 DEF canUserLeaveTable
  <2>2. \A i \in SeatNos : e.s[i].status \in {"waiting", "active", "folded", "all_in"}
    BY <1>1, RowFacts
  <2>3. e.t.status \in {"waiting", "active"}
    BY <1>1, RowFacts
  <2> QED
    BY <1>1, <2>1, <2>2, <2>3 DEF isSeatInHand, HandRows
<1>6. settlePendingSeatCashOuts(e) = removeSeatAndCashOut(d, due)
  BY DEF settlePendingSeatCashOuts
<1> HIDE DEF broke, due
<1>7. /\ Sound(d) /\ Keeps(e, d)
      /\ \A i \in SeatNos \ broke : d.s[i] = e.s[i]
  BY <1>2, <1>3, BotsRemoved
<1> HIDE DEF d
<1>8. due \in SUBSET humans(d) /\ \A i \in due : d.s[i].status = "waiting"
  BY <1>4, <1>5, <1>7 DEF humans, seated
<1>9. ~isTournamentTable(d)
  BY <1>7 DEF isTournamentTable, Keeps
<1> QED
  BY <1>6, <1>7, <1>8, <1>9, CashedOut DEF Keeps

LEMMA BotsLeave ==
    ASSUME NEW e, Sound(e)
    PROVE  LET f == botsLeaveWithLastHuman(e)
           IN  Sound(f) /\ Keeps(e, f)
<1>1. CASE humans(e) # {}
  BY <1>1 DEF botsLeaveWithLastHuman, Keeps
<1>2. CASE humans(e) = {}
  <2>1. e.t.status # "active"
    BY <1>2 DEF Sound, Turn
  <2>2. bots(e) \in SUBSET bots(e)
    OBVIOUS
  <2>3. botsLeaveWithLastHuman(e) = removeBotSeats(e, bots(e))
    BY <1>2 DEF botsLeaveWithLastHuman
  <2> QED
    BY <2>1, <2>2, <2>3, BotsRemoved
<1> QED
  BY <1>1, <1>2

-----------------------------------------------------------------------------
(* What is only about time, presence and who sits out *)

SameRow(x, y) ==
    /\ y \in SeatRows
    /\ y.user = x.user /\ y.stack = x.stack /\ y.committed = x.committed /\ y.total = x.total
    /\ y.status = x.status

LEMMA RowsLook ==
    ASSUME NEW e, IsState(e), NEW s, s = [i \in SeatNos |-> s[i]],
           \A i \in SeatNos : SameRow(e.s[i], s[i])
    PROVE  LET f == [e EXCEPT !.s = s]
           IN  Looks(e, f) /\ f.t = e.t /\ f.s = s /\ f.pots = e.pots
<1> DEFINE f == [e EXCEPT !.s = s]
<1>0. f.pots = e.pots
  BY NewRows, WholeState DEF Differs
<1>1. Whole(e) /\ e.t \in TableRows
  BY WholeState
<1>2. Made(f, e.t, s, e.w, e.house, e.pool, e.gone)
  BY <1>1, PartsMade
<1> HIDE DEF f
<1>3. s \in [SeatNos -> SeatRows]
  BY DEF SameRow
<1>4. IsState(f)
  BY <1>1, <1>2, <1>3, WholeState DEF Made
<1>5. Looks(e, f)
  BY <1>2, <1>4 DEF Looks, Made, SameRow
<1> QED
  BY <1>0, <1>2, <1>5 DEF Made, f

\* Whoever is to act has a clock that was started.
Clocked(e) == e.t.status = "active" => e.s[e.t.pending].clock # "none"

LEMMA DeadlinesLook ==
    ASSUME NEW e, IsState(e)
    PROVE  LET f == syncHoldemTurnDeadlines(e)
           IN  Looks(e, f) /\ f.t = e.t /\ (Turn(e) => Clocked(f))
<1> DEFINE s == [i \in SeatNos |->
                    [e.s[i] EXCEPT !.clock = IF ~onTurn(e, i) THEN "none"
                                             ELSE IF @ \in {"none"} THEN "running" ELSE @]]
           f == [e EXCEPT !.s = s]
<1>1. syncHoldemTurnDeadlines(e) = f
  BY DEF syncHoldemTurnDeadlines, clocksAre
<1>2. ASSUME NEW i \in SeatNos
      PROVE  SameRow(e.s[i], s[i]) /\ (onTurn(e, i) => s[i].clock # "none")
  <2>1. e.s[i] \in SeatRows
    BY RowFacts
  <2> QED
    BY <2>1 DEF SameRow, SeatRows
<1>3. s = [i \in SeatNos |-> s[i]]
  OBVIOUS
<1> HIDE DEF s
<1>4. Looks(e, f) /\ f.t = e.t /\ f.s = s
  BY <1>2, <1>3, RowsLook
<1> HIDE DEF f
<1>5. Turn(e) => Clocked(f)
  <2> SUFFICES ASSUME Turn(e), e.t.status = "active" PROVE s[e.t.pending].clock # "none"
    BY <1>4 DEF Clocked
  <2>1. e.t.pending \in SeatNos /\ e.s[e.t.pending].status = "active"
    BY DEF Turn, listActionableSeats, seated
  <2> QED
    BY <1>2, <2>1 DEF onTurn
<1> QED
  BY <1>1, <1>4, <1>5

LEMMA TouchLooks ==
    ASSUME NEW e, IsState(e), NEW u
    PROVE  LET f == applySeatPresenceTouch(e, u)
           IN  Looks(e, f) /\ f.t = e.t /\ f.pots = e.pots
<1> DEFINE y(x) == [x EXCEPT !.presence = "fresh", !.cashOut = FALSE,
                             !.sitOut = IF @ = "presence" /\ x.stack > 0 THEN "no" ELSE @]
           s == [i \in SeatNos |-> IF e.s[i].user # u THEN e.s[i] ELSE y(e.s[i])]
           f == [e EXCEPT !.s = s]
<1>1. applySeatPresenceTouch(e, u) = f
  BY DEF applySeatPresenceTouch
<1>2. ASSUME NEW i \in SeatNos PROVE SameRow(e.s[i], s[i])
  <2>1. e.s[i] \in SeatRows
    BY RowFacts
  <2>2. y(e.s[i]) \in SeatRows
    BY <2>1 DEF SeatRows
  <2> QED
    BY <2>1, <2>2 DEF SameRow, SeatRows
<1>3. s = [i \in SeatNos |-> s[i]]
  OBVIOUS
<1> HIDE DEF s
<1>4. Looks(e, f) /\ f.t = e.t /\ f.pots = e.pots
  BY <1>2, <1>3, RowsLook
<1> QED
  BY <1>1, <1>4

LEMMA NoticedLooks ==
    ASSUME NEW e, IsState(e)
    PROVE  LET f == presenceNoticed(e)
           IN  Looks(e, f) /\ f.t = e.t
<1> DEFINE c == ~isTournamentTable(e)
           y(x) == CASE x.user \in {NoPlayer, Bot} -> x
                     [] x.presence = "graceOver" -> [x EXCEPT !.presence = "away", !.sitOut = "presence"]
                     [] x.presence = "leaseOver" -> [x EXCEPT !.presence = "gone", !.sitOut = "presence",
                                                              !.cashOut = c]
                     [] OTHER -> x
           s == [i \in SeatNos |-> y(e.s[i])]
           f == [e EXCEPT !.s = s]
<1>1. presenceNoticed(e) = f
  BY DEF presenceNoticed
<1>2. ASSUME NEW i \in SeatNos PROVE SameRow(e.s[i], s[i])
  <2>1. e.s[i] \in SeatRows
    BY RowFacts
  <2>2. c \in BOOLEAN
    OBVIOUS
  <2>3. s[i] = y(e.s[i])
    OBVIOUS
  <2> HIDE DEF c, s
  <2>4. ASSUME NEW x \in SeatRows
        PROVE  /\ SameRow(x, x)
               /\ SameRow(x, [x EXCEPT !.presence = "away", !.sitOut = "presence"])
               /\ SameRow(x, [x EXCEPT !.presence = "gone", !.sitOut = "presence", !.cashOut = c])
    BY <2>2 DEF SameRow, SeatRows
  <2>5. ASSUME NEW x, NEW a, NEW b, SameRow(x, x), SameRow(x, a), SameRow(x, b)
        PROVE  SameRow(x, CASE x.user \in {NoPlayer, Bot} -> x
                            [] x.presence = "graceOver" -> a
                            [] x.presence = "leaseOver" -> b
                            [] OTHER -> x)
    BY <2>5
  <2> QED
    BY <2>1, <2>3, <2>4, <2>5, Zenon
<1>3. s = [i \in SeatNos |-> s[i]]
  OBVIOUS
<1> HIDE DEF s
<1>4. Looks(e, f) /\ f.t = e.t
  BY <1>2, <1>3, RowsLook
<1> QED
  BY <1>1, <1>4

sitsOut(x) == [x EXCEPT !.sitOut = "manual", !.cashOut = FALSE]
sitsIn(x) == [x EXCEPT !.sitOut = "no"]

LEMMA ModeLooks ==
    ASSUME NEW e, IsState(e), NEW i \in SeatNos
    PROVE  Looks(e, takes(e, i, sitsOut(e.s[i]))) /\ Looks(e, takes(e, i, sitsIn(e.s[i])))
<1>1. ASSUME NEW x, SameRow(e.s[i], x) PROVE Looks(e, takes(e, i, x))
  <2> DEFINE s == [e.s EXCEPT ![i] = x]
  <2>1. \A j \in SeatNos : e.s[j] \in SeatRows
    BY RowFacts
  <2>2. e.s \in [SeatNos -> SeatRows]
    BY WholeState
  <2>3. \A j \in SeatNos : SameRow(e.s[j], s[j])
    BY <1>1, <2>1, <2>2 DEF SameRow
  <2>4. s = [j \in SeatNos |-> s[j]]
    BY <2>2
  <2> HIDE DEF s
  <2>5. Looks(e, [e EXCEPT !.s = s])
    BY <2>3, <2>4, RowsLook
  <2> QED
    BY <2>5 DEF takes, s
<1>2. e.s[i] \in SeatRows
  BY RowFacts
<1>3. SameRow(e.s[i], sitsOut(e.s[i])) /\ SameRow(e.s[i], sitsIn(e.s[i]))
  BY <1>2 DEF SameRow, SeatRows, sitsOut, sitsIn
<1> QED
  BY <1>1, <1>3

LEMMA PotsLook ==
    ASSUME NEW e, IsState(e), NEW P
    PROVE  LET f == [e EXCEPT !.pots = P]
           IN  Looks(e, f) /\ f.t = e.t /\ f.s = e.s
<1> DEFINE f == [e EXCEPT !.pots = P]
<1>1. Made(f, e.t, e.s, e.w, e.house, e.pool, e.gone)
  BY PartsMade, WholeState
<1> HIDE DEF f
<1>2. IsState(f)
  BY <1>1, WholeState DEF Made
<1>3. Looks(e, f)
  BY <1>1, <1>2 DEF Looks, Made
<1> QED
  BY <1>1, <1>3 DEF Made, f

-----------------------------------------------------------------------------
(***************************************************************************)
(* The invariant of the specification, and what a transaction has to       *)
(* leave behind to keep it.                                                *)
(***************************************************************************)
HoldemInv == Sound(loadTableState) /\ Clocked(loadTableState)

LEMMA LoadedState ==
    ASSUME HoldemInv
    PROVE  LET e == loadTableState
           IN  /\ Sound(e) /\ Clocked(e) /\ e.t = table /\ e.s = seats /\ e.w = purse /\ e.pots = {}
               /\ e.house = bankroll /\ e.pool = prizePool /\ e.gone = vanished
  BY DEF HoldemInv, loadTableState

LEMMA PersistedIsSound ==
    ASSUME NEW e, Sound(e), Clocked(e), persisted(e)
    PROVE  HoldemInv'
<1> DEFINE f == [t |-> table', s |-> seats', w |-> purse', house |-> bankroll', pool |-> prizePool',
                 gone |-> vanished', pots |-> {}]
<1>1. loadTableState' = f
  BY DEF loadTableState
<1>2. IsState(e)
  BY DEF Sound, HandOK
<1>3. /\ f = StateOf(f.t, f.s, f.w, f.house, f.pool, f.gone, f.pots)
      /\ f.t = e.t /\ f.s = e.s /\ f.w = e.w /\ f.house = e.house /\ f.pool = e.pool
      /\ f.gone = e.gone
  BY DEF persisted, StateOf
<1> HIDE DEF f
<1>4. IsState(f)
  BY <1>2, <1>3, WholeState DEF Whole
<1>5. Looks(e, f)
  BY <1>3, <1>4 DEF Looks
<1>6. Sound(f)
  BY <1>5, LooksSound
<1>7. Clocked(f)
  BY <1>3 DEF Clocked
<1>8. Sound(loadTableState') /\ Clocked(loadTableState')
  BY <1>1, <1>6, <1>7, Zenon
<1> QED
  BY <1>8 DEF HoldemInv

-----------------------------------------------------------------------------
(* What a hand moved is booked *)

LEMMA SameSeating ==
    ASSUME NEW e, NEW f, SameTable(e, f)
    PROVE  /\ seated(f) = seated(e) /\ bots(f) = bots(e) /\ humans(f) = humans(e)
           /\ \A u : seatsOf(f, u) = seatsOf(e, u)
           /\ registered(f) = registered(e)
           /\ (isTournamentTable(f) <=> isTournamentTable(e))
<1>1. \A i \in SeatNos : f.s[i].user = e.s[i].user
  BY DEF SameTable
<1>2. seated(f) = seated(e) /\ \A u : seatsOf(f, u) = seatsOf(e, u)
  BY <1>1 DEF seated, seatsOf
<1>3. humans(f) = humans(e) /\ bots(f) = bots(e)
  BY <1>1, <1>2 DEF humans, bots, seated
<1>4. registered(f) = registered(e)
  BY DEF SameTable, registered
<1> QED
  BY <1>2, <1>3, <1>4 DEF SameTable, isTournamentTable

\* What the stacks of some seats gained.
gain(before, e) == [i \in SeatNos |-> e.s[i].stack - before.s[i].stack]

LEMMA GainOfSeats ==
    ASSUME NEW before, IsState(before), NEW e, IsState(e), NEW S \in SUBSET SeatNos
    PROVE  LET d == SumFunctionOnSet([i \in S |-> e.s[i].stack - before.s[i].stack], S)
           IN  /\ d = SumFunctionOnSet(gain(before, e), S) /\ d \in Int
               /\ stacksOf(e, S) = stacksOf(before, S) + d
               /\ stacksOf(e, S) \in Nat /\ stacksOf(before, S) \in Nat
               /\ \A i \in SeatNos : gain(before, e)[i] \in Int
<1> DEFINE g == [i \in S |-> e.s[i].stack - before.s[i].stack]
           h == gain(before, e)
           a == stacks(before)
           b == stacks(e)
<1>1. \A i \in SeatNos : before.s[i].stack \in Nat /\ e.s[i].stack \in Nat
  BY RowFacts
<1>2. \A i \in SeatNos : /\ h[i] \in Int /\ a[i] \in Int /\ b[i] \in Int /\ b[i] = a[i] + h[i]
                         /\ h[i] = e.s[i].stack - before.s[i].stack
  BY <1>1 DEF gain, stacks
<1>3. \A i \in S : g[i] = h[i]
  BY <1>2
<1>4. /\ stacksOf(e, S) = SumFunctionOnSet(b, S) /\ stacksOf(e, S) \in Nat
      /\ stacksOf(before, S) = SumFunctionOnSet(a, S) /\ stacksOf(before, S) \in Nat
      /\ IsFiniteSet(S)
  BY ChipSums
<1> HIDE DEF g, h, a, b
<1>5. SumFunctionOnSet(g, S) = SumFunctionOnSet(h, S)
  BY <1>3, <1>4, SumOfEqual
<1>6. SumFunctionOnSet(b, S) = SumFunctionOnSet(a, S) + SumFunctionOnSet(h, S)
  <2>1. \A i \in S : a[i] \in Int /\ h[i] \in Int /\ b[i] = a[i] + h[i]
    BY <1>2
  <2> QED
    BY <1>4, <2>1, SumOfSums
<1>7. SumFunctionOnSet(h, S) \in Int
  <2>1. \A i \in S : h[i] \in Int
    BY <1>2
  <2> QED
    BY <1>4, <2>1, SumIsInt
<1> QED
  BY <1>2, <1>4, <1>5, <1>6, <1>7 DEF g, h

LEMMA Booked ==
    ASSUME NEW before, Sound(before), ~isTournamentTable(before), NEW net, HandOK(net), Turn(net),
           SameTable(before, net), NEW rake \in Nat, chipsIn(net) + rake = chipsIn(before),
           net.t.kind # "casual" => net.gone = before.gone
    PROVE  LET f == syncSettledLockedBalances(before, net, rake)
           IN  Sound(f) /\ f.t = net.t /\ f.s = net.s
<1> DEFINE delta(S) == SumFunctionOnSet([i \in S |-> net.s[i].stack - before.s[i].stack], S)
           w == [u \in Players |->
                    [net.w[u] EXCEPT !.locked = net.w[u].locked + delta(seatsOf(net, u))]]
           h == net.house + delta(bots(net)) + rake
           m == [net EXCEPT !.w = w]
           f == [net EXCEPT !.w = w, !.house = h]
           d == gain(before, net)
<1>0. f = syncSettledLockedBalances(before, net, rake)
  BY DEF syncSettledLockedBalances
<1>1. /\ IsState(before) /\ IsState(net) /\ Whole(net) /\ Locks(before) /\ Kinds(before)
      /\ HandRows(net)
  BY WholeState DEF Sound, HandOK
<1>2. /\ seated(net) = seated(before) /\ bots(net) = bots(before) /\ humans(net) = humans(before)
      /\ \A u : seatsOf(net, u) = seatsOf(before, u)
      /\ ~isTournamentTable(net)
      /\ net.w = before.w /\ net.house = before.house /\ net.pool = before.pool
      /\ net.t.kind = before.t.kind /\ net.t.event = before.t.event
      /\ net.t.standing = before.t.standing
  BY SameSeating DEF SameTable
<1>3. ASSUME NEW S \in SUBSET SeatNos
      PROVE  /\ delta(S) = SumFunctionOnSet(d, S) /\ delta(S) \in Int
             /\ stacksOf(net, S) = stacksOf(before, S) + delta(S)
             /\ stacksOf(net, S) \in Nat /\ stacksOf(before, S) \in Nat
  BY <1>1, GainOfSeats
<1>4. \A i \in SeatNos : d[i] \in Int
  BY <1>1, GainOfSeats
<1>5. \A u : seatsOf(net, u) \in SUBSET SeatNos
  BY DEF seatsOf
<1>6. \A u \in Players : w[u] = [net.w[u] EXCEPT !.locked = net.w[u].locked + delta(seatsOf(net, u))]
  OBVIOUS
<1>7. w = [u \in Players |-> w[u]]
  OBVIOUS
<1>8. h = net.house + delta(bots(net)) + rake
  OBVIOUS
<1>9. bots(net) \in SUBSET SeatNos
  BY <1>5 DEF bots
<1> HIDE DEF delta, w, h, d
<1>10. ASSUME NEW u \in Players
       PROVE  \E a \in Nat, k \in Nat, n \in Nat, c \in Int :
                /\ before.w[u].free = a /\ before.w[u].locked = k /\ c = delta(seatsOf(net, u))
                /\ n = k + c /\ n = stacksOf(net, seatsOf(net, u))
                /\ w[u].free = a /\ w[u].locked = n /\ w[u] \in Purses
  <2>1. PICK c \in Int : c = delta(seatsOf(net, u))
    BY <1>3, <1>5
  <2>2. before.w[u] \in Purses /\ before.w[u].free \in Nat /\ before.w[u].locked \in Nat
    BY <1>1 DEF IsState, Purses
  <2>3. PICK a \in Nat : a = before.w[u].free
    BY <2>2
  <2>4. PICK k \in Nat : k = before.w[u].locked
    BY <2>2
  <2>5. k = stacksOf(before, seatsOf(net, u))
    BY <1>1, <1>2, <2>4 DEF Locks, isTournamentTable
  <2>6. PICK n \in Nat : n = stacksOf(net, seatsOf(net, u)) /\ n = k + c
    BY <1>3, <1>5, <2>1, <2>5
  <2>7. w[u] = [before.w[u] EXCEPT !.locked = n]
    <3>1. net.w[u] = before.w[u] /\ net.w[u].locked + delta(seatsOf(net, u)) = n
      BY <1>2, <2>1, <2>4, <2>6
    <3>2. w[u] = [net.w[u] EXCEPT !.locked = net.w[u].locked + delta(seatsOf(net, u))]
      BY <1>6
    <3> QED
      BY <3>1, <3>2, Zenon
  <2>8. w[u].free = a /\ w[u].locked = n /\ w[u] \in Purses
    BY <2>2, <2>3, <2>7 DEF Purses
  <2> QED
    BY <2>1, <2>3, <2>4, <2>6, <2>8
<1>11. w \in [Players -> Purses]
  BY <1>7, <1>10
<1>12. PICK c \in Int : c = delta(bots(net))
  BY <1>3, <1>9
<1>13. h = net.house + c + rake /\ net.house \in Int /\ h \in Int
  <2>1. net.house \in Int
    BY <1>1 DEF IsState
  <2> QED
    BY <1>8, <1>12, <2>1
<1>14. Made(f, net.t, net.s, w, h, net.pool, net.gone)
  <2>1. Made(m, net.t, net.s, w, net.house, net.pool, net.gone)
    BY <1>1, PartsMade
  <2>2. f = [m EXCEPT !.house = h]
    OBVIOUS
  <2> HIDE DEF m, f
  <2>3. Whole(m) /\ m.t = net.t /\ m.s = net.s /\ m.w = w /\ m.pool = net.pool /\ m.gone = net.gone
    BY <2>1 DEF Made
  <2>4. Made(f, m.t, m.s, m.w, h, m.pool, m.gone)
    BY <2>2, <2>3, PartsMade, Zenon
  <2> QED
    BY <2>3, <2>4, Zenon
<1> HIDE DEF f
<1>15. /\ f.t = net.t /\ f.s = net.s /\ f.w = w /\ f.house = h /\ f.pool = net.pool
       /\ f.gone = net.gone /\ Whole(f)
  BY <1>14 DEF Made
<1>16. IsState(f)
  BY <1>1, <1>11, <1>13, <1>15, WholeState
<1>17. /\ seated(f) = seated(net) /\ bots(f) = bots(net) /\ humans(f) = humans(net)
       /\ listActionableSeats(f) = listActionableSeats(net)
       /\ listNonFoldedSeats(f) = listNonFoldedSeats(net)
       /\ \A u : seatsOf(f, u) = seatsOf(net, u)
       /\ \A S : stacksOf(f, S) = stacksOf(net, S) /\ totalOf(f, S) = totalOf(net, S)
       /\ ~isTournamentTable(f)
  BY <1>2, <1>15 DEF seated, bots, humans, listActionableSeats, listNonFoldedSeats, seatsOf, stacksOf,
                     totalOf, isTournamentTable
<1>18. HandOK(f)
  <2>1. HandRows(f)
    BY <1>1, <1>15 DEF HandRows
  <2>2. net.t.kind # "casual" => Betting(net)
    BY DEF HandOK
  <2>3. Nobody(f) <=> Nobody(net)
    BY <1>15 DEF Nobody
  <2>4. \A b : BetOn(net, b) => BetOn(f, b)
    BY <1>15, <1>17, <2>3 DEF BetOn
  <2> QED
    BY <1>15, <1>16, <2>1, <2>2, <2>4 DEF HandOK, Betting
<1>19. Locks(f)
  BY <1>10, <1>15, <1>17 DEF Locks
<1>20. Kinds(f)
  BY <1>1, <1>2, <1>15, <1>17 DEF Kinds
<1>21. Turn(f)
  BY <1>15, <1>17 DEF Turn
<1>22. Event(f)
  BY <1>17 DEF Event, isTournamentTable
<1>23. worth(f) = worth(before)
  <2> DEFINE each == [u \in Players |-> SumFunctionOnSet(d, seatsOf(net, u))]
  <2>1. \A u \in Players : each[u] = delta(seatsOf(net, u)) /\ each[u] \in Int
    BY <1>3, <1>5
  <2>2. SumFunctionOnSet(each, Players) + c = SumFunctionOnSet(d, SeatNos)
    <3>1. \A i \in SeatNos : net.s[i].user = NoPlayer => d[i] = 0
      <4>1. HandRows(before) /\ \A i \in SeatNos : net.s[i].user = before.s[i].user
        BY DEF Sound, HandOK, SameTable
      <4> QED
        BY <1>1, <4>1 DEF HandRows, d, gain
    <3>2. c = SumFunctionOnSet(d, bots(net))
      BY <1>3, <1>9, <1>12
    <3> QED
      BY <1>1, <1>4, <3>1, <3>2, SeatsByOwner
  <2>3. ASSUME NEW u \in Players
        PROVE  /\ each[u] \in Int
               /\ f.w[u].free + f.w[u].locked = before.w[u].free + before.w[u].locked + each[u]
    <3>1. PICK a \in Nat, k \in Nat, n \in Nat, x \in Int :
            /\ before.w[u].free = a /\ before.w[u].locked = k /\ x = delta(seatsOf(net, u))
            /\ n = k + x /\ w[u].free = a /\ w[u].locked = n
      BY <1>10
    <3>2. each[u] = x
      BY <2>1, <3>1
    <3> HIDE DEF each
    <3> QED
      BY <1>15, <3>1, <3>2
  <2> HIDE DEF each
  <2>4. /\ money(f) = money(before) + SumFunctionOnSet(each, Players)
        /\ money(before) \in Int /\ SumFunctionOnSet(each, Players) \in Int
    BY <1>1, <1>16, <2>3, MoneyMoves
  <2>5. /\ stacksOf(net, SeatNos) = stacksOf(before, SeatNos) + SumFunctionOnSet(d, SeatNos)
        /\ stacksOf(net, SeatNos) \in Nat /\ stacksOf(before, SeatNos) \in Nat
       /\ SumFunctionOnSet(d, SeatNos) \in Int
    BY <1>3
  <2>6. totalOf(net, SeatNos) \in Nat /\ totalOf(before, SeatNos) \in Nat
    BY <1>1, ChipSums
  <2>7. before.house \in Int /\ before.pool \in Int /\ before.gone \in Int /\ net.gone \in Int
    BY <1>1 DEF IsState
  <2>8. inPots(f) = totalOf(net, SeatNos) /\ inPots(before) = totalOf(before, SeatNos)
    BY <1>17 DEF inPots
  <2>9. stacksOf(net, SeatNos) + totalOf(net, SeatNos) + net.gone + rake
          = stacksOf(before, SeatNos) + totalOf(before, SeatNos) + before.gone
    BY DEF chipsIn
  <2>10. f.house = before.house + c + rake /\ f.pool = before.pool /\ f.gone = net.gone
    BY <1>2, <1>13, <1>15
  <2>11. inPots(f) + f.gone + rake + SumFunctionOnSet(d, SeatNos) = inPots(before) + before.gone
         /\ inPots(f) \in Int /\ inPots(before) \in Int
    BY <2>5, <2>6, <2>7, <2>8, <2>9, <2>10
  <2>12. money(f) + f.house = money(before) + before.house + SumFunctionOnSet(d, SeatNos) + rake
    BY <2>2, <2>4, <2>7, <2>10
  <2>13. money(f) \in Int /\ f.house \in Int /\ f.gone \in Int
    BY <1>16, MoneyIsInt DEF IsState
  <2> QED
    BY <2>4, <2>5, <2>7, <2>10, <2>11, <2>12, <2>13 DEF worth
<1>24. Sound(f)
  BY <1>18, <1>19, <1>20, <1>21, <1>22, <1>23 DEF Sound
<1> QED
  BY <1>0, <1>15, <1>24

-----------------------------------------------------------------------------
(* The end of a transaction that moved the hand on *)

LEMMA EndOfTransition ==
    ASSUME NEW x, Sound(x)
    PROVE  LET f == [syncHoldemTurnDeadlines(botsLeaveWithLastHuman(x)) EXCEPT !.pots = {}]
           IN  Sound(f) /\ Clocked(f)
<1> DEFINE b == botsLeaveWithLastHuman(x)
           c == syncHoldemTurnDeadlines(b)
           f == [c EXCEPT !.pots = {}]
<1>1. Sound(b)
  BY BotsLeave
<1> HIDE DEF b
<1>2. IsState(b) /\ Turn(b)
  BY <1>1 DEF Sound, HandOK
<1>3. Looks(b, c) /\ Clocked(c)
  BY <1>2, DeadlinesLook
<1> HIDE DEF c
<1>4. Sound(c) /\ IsState(c)
  BY <1>1, <1>3, LooksSound DEF Looks
<1>5. Looks(c, f) /\ f.t = c.t /\ f.s = c.s
  BY <1>4, PotsLook
<1> HIDE DEF f
<1>6. Sound(f) /\ Clocked(f)
  BY <1>3, <1>4, <1>5, LooksSound DEF Clocked
<1> QED
  BY <1>6 DEF f, c, b

\* Deadlines on the way out.
LEMMA SynchedIsSound ==
    ASSUME NEW x, Sound(x)
    PROVE  LET f == syncHoldemTurnDeadlines(x)
           IN  Sound(f) /\ Clocked(f)
<1>1. IsState(x) /\ Turn(x)
  BY DEF Sound, HandOK
<1> QED
  BY <1>1, DeadlinesLook, LooksSound

LEMMA OutcomeTurn ==
    ASSUME NEW before, Sound(before), before.t.status = "active", NEW e, Outcome(before, e)
    PROVE  Turn(e)
<1> SUFFICES ASSUME e.t.status = "active"
             PROVE  e.t.pending \in listActionableSeats(e) /\ \E i \in humans(e) : isSeatInHand(e.s[i])
  BY DEF Turn
<1>1. PICK i \in humans(before) : isSeatInHand(before.s[i])
  BY DEF Sound, Turn
<1>2. i \in SeatNos /\ i \in humans(e)
  BY SameSeating DEF Outcome, humans, seated
<1> QED
  BY <1>1, <1>2 DEF Outcome

\* A player who answers, or whose clock ran out, changes nothing of the hand.
LEMMA OutcomeLooks ==
    ASSUME NEW before, NEW e, Outcome(before, e), NEW f, Looks(e, f), f.t = e.t, f.pots = e.pots
    PROVE  Outcome(before, f)
<1>1. HandOK(f)
  BY LooksHand DEF Outcome
<1>2. \A i \in SeatNos : /\ f.s[i].user = e.s[i].user /\ f.s[i].stack = e.s[i].stack
                         /\ (isSeatInHand(f.s[i]) <=> isSeatInHand(e.s[i]))
  BY DEF Looks, isSeatInHand
<1>3. /\ f.w = e.w /\ f.house = e.house /\ f.pool = e.pool /\ f.gone = e.gone
  BY DEF Looks
<1>4. chipsIn(f) = chipsIn(e)
  BY <1>3, LooksSame DEF chipsIn
<1>5. SameTable(before, f)
  BY <1>2, <1>3 DEF Outcome, SameTable
<1>6. Paid(e) => Paid(f)
  BY <1>2 DEF Paid
<1>7. listActionableSeats(f) = listActionableSeats(e)
  BY LooksSame
<1> QED
  BY <1>1, <1>2, <1>3, <1>4, <1>5, <1>6, <1>7 DEF Outcome

\* The rake of a cash hand leaves the table and goes to the house.
LEMMA RakedHand ==
    ASSUME NEW before, NEW e, Outcome(before, e), e.t.kind = "cash", e.t.status = "waiting",
           NEW net, NEW rake, NEW paid, Raked(e, net, rake, paid)
    PROVE  /\ HandOK(net) /\ Turn(net) /\ SameTable(before, net) /\ rake \in Nat
           /\ chipsIn(net) + rake = chipsIn(before) /\ net.gone = before.gone
<1>1. IsState(e) /\ IsState(net) /\ HandRows(e) /\ SameTable(before, e)
      /\ e.t.kind = before.t.kind
      /\ net.t = e.t /\ net.w = e.w /\ net.house = e.house /\ net.pool = e.pool
      /\ net.gone = e.gone
  BY DEF Outcome, HandOK, Raked, SameTable
<1>2. ASSUME NEW i \in SeatNos
      PROVE  \E k \in Nat, n \in Nat, m \in Nat :
                /\ k = e.s[i].stack /\ n = paid[i] /\ m = net.s[i].stack /\ k = m + n
                /\ net.s[i].user = e.s[i].user /\ net.s[i].committed = e.s[i].committed
                /\ net.s[i].total = e.s[i].total /\ net.s[i].status = e.s[i].status
  <2>1. PICK n \in Nat : n = paid[i]
    BY DEF Raked
  <2>2. e.s[i] \in SeatRows /\ e.s[i].stack \in Nat /\ net.s[i].stack \in Nat
    BY <1>1, RowFacts
  <2>3. n <= e.s[i].stack /\ net.s[i] = lessStack(e.s[i], n)
    BY <2>1 DEF Raked
  <2>4. LET y == lessStack(e.s[i], n)
        IN  /\ y.user = e.s[i].user /\ y.stack = e.s[i].stack - n
            /\ y.committed = e.s[i].committed /\ y.total = e.s[i].total /\ y.status = e.s[i].status
    BY <2>2, <2>3, LessStack
  <2>5. /\ net.s[i].user = e.s[i].user /\ net.s[i].stack = e.s[i].stack - n
        /\ net.s[i].committed = e.s[i].committed
        /\ net.s[i].total = e.s[i].total /\ net.s[i].status = e.s[i].status
    BY <2>3, <2>4
  <2>6. PICK k \in Nat : k = e.s[i].stack
    BY <2>2
  <2>7. PICK m \in Nat : m = net.s[i].stack
    BY <2>2
  <2> QED
    BY <2>1, <2>5, <2>6, <2>7
<1>3. e.t.currentBet = 0 /\ \A i \in SeatNos : e.s[i].total = 0 /\ e.s[i].committed = 0
                                               /\ e.s[i].status = "waiting"
  BY <1>1 DEF HandRows
<1>4. HandRows(net)
  <2>1. ASSUME NEW i \in SeatNos, net.s[i].user = NoPlayer PROVE net.s[i].stack = 0
    <3>1. PICK k \in Nat, n \in Nat, m \in Nat :
              k = e.s[i].stack /\ m = net.s[i].stack /\ k = m + n /\ net.s[i].user = e.s[i].user
      BY <1>2
    <3>2. k = 0
      BY <1>1, <2>1, <3>1 DEF HandRows
    <3> QED
      BY <3>1, <3>2
  <2>2. \A i \in SeatNos : net.s[i].total = 0 /\ net.s[i].committed = 0 /\ net.s[i].status = "waiting"
    BY <1>2, <1>3
  <2> QED
    BY <1>1, <1>3, <2>1, <2>2 DEF HandRows
<1>5. Betting(net)
  <2>1. \A i \in SeatNos : net.s[i].total = 0 /\ net.s[i].committed = 0
    BY <1>2, <1>3
  <2>2. Nobody(net)
    BY <1>1, <1>3, <2>1 DEF Nobody
  <2>3. BetOn(net, 0)
    <3>1. \A i \in SeatNos : /\ net.s[i].total <= 0 + net.s[i].committed
                             /\ net.s[i].status = "active" => net.s[i].total = 0 + net.s[i].committed
      BY <2>1
    <3> QED
      BY <2>2, <3>1 DEF BetOn
  <2> QED
    BY <2>3 DEF Betting
<1>6. HandOK(net)
  BY <1>1, <1>4, <1>5 DEF HandOK
<1>7. SameTable(before, net)
  <2>1. \A i \in SeatNos : net.s[i].user = e.s[i].user
    BY <1>2
  <2> QED
    BY <1>1, <2>1 DEF SameTable
<1>8. Turn(net)
  BY <1>1 DEF Turn
<1>9. chipsIn(net) + rake = chipsIn(e) /\ rake \in Nat
  <2> DEFINE a == stacks(net)
             b == stacks(e)
  <2>1. ASSUME NEW i \in SeatNos
        PROVE  a[i] \in Int /\ paid[i] \in Int /\ b[i] = a[i] + paid[i]
    <3>1. PICK k \in Nat, n \in Nat, m \in Nat :
              k = e.s[i].stack /\ m = net.s[i].stack /\ k = m + n /\ n = paid[i]
      BY <1>2
    <3>2. a[i] = net.s[i].stack /\ b[i] = e.s[i].stack
      BY DEF stacks
    <3> HIDE DEF a, b
    <3>3. a[i] = m /\ paid[i] = n /\ b[i] = m + n
      BY <3>1, <3>2
    <3> QED
      BY <3>3
  <2>2. /\ stacksOf(net, SeatNos) = SumFunctionOnSet(a, SeatNos) /\ stacksOf(net, SeatNos) \in Nat
        /\ stacksOf(e, SeatNos) = SumFunctionOnSet(b, SeatNos) /\ stacksOf(e, SeatNos) \in Nat
        /\ totalOf(e, SeatNos) \in Nat
    BY <1>1, ChipSums
  <2>3. totalOf(net, SeatNos) = totalOf(e, SeatNos)
    <3>1. \A i \in SeatNos : net.s[i].total = e.s[i].total
      BY <1>2
    <3>2. [i \in SeatNos |-> net.s[i].total] = [i \in SeatNos |-> e.s[i].total]
      BY <3>1
    <3> QED
      BY <3>2 DEF totalOf
  <2> HIDE DEF a, b
  <2>4. SumFunctionOnSet(b, SeatNos) = SumFunctionOnSet(a, SeatNos) + SumFunctionOnSet(paid, SeatNos)
    BY <2>1, SeatsFinite, SumOfSums
  <2>5. SumFunctionOnSet(paid, SeatNos) = rake /\ rake \in Nat
    BY DEF Raked
  <2>6. e.gone \in Int
    BY <1>1 DEF IsState
  <2> QED
    BY <1>1, <2>2, <2>3, <2>4, <2>5, <2>6 DEF chipsIn
<1>10. net.gone = before.gone /\ chipsIn(e) = chipsIn(before)
  BY <1>1 DEF Outcome
<1> QED
  BY <1>6, <1>7, <1>8, <1>9, <1>10

LEMMA CashTransition ==
    ASSUME NEW before, Sound(before), before.t.status = "active", ~isTournamentTable(before),
           NEW e, Outcome(before, e), NEW f \in persistHoldemTransition(before, e)
    PROVE  Sound(f) /\ Clocked(f)
<1> DEFINE raked == e.t.kind = "cash" /\ e.t.status = "waiting"
           net == IF raked THEN applyRakeToSettledState(e, RakePolicy) ELSE e
           rake == IF raked THEN totalRakeAmount(e, RakePolicy) ELSE 0
           booked == syncSettledLockedBalances(before, net, rake)
           settled == settlePendingSeatCashOuts(booked)
<1>1. SameTable(before, e) /\ HandOK(e) /\ IsState(e) /\ chipsIn(e) = chipsIn(before)
      /\ (before.t.kind # "casual" => e.gone = before.gone /\ (e.t.status = "waiting" => Paid(e)))
      /\ e.t.kind = before.t.kind /\ ~isTournamentTable(e)
  BY SameSeating DEF Outcome, HandOK, SameTable
<1>2. f = [syncHoldemTurnDeadlines(botsLeaveWithLastHuman(settled)) EXCEPT !.pots = {}]
  BY <1>1 DEF persistHoldemTransition
<1>3. /\ HandOK(net) /\ Turn(net) /\ SameTable(before, net) /\ rake \in Nat
      /\ chipsIn(net) + rake = chipsIn(before)
      /\ (net.t.kind # "casual" => net.gone = before.gone)
  <2>1. CASE raked
    <3>1. PICK paid : Raked(e, applyRakeToSettledState(e, RakePolicy), totalRakeAmount(e, RakePolicy), paid)
      BY <1>1, <2>1, RakeFacts
    <3>2. Raked(e, net, rake, paid)
      BY <2>1, <3>1
    <3> HIDE DEF net, rake
    <3> QED
      BY <2>1, <3>2, RakedHand
  <2>2. CASE ~raked
    <3>1. net = e /\ rake = 0
      BY <2>2
    <3>2. Turn(e)
      BY OutcomeTurn
    <3>3. chipsIn(e) \in Int
      BY <1>1, ChipSums DEF chipsIn, IsState
    <3> HIDE DEF net, rake
    <3> QED
      BY <1>1, <3>1, <3>2, <3>3
  <2> QED
    BY <2>1, <2>2
<1> HIDE DEF net, rake
<1>4. Sound(booked) /\ booked.t = net.t
  BY <1>3, Booked
<1> HIDE DEF booked
<1>5. ~isTournamentTable(booked)
  BY <1>3, <1>4 DEF isTournamentTable, SameTable
<1>6. Sound(settled)
  BY <1>4, <1>5, PendingCashOuts
<1> HIDE DEF settled
<1> QED
  BY <1>2, <1>6, EndOfTransition

-----------------------------------------------------------------------------
(* Tournaments *)

\* At most three places are paid, and no more than there are players.
LEMMA PaidPlaces ==
    ASSUME NEW count \in Nat, count >= 1, NEW requested \in Nat
    PROVE  LET places == resolveTournamentPayoutPlaces(count, requested)
           IN  places \in 1..3 /\ places <= count
<1>1. CASE count <= 1
  BY <1>1 DEF resolveTournamentPayoutPlaces
<1>2. CASE ~(count <= 1)
  <2> DEFINE default == IF count <= 2 THEN 1 ELSE IF count <= 5 THEN 2 ELSE 3
  <2>1. PICK x \in Nat : x = IF requested = 0 THEN default ELSE requested
    OBVIOUS
  <2>2. PICK m \in Nat : m = Min({count, 3, x}) /\ m <= count /\ m <= 3
    <3>1. {count, 3, x} \in SUBSET Nat /\ {count, 3, x} # {}
      OBVIOUS
    <3>2. Min({count, 3, x}) \in {count, 3, x} /\ \A m \in {count, 3, x} : Min({count, 3, x}) <= m
      BY <3>1, MinOfNaturals
    <3>3. PICK m \in Nat : m = Min({count, 3, x})
      BY <3>2
    <3> QED
      BY <3>2, <3>3
  <2>3. Max({1, m}) = IF m <= 1 THEN 1 ELSE m
    BY DEF Max
  <2>4. resolveTournamentPayoutPlaces(count, requested) = Max({1, m})
    BY <1>2, <2>1, <2>2 DEF resolveTournamentPayoutPlaces
  <2> QED
    BY <1>2, <2>2, <2>3, <2>4
<1> QED
  BY <1>1, <1>2

\* Each seat of a tournament is that of one of the registered players.
LEMMA SeatsOfPlayers ==
    ASSUME NEW e, Sound(e), isTournamentTable(e)
    PROVE  /\ IsFiniteSet(seated(e)) /\ Cardinality(seated(e)) \in Nat
           /\ IsFiniteSet(registered(e)) /\ Cardinality(registered(e)) \in Nat
           /\ Cardinality(seated(e)) <= Cardinality(registered(e))
           /\ \A i \in seated(e) : e.s[i].user \in Players /\ e.s[i].user \in registered(e)
           /\ seated(e) \in SUBSET SeatNos /\ registered(e) \in SUBSET Players
<1> DEFINE own == [i \in seated(e) |-> e.s[i].user]
<1>1. seated(e) \in SUBSET SeatNos /\ registered(e) \in SUBSET Players
  BY DEF seated, registered
<1>2. IsFiniteSet(seated(e)) /\ IsFiniteSet(registered(e))
  BY <1>1, SeatsFinite, HoldemAssumption, FS_Subset
<1>3. Seating(e) /\ Kinds(e) /\ IsState(e) /\ e.t.kind = "tournament"
  BY DEF Sound, Event, HandOK, isTournamentTable
<1>4. ASSUME NEW i \in seated(e) PROVE e.s[i].user \in Players /\ e.s[i].user \in registered(e)
  <2>1. i \in SeatNos /\ e.s[i].user # NoPlayer
    BY DEF seated
  <2>2. e.s[i].user \in Players \cup {Bot, NoPlayer}
    BY <1>3, <2>1, RowFacts
  <2>3. e.s[i].user # Bot
    BY <1>3, <2>1 DEF Kinds, bots, seatsOf
  <2>4. e.t.standing[e.s[i].user] = 0
    BY <1>3 DEF Seating
  <2> QED
    BY <2>1, <2>2, <2>3, <2>4 DEF registered, Nil
<1>5. own \in Injection(seated(e), registered(e))
  BY <1>3, <1>4 DEF Injection, IsInjective, Seating
<1>6. Cardinality(seated(e)) <= Cardinality(registered(e))
  <2> HIDE DEF own
  <2> QED
    BY <1>2, <1>5, FS_Injection
<1> QED
  BY <1>1, <1>2, <1>4, <1>6, FS_CardinalityType

\* A hand leaves the event as it is.
LEMMA EventGoesOn ==
    ASSUME NEW before, Sound(before), isTournamentTable(before), before.t.event # "registering",
           NEW e, HandOK(e), Turn(e), SameTable(before, e), chipsIn(e) = chipsIn(before),
           e.gone = before.gone
    PROVE  Sound(e)
<1>1. /\ seated(e) = seated(before) /\ bots(e) = bots(before)
      /\ \A u : seatsOf(e, u) = seatsOf(before, u)
      /\ registered(e) = registered(before)
      /\ isTournamentTable(e) /\ e.t.kind = "tournament"
      /\ e.w = before.w /\ e.house = before.house /\ e.pool = before.pool
      /\ e.t.kind = before.t.kind /\ e.t.event = before.t.event /\ e.t.buyIn = before.t.buyIn
      /\ e.t.places = before.t.places /\ e.t.standing = before.t.standing
      /\ \A i \in SeatNos : e.s[i].user = before.s[i].user
  BY SameSeating DEF SameTable, isTournamentTable
<1>2. IsState(e) /\ IsState(before) /\ seated(before) \in SUBSET SeatNos
  BY DEF Sound, HandOK, seated
<1>3. Locks(e)
  BY <1>1 DEF Sound, Locks
<1>4. Kinds(e)
  BY <1>1 DEF Sound, Kinds
<1>5. Seating(e) /\ Placing(e)
  BY <1>1, <1>2 DEF Sound, Event, Seating, Placing
<1>6. stacksOf(e, SeatNos) + totalOf(e, SeatNos) = stacksOf(before, SeatNos) + totalOf(before, SeatNos)
  <2>1. /\ stacksOf(e, SeatNos) \in Nat /\ totalOf(e, SeatNos) \in Nat
        /\ stacksOf(before, SeatNos) \in Nat /\ totalOf(before, SeatNos) \in Nat
        /\ e.gone \in Int
    BY <1>2, ChipSums DEF IsState
  <2> QED
    BY <2>1 DEF chipsIn
<1>7. AtStake(e)
  BY <1>1, <1>6 DEF Sound, Event, AtStake
<1>8. worth(e) = worth(before)
  <2>1. money(e) = money(before)
    BY <1>1 DEF money
  <2> QED
    BY <1>1, <2>1 DEF worth, inPots
<1> QED
  BY <1>3, <1>4, <1>5, <1>7, <1>8 DEF Sound, Event

-----------------------------------------------------------------------------
(* The places of a tournament *)

fewerChips(before, j, i) ==
    \/ before.s[j].stack < before.s[i].stack
    \/ before.s[j].stack = before.s[i].stack /\ j < i
aheadOf(before, B, i) == {j \in B : fewerChips(before, j, i)}
bustedIn(e) == {i \in seated(e) : e.s[i].stack = 0}
aliveIn(e) == seated(e) \ bustedIn(e)
placeIn(before, e, i) == Cardinality(seated(e)) - Cardinality(aheadOf(before, bustedIn(e), i))

LEMMA AheadOfOrder ==
    ASSUME NEW before, IsState(before), NEW B \in SUBSET SeatNos
    PROVE  /\ IsFiniteSet(B) /\ Cardinality(B) \in Nat
           /\ \A i \in B : /\ Cardinality(aheadOf(before, B, i)) \in Nat
                           /\ Cardinality(aheadOf(before, B, i)) < Cardinality(B)
           /\ \A i, j \in B : i # j =>
                Cardinality(aheadOf(before, B, i)) # Cardinality(aheadOf(before, B, j))
<1>1. IsFiniteSet(B) /\ Cardinality(B) \in Nat
  BY SeatsFinite, FS_Subset, FS_CardinalityType
<1>2. \A i \in B : before.s[i].stack \in Nat /\ i \in Nat
  BY RowFacts DEF SeatNos
<1>3. ASSUME NEW i \in B
      PROVE  /\ aheadOf(before, B, i) \in SUBSET B /\ i \notin aheadOf(before, B, i)
             /\ IsFiniteSet(aheadOf(before, B, i)) /\ Cardinality(aheadOf(before, B, i)) \in Nat
             /\ Cardinality(aheadOf(before, B, i)) < Cardinality(B)
  <2>1. aheadOf(before, B, i) \in SUBSET B /\ i \notin aheadOf(before, B, i)
    BY <1>2 DEF aheadOf, fewerChips
  <2>2. /\ IsFiniteSet(aheadOf(before, B, i)) /\ Cardinality(aheadOf(before, B, i)) <= Cardinality(B)
        /\ (Cardinality(aheadOf(before, B, i)) = Cardinality(B) => aheadOf(before, B, i) = B)
    BY <1>1, <2>1, FS_Subset
  <2>3. Cardinality(aheadOf(before, B, i)) \in Nat
    BY <2>2, FS_CardinalityType
  <2> QED
    BY <1>1, <2>1, <2>2, <2>3
<1>4. ASSUME NEW i \in B, NEW j \in B, fewerChips(before, i, j)
      PROVE  Cardinality(aheadOf(before, B, i)) < Cardinality(aheadOf(before, B, j))
  <2>1. aheadOf(before, B, i) \in SUBSET aheadOf(before, B, j) /\ i \in aheadOf(before, B, j)
    BY <1>2, <1>4 DEF aheadOf, fewerChips
  <2>2. /\ Cardinality(aheadOf(before, B, i)) <= Cardinality(aheadOf(before, B, j))
        /\ (Cardinality(aheadOf(before, B, i)) = Cardinality(aheadOf(before, B, j))
                => aheadOf(before, B, i) = aheadOf(before, B, j))
    BY <1>3, <2>1, FS_Subset
  <2> QED
    BY <1>3, <2>1, <2>2
<1>5. ASSUME NEW i \in B, NEW j \in B, i # j
      PROVE  Cardinality(aheadOf(before, B, i)) # Cardinality(aheadOf(before, B, j))
  <2>1. fewerChips(before, i, j) \/ fewerChips(before, j, i)
    BY <1>2, <1>5 DEF fewerChips
  <2> QED
    BY <1>3, <1>4, <2>1
<1> QED
  BY <1>1, <1>3, <1>5

\* Who goes broke in a hand takes the places behind those who are left.
LEMMA BustedPlaces ==
    ASSUME NEW before, IsState(before), NEW e, Sound(e), isTournamentTable(e)
    PROVE  /\ Cardinality(aliveIn(e)) \in Nat /\ IsFiniteSet(aliveIn(e))
           /\ Cardinality(aliveIn(e)) <= Cardinality(seated(e))
           /\ \A i \in bustedIn(e) :
                placeIn(before, e, i) \in (Cardinality(aliveIn(e)) + 1)..Cardinality(seated(e))
           /\ \A i, j \in bustedIn(e) : i # j => placeIn(before, e, i) # placeIn(before, e, j)
<1> DEFINE B == bustedIn(e)
<1>1. /\ IsFiniteSet(seated(e)) /\ seated(e) \in SUBSET SeatNos
  BY SeatsOfPlayers
<1>2. B \in SUBSET seated(e) /\ B \in SUBSET SeatNos
  BY <1>1 DEF bustedIn
<1>3. PICK n \in Nat : n = Cardinality(seated(e))
  BY SeatsOfPlayers
<1>4. PICK b \in Nat : b = Cardinality(B) /\ b <= n
  <2>1. IsFiniteSet(B) /\ Cardinality(B) <= Cardinality(seated(e))
    BY <1>1, <1>2, FS_Subset
  <2> QED
    BY <1>3, <2>1, FS_CardinalityType
<1>5. Cardinality(aliveIn(e)) = n - b /\ IsFiniteSet(aliveIn(e))
  <2>1. seated(e) \cap B = B
    BY <1>2
  <2>2. /\ IsFiniteSet(seated(e) \ B)
        /\ Cardinality(seated(e) \ B) = Cardinality(seated(e)) - Cardinality(seated(e) \cap B)
    BY <1>1, FS_Difference
  <2> HIDE DEF B
  <2> QED
    BY <1>3, <1>4, <2>1, <2>2 DEF aliveIn, B
<1> HIDE DEF B
<1>6. /\ \A i \in B : /\ Cardinality(aheadOf(before, B, i)) \in Nat
                      /\ Cardinality(aheadOf(before, B, i)) < Cardinality(B)
      /\ \A i, j \in B : i # j =>
            Cardinality(aheadOf(before, B, i)) # Cardinality(aheadOf(before, B, j))
  BY <1>2, AheadOfOrder
<1>7. ASSUME NEW i \in B
      PROVE  \E a \in Nat : /\ a = Cardinality(aheadOf(before, B, i)) /\ a < b
                            /\ placeIn(before, e, i) = n - a
  <2>1. PICK a \in Nat : a = Cardinality(aheadOf(before, B, i))
    BY <1>6
  <2> QED
    BY <1>3, <1>4, <1>6, <2>1 DEF placeIn, B
<1>8. ASSUME NEW i \in B PROVE placeIn(before, e, i) \in (n - b + 1)..n
  <2>1. PICK a \in Nat : a < b /\ placeIn(before, e, i) = n - a
    BY <1>7
  <2> QED
    BY <1>4, <2>1
<1>9. ASSUME NEW i \in B, NEW j \in B, i # j PROVE placeIn(before, e, i) # placeIn(before, e, j)
  <2>1. PICK a \in Nat : a = Cardinality(aheadOf(before, B, i)) /\ placeIn(before, e, i) = n - a
    BY <1>7
  <2>2. PICK c \in Nat : c = Cardinality(aheadOf(before, B, j)) /\ placeIn(before, e, j) = n - c
    BY <1>7
  <2>3. a # c
    BY <1>6, <1>9, <2>1, <2>2
  <2> QED
    BY <2>1, <2>2, <2>3
<1> QED
  BY <1>3, <1>4, <1>5, <1>8, <1>9 DEF B

\* A player's standing when the hand is over.
placeNow(before, e, u) ==
    LET mine == seatsOf(e, u)
    IN  IF mine \cap bustedIn(e) # {} THEN placeIn(before, e, Min(mine))
        ELSE IF Cardinality(aliveIn(e)) = 1 /\ mine # {} THEN 1
        ELSE e.t.standing[u]

\* Busted, left in the game, or out of it before.
Busts(before, e, u, n) ==
    \E i \in bustedIn(e) : e.s[i].user = u /\ n = placeIn(before, e, i) /\ seatsOf(e, u) = {i}
Stays(e, u, n) ==
    /\ n = IF Cardinality(aliveIn(e)) = 1 THEN 1 ELSE 0
    /\ \E i \in aliveIn(e) : e.s[i].user = u /\ seatsOf(e, u) = {i}
IsOut(e, u, n) ==
    /\ n = e.t.standing[u] /\ seatsOf(e, u) = {}
    /\ n = Nil \/ n \in (Cardinality(seated(e)) + 1)..Cardinality(registered(e))

LEMMA Standings ==
    ASSUME NEW before, NEW e, Sound(e), isTournamentTable(e), NEW u \in Players
    PROVE  LET n == placeNow(before, e, u)
           IN  Busts(before, e, u, n) \/ Stays(e, u, n) \/ IsOut(e, u, n)
<1> DEFINE mine == seatsOf(e, u)
           n == placeNow(before, e, u)
<1>1. Seating(e) /\ Placing(e)
  BY DEF Sound, Event, isTournamentTable
<1>2. u # NoPlayer
  BY HoldemAssumption
<1>3. \A i : i \in mine <=> i \in seated(e) /\ e.s[i].user = u
  BY <1>2 DEF seatsOf, seated
<1>4. \A i \in mine : mine = {i}
  BY <1>1, <1>3 DEF Seating
<1>5. \A i \in mine : Min({i}) = i
  <2> SUFFICES ASSUME NEW i \in mine PROVE Min({i}) = i
    OBVIOUS
  <2>1. i \in Nat
    BY DEF seatsOf, SeatNos
  <2>2. Min({i}) \in {i}
    BY <2>1, MinOfNaturals
  <2> QED
    BY <2>2
<1>6. \A i \in mine : i \in bustedIn(e) \/ i \in aliveIn(e)
  BY <1>3 DEF aliveIn
<1>7. ASSUME NEW i \in bustedIn(e), i \in mine PROVE Busts(before, e, u, n)
  <2>1. mine \cap bustedIn(e) # {}
    BY <1>7
  <2>2. mine = {i} /\ Min({i}) = i
    BY <1>4, <1>5, <1>7
  <2>3. n = placeIn(before, e, Min(mine))
    BY <2>1 DEF placeNow
  <2>4. n = placeIn(before, e, i)
    BY <2>2, <2>3
  <2>5. e.s[i].user = u
    BY <1>3, <1>7
  <2> HIDE DEF n
  <2> QED
    BY <2>2, <2>4, <2>5 DEF Busts
<1>8. ASSUME NEW i \in aliveIn(e), i \in mine PROVE Stays(e, u, n)
  <2>1. mine = {i} /\ i \notin bustedIn(e)
    BY <1>4, <1>8 DEF aliveIn
  <2>2. mine \cap bustedIn(e) = {}
    BY <2>1
  <2>3. e.t.standing[u] = 0
    BY <1>1, <1>3, <1>8 DEF Seating
  <2>4. n = IF Cardinality(aliveIn(e)) = 1 THEN 1 ELSE 0
    BY <1>8, <2>2, <2>3 DEF placeNow
  <2>5. e.s[i].user = u
    BY <1>3, <1>8
  <2> HIDE DEF n
  <2> QED
    BY <2>1, <2>4, <2>5 DEF Stays
<1>9. ASSUME mine = {} PROVE IsOut(e, u, n)
  <2>1. n = e.t.standing[u]
    BY <1>9 DEF placeNow
  <2>2. e.t.standing[u] # 0
    BY <1>1, <1>9 DEF Seating
  <2>3. e.t.standing[u] \in {Nil, 0} \cup (Cardinality(seated(e)) + 1)..Cardinality(registered(e))
    BY <1>1 DEF Placing
  <2> HIDE DEF n
  <2> QED
    BY <1>9, <2>1, <2>2, <2>3 DEF IsOut
<1> QED
  BY <1>6, <1>7, <1>8, <1>9

\* The standings after a hand: who is out has a place of their own.
standingsAfter(before, e) == [u \in Players |-> placeNow(before, e, u)]

LEMMA StandingsAfter ==
    ASSUME NEW before, IsState(before), NEW e, Sound(e), isTournamentTable(e), aliveIn(e) # {}
    PROVE  LET st == standingsAfter(before, e)
               over == Cardinality(aliveIn(e)) = 1
           IN  /\ st \in [Players -> Int]
               /\ \A u \in Players :
                    /\ st[u] = Nil <=> e.t.standing[u] = Nil
                    /\ over => st[u] = Nil \/ st[u] \in 1..Cardinality(registered(e))
                    /\ ~over => \/ st[u] = Nil
                                \/ st[u] = 0 /\ \E i \in aliveIn(e) : e.s[i].user = u
                                \/ st[u] \in (Cardinality(aliveIn(e)) + 1)..Cardinality(registered(e))
               /\ \A u, v \in Players : u # v /\ st[u] = st[v] => st[u] \in {Nil, 0}
               /\ ~over => \A i \in aliveIn(e) : st[e.s[i].user] = 0
<1> DEFINE st == standingsAfter(before, e)
           over == Cardinality(aliveIn(e)) = 1
<1>1. \A u \in Players : st[u] = placeNow(before, e, u)
  BY DEF standingsAfter
<1>2. st = [u \in Players |-> st[u]]
  BY DEF standingsAfter
<1> HIDE DEF st
<1>3. PICK r \in Nat : r = Cardinality(registered(e))
  BY SeatsOfPlayers
<1>4. PICK n \in Nat : n = Cardinality(seated(e)) /\ n <= r
  BY <1>3, SeatsOfPlayers
<1>5. PICK a \in Nat : a = Cardinality(aliveIn(e)) /\ a <= n /\ a >= 1
  <2>1. Cardinality(aliveIn(e)) \in Nat /\ IsFiniteSet(aliveIn(e))
        /\ Cardinality(aliveIn(e)) <= Cardinality(seated(e))
    BY BustedPlaces
  <2>2. Cardinality(aliveIn(e)) # 0
    BY <2>1, FS_EmptySet
  <2> QED
    BY <1>4, <2>1, <2>2
<1>6. /\ \A i \in bustedIn(e) : placeIn(before, e, i) \in (a + 1)..n
      /\ \A i, j \in bustedIn(e) : i # j => placeIn(before, e, i) # placeIn(before, e, j)
  BY <1>4, <1>5, BustedPlaces
<1>7. ASSUME NEW u \in Players
      PROVE  Busts(before, e, u, st[u]) \/ Stays(e, u, st[u]) \/ IsOut(e, u, st[u])
  BY <1>1, Standings
<1>8. Seating(e) /\ e.t.standing \in [Players -> Int]
  BY DEF Sound, Event, isTournamentTable, HandOK, IsState, TableRows
<1>9. ASSUME NEW i \in seated(e) PROVE e.s[i].user \in Players /\ e.t.standing[e.s[i].user] = 0
  BY <1>8, SeatsOfPlayers DEF Seating
<1>10. bustedIn(e) \in SUBSET seated(e) /\ aliveIn(e) \in SUBSET seated(e)
  BY DEF bustedIn, aliveIn
<1>11. ASSUME NEW u \in Players
       PROVE  /\ Busts(before, e, u, st[u]) => st[u] \in (a + 1)..n /\ e.t.standing[u] = 0
              /\ Stays(e, u, st[u]) => /\ st[u] = IF a = 1 THEN 1 ELSE 0
                                       /\ e.t.standing[u] = 0
                                       /\ \E i \in aliveIn(e) : e.s[i].user = u
              /\ IsOut(e, u, st[u]) => st[u] = e.t.standing[u] /\ (st[u] = Nil \/ st[u] \in (n + 1)..r)
  <2>1. ASSUME Busts(before, e, u, st[u]) PROVE st[u] \in (a + 1)..n /\ e.t.standing[u] = 0
    BY <1>6, <1>9, <1>10, <2>1 DEF Busts
  <2>2. ASSUME Stays(e, u, st[u])
        PROVE  /\ st[u] = IF a = 1 THEN 1 ELSE 0
               /\ e.t.standing[u] = 0
               /\ \E i \in aliveIn(e) : e.s[i].user = u
    BY <1>5, <1>9, <1>10, <2>2 DEF Stays
  <2>3. ASSUME IsOut(e, u, st[u])
        PROVE  st[u] = e.t.standing[u] /\ (st[u] = Nil \/ st[u] \in (n + 1)..r)
    BY <1>3, <1>4, <2>3 DEF IsOut
  <2> QED
    BY <2>1, <2>2, <2>3
<1>12. ASSUME NEW u \in Players
       PROVE  /\ st[u] \in Int
              /\ st[u] = Nil <=> e.t.standing[u] = Nil
              /\ a = 1 => st[u] = Nil \/ st[u] \in 1..r
              /\ a # 1 => \/ st[u] = Nil
                          \/ st[u] = 0 /\ \E i \in aliveIn(e) : e.s[i].user = u
                          \/ st[u] \in (a + 1)..r
  <2>1. CASE Busts(before, e, u, st[u])
    BY <1>4, <1>5, <1>11, <2>1 DEF Nil
  <2>2. CASE Stays(e, u, st[u])
    BY <1>4, <1>5, <1>11, <2>2 DEF Nil
  <2>3. CASE IsOut(e, u, st[u])
    BY <1>4, <1>5, <1>11, <2>3 DEF Nil
  <2> QED
    BY <1>7, <2>1, <2>2, <2>3
<1>13. ASSUME NEW u \in Players, NEW v \in Players, st[u] = st[v], Busts(before, e, u, st[u])
       PROVE  u = v
  <2>1. st[u] \in (a + 1)..n
    BY <1>11, <1>13
  <2>2. ~Stays(e, v, st[v]) /\ ~IsOut(e, v, st[v])
    BY <1>5, <1>11, <1>13, <2>1 DEF Nil
  <2>3. Busts(before, e, v, st[v])
    BY <1>7, <2>2
  <2>4. PICK i \in bustedIn(e) : e.s[i].user = u /\ st[u] = placeIn(before, e, i)
    BY <1>13 DEF Busts
  <2>5. PICK j \in bustedIn(e) : e.s[j].user = v /\ st[v] = placeIn(before, e, j)
    BY <2>3 DEF Busts
  <2> QED
    BY <1>6, <1>13, <2>4, <2>5
<1>14. ASSUME NEW u \in Players, NEW v \in Players, st[u] = st[v], Stays(e, u, st[u]), Stays(e, v, st[v]),
              a = 1
       PROVE  u = v
  <2>1. PICK x : aliveIn(e) = {x}
    BY <1>5, <1>14, BustedPlaces, FS_Singleton
  <2> QED
    BY <1>14, <2>1 DEF Stays
<1>15. ASSUME NEW u \in Players, NEW v \in Players, st[u] = st[v], IsOut(e, u, st[u]), IsOut(e, v, st[v]),
              st[u] # Nil
       PROVE  u = v
  <2>1. e.t.standing[u] = e.t.standing[v] /\ e.t.standing[u] \in (n + 1)..r
    BY <1>11, <1>15
  <2>2. e.t.standing[u] # 0 /\ e.t.standing[u] # Nil
    BY <2>1 DEF Nil
  <2>3. Placing(e)
    BY DEF Sound, Event, isTournamentTable
  <2> QED
    BY <2>1, <2>2, <2>3 DEF Placing
<1>16. ASSUME NEW u \in Players, NEW v \in Players, u # v, st[u] = st[v] PROVE st[u] \in {Nil, 0}
  <2> SUFFICES ASSUME st[u] # Nil, st[u] # 0 PROVE FALSE
    OBVIOUS
  <2>1. ~Busts(before, e, u, st[u]) /\ ~Busts(before, e, v, st[v])
    BY <1>13, <1>16
  <2>2. ASSUME NEW w \in {u, v}, Stays(e, w, st[w]) PROVE a = 1 /\ st[w] = 1
    BY <1>11, <1>16, <2>2
  <2>3. ASSUME NEW w \in {u, v}, IsOut(e, w, st[w]) PROVE st[w] >= 2
    <3>1. st[w] \in (n + 1)..r
      BY <1>11, <1>16, <2>3
    <3> QED
      BY <1>5, <3>1
  <2>4. CASE Stays(e, u, st[u])
    <3>1. Stays(e, v, st[v])
      BY <1>7, <1>16, <2>1, <2>2, <2>3, <2>4
    <3> QED
      BY <1>14, <1>16, <2>2, <2>4, <3>1
  <2>5. CASE IsOut(e, u, st[u])
    <3>1. IsOut(e, v, st[v])
      BY <1>7, <1>16, <2>1, <2>2, <2>3, <2>5
    <3> QED
      BY <1>15, <1>16, <2>5, <3>1
  <2> QED
    BY <1>7, <2>1, <2>4, <2>5
<1>17. ASSUME NEW i \in aliveIn(e), a # 1 PROVE st[e.s[i].user] = 0
  <2> DEFINE u == e.s[i].user
  <2>1. u \in Players /\ i \in seated(e) /\ i \notin bustedIn(e)
    BY <1>9, <1>10 DEF aliveIn
  <2>2. i \in seatsOf(e, u)
    BY <2>1 DEF seatsOf, seated
  <2>3. ~IsOut(e, u, st[u])
    BY <2>2 DEF IsOut
  <2>4. ~Busts(before, e, u, st[u])
    BY <2>1, <2>2 DEF Busts
  <2>5. Stays(e, u, st[u])
    BY <1>7, <2>1, <2>3, <2>4
  <2> HIDE DEF u
  <2>6. st[u] = 0
    BY <1>11, <1>17, <2>1, <2>5
  <2> QED
    BY <2>6 DEF u
<1>18. st \in [Players -> Int]
  BY <1>2, <1>12
<1> QED
  BY <1>3, <1>5, <1>12, <1>16, <1>17, <1>18 DEF st

-----------------------------------------------------------------------------
(* The prizes of a tournament *)

LEMMA PartOfTotal ==
    ASSUME NEW total \in Nat, NEW c \in Nat
    PROVE  \E q \in Nat : q = (total * c) \div 10000 /\ q * 10000 <= total * c
<1>1. PICK x \in Nat : x = total * c
  <2>1. \A p, q \in Nat : p * q \in Nat
    OBVIOUS
  <2> QED
    BY <2>1
<1>2. PICK q \in Nat, r \in Nat : q = x \div 10000 /\ x = q * 10000 + r
  BY Division
<1>3. q * 10000 <= x
  BY <1>2
<1> QED
  BY <1>1, <1>2, <1>3

\* All of the pool is paid out, and no place gets less than nothing.
LEMMA PayoutsAddUp ==
    ASSUME NEW total \in Nat, NEW places \in 1..3
    PROVE  LET paid == distributeTournamentPayouts(total, places)
           IN  /\ DOMAIN paid = 1..places
               /\ \A p \in 1..places : paid[p] \in Nat
               /\ SumFunctionOnSet(paid, 1..places) = total
<1> DEFINE ratio == CASE places = 1 -> <<10000>>
                      [] places = 2 -> <<6500, 3500>>
                      [] places = 3 -> <<5000, 3000, 2000>>
           part(p) == (total * ratio[p]) \div 10000
           lower == 1..(places - 1)
           parts == [q \in lower |-> part(q)]
           rest == SumFunctionOnSet(parts, lower)
           paid == [p \in 1..places |-> IF p < places THEN part(p) ELSE total - rest]
<1>1. distributeTournamentPayouts(total, places) = paid
  BY DEF distributeTournamentPayouts
<1>2. IsFiniteSet(1..places) /\ IsFiniteSet(lower)
  BY FS_Interval
<1>3. /\ places = 2 => ratio[1] = 6500
      /\ places = 3 => ratio[1] = 5000 /\ ratio[2] = 3000
  OBVIOUS
<1>4. \A q \in lower : parts[q] = (total * ratio[q]) \div 10000
  OBVIOUS
<1> HIDE DEF ratio
<1>5. \A p \in lower : p < places /\ p \in 1..places /\ paid[p] = parts[p]
  <2>1. \A p \in lower : p < places /\ p \in 1..places
    OBVIOUS
  <2>2. \A p \in 1..places : p < places => paid[p] = part(p)
    OBVIOUS
  <2>3. \A p \in lower : parts[p] = part(p)
    OBVIOUS
  <2> HIDE DEF paid, parts, part, lower
  <2> QED
    BY <2>1, <2>2, <2>3
<1>6. /\ \A q \in lower : parts[q] \in Nat
      /\ rest \in Nat /\ rest <= total
  <2>1. CASE places = 1
    <3>1. \A q : q \notin lower
      BY <2>1
    <3>2. lower = {}
      BY <3>1
    <3> QED
      BY <3>1, <3>2, SumOfNone
  <2>2. CASE places = 2
    <3>1. PICK q \in Nat : q = (total * 6500) \div 10000 /\ q * 10000 <= total * 6500
      BY PartOfTotal
    <3>2. \A x : x \in lower <=> x = 1
      BY <2>2
    <3>3. lower = {} \cup {1}
      BY <3>2
    <3>4. parts[1] = q
      BY <1>3, <1>4, <2>2, <3>1, <3>2
    <3>5. q <= total
      BY <3>1
    <3> HIDE DEF parts, lower
    <3>6. SumFunctionOnSet(parts, {} \cup {1}) = parts[1] + SumFunctionOnSet(parts, {})
      <4>1. \A y \in {} \cup {1} : parts[y] \in Int
        BY <3>4
      <4>2. IsFiniteSet({}) /\ 1 \notin {}
        BY FS_EmptySet
      <4> QED
        BY <4>1, <4>2, SumWith
    <3>7. SumFunctionOnSet(parts, {}) = 0
      BY SumOfNone
    <3> QED
      BY <3>2, <3>3, <3>4, <3>5, <3>6, <3>7
  <2>3. CASE places = 3
    <3>1. PICK q \in Nat : q = (total * 5000) \div 10000 /\ q * 10000 <= total * 5000
      BY PartOfTotal
    <3>2. PICK p \in Nat : p = (total * 3000) \div 10000 /\ p * 10000 <= total * 3000
      BY PartOfTotal
    <3>3. \A x : x \in lower <=> x = 1 \/ x = 2
      BY <2>3
    <3>4. lower = {1} \cup {2}
      BY <3>3
    <3>5. parts[1] = q /\ parts[2] = p
      BY <1>3, <1>4, <2>3, <3>1, <3>2, <3>3
    <3>6. q + p <= total
      BY <3>1, <3>2
    <3> HIDE DEF parts, lower
    <3>7. SumFunctionOnSet(parts, {} \cup {1}) = parts[1] + SumFunctionOnSet(parts, {})
      <4>1. \A y \in {} \cup {1} : parts[y] \in Int
        BY <3>5
      <4>2. IsFiniteSet({}) /\ 1 \notin {}
        BY FS_EmptySet
      <4> QED
        BY <4>1, <4>2, SumWith
    <3>8. SumFunctionOnSet(parts, {1} \cup {2}) = parts[2] + SumFunctionOnSet(parts, {1})
      <4>1. \A y \in {1} \cup {2} : parts[y] \in Int
        BY <3>5
      <4>2. IsFiniteSet({1}) /\ 2 \notin {1}
        <5>1. IsFiniteSet({1})
          BY FS_Singleton, Zenon
        <5> QED
          BY <5>1
      <4> QED
        BY <4>1, <4>2, SumWith
    <3>9. SumFunctionOnSet(parts, {}) = 0 /\ {} \cup {1} = {1}
      BY SumOfNone
    <3>10. SumFunctionOnSet(parts, lower) = p + SumFunctionOnSet(parts, {1})
      BY <3>4, <3>5, <3>8, Zenon
    <3>11. SumFunctionOnSet(parts, {1}) = q + SumFunctionOnSet(parts, {})
      BY <3>5, <3>7, <3>9, Zenon
    <3> QED
      BY <3>3, <3>5, <3>6, <3>9, <3>10, <3>11
  <2> QED
    BY <2>1, <2>2, <2>3
<1>7. paid[places] = total - rest /\ places \in 1..places /\ places \in Int
  <2>1. ~(places < places) /\ places \in 1..places /\ places \in Int
    OBVIOUS
  <2> HIDE DEF rest, part
  <2> QED
    BY <2>1
<1>8. \A p \in 1..places : paid[p] \in Nat
  <2>1. \A p \in 1..places : p \in lower \/ p = places
    OBVIOUS
  <2> HIDE DEF paid, lower, parts, rest
  <2> QED
    BY <1>5, <1>6, <1>7, <2>1
<1>9. SumFunctionOnSet(paid, 1..places) = paid[places] + SumFunctionOnSet(paid, (1..places) \ {places})
  <2>1. \A p \in 1..places : paid[p] \in Int
    BY <1>8
  <2> HIDE DEF paid
  <2> QED
    BY <1>2, <1>7, <2>1, SumWithout
<1>10. (1..places) \ {places} = lower
  <2>1. \A x : x \in (1..places) \ {places} <=> x \in lower
    OBVIOUS
  <2> HIDE DEF lower
  <2> QED
    BY <2>1
<1>11. SumFunctionOnSet(paid, lower) = SumFunctionOnSet(parts, lower)
  <2> HIDE DEF paid, parts, lower
  <2> QED
    BY <1>2, <1>5, SumOfEqual
<1>12. DOMAIN paid = 1..places
  OBVIOUS
<1> HIDE DEF paid, rest, lower, parts
<1>13. SumFunctionOnSet(paid, 1..places) = paid[places] + SumFunctionOnSet(paid, lower)
  BY <1>9, <1>10, Zenon
<1>14. SumFunctionOnSet(paid, 1..places) = total
  BY <1>6, <1>7, <1>11, <1>13 DEF rest
<1> QED
  BY <1>1, <1>8, <1>12, <1>14

\* Each of the places 1..n is taken by one of the n players.
LEMMA PlacesAreTaken ==
    ASSUME NEW S, IsFiniteSet(S), NEW st, \A u \in S : st[u] \in 1..Cardinality(S),
           \A u, v \in S : u # v => st[u] # st[v]
    PROVE  \A p \in 1..Cardinality(S) : \E u \in S : st[u] = p
<1>1. PICK n \in Nat : n = Cardinality(S)
  BY FS_CardinalityType
<1> DEFINE f == [u \in S |-> st[u]]
<1>2. f \in Injection(S, 1..n)
  BY <1>1 DEF Injection, IsInjective
<1>3. IsFiniteSet(1..n) /\ Cardinality(1..n) = n
  <2>1. IsFiniteSet(1..n) /\ Cardinality(1..n) = IF 1 > n THEN 0 ELSE n - 1 + 1
    BY FS_Interval
  <2> QED
    BY <2>1
<1>4. f \in Surjection(S, 1..n)
  <2> HIDE DEF f
  <2> QED
    BY <1>1, <1>2, <1>3, FS_Injection
<1>5. \A p \in 1..n : \E u \in S : f[u] = p
  BY <1>4 DEF Surjection
<1> QED
  BY <1>1, <1>5

\* The players S of R hold the places st 1 to |S|, one each; and prize pays the first k places.
TakePlaces(R, S, st) ==
    /\ \A u \in S : st[u] \in 1..Cardinality(S)
    /\ \A u \in R \ S : st[u] = Nil
    /\ \A u, v \in S : u # v => st[u] # st[v]

PayPlaces(R, st, k, paid, prize) ==
    /\ \A p \in 1..k : paid[p] \in Nat
    /\ \A u \in R : prize[u] = IF st[u] \in 1..k THEN paid[st[u]] ELSE 0

LEMMA PrizesAddUp ==
    ASSUME NEW R, IsFiniteSet(R), NEW S \in SUBSET R, NEW st, TakePlaces(R, S, st),
           NEW k \in Nat, k <= Cardinality(S), NEW paid, NEW prize, PayPlaces(R, st, k, paid, prize)
    PROVE  /\ SumFunctionOnSet(prize, R) = SumFunctionOnSet(paid, 1..k)
           /\ \A u \in R : prize[u] \in Nat
<1> DEFINE W == {u \in R : st[u] \in 1..k}
<1>0. /\ \A u \in S : st[u] \in 1..Cardinality(S)
      /\ \A u \in R \ S : st[u] = Nil
      /\ \A u, v \in S : u # v => st[u] # st[v]
      /\ \A p \in 1..k : paid[p] \in Nat
      /\ \A u \in R : prize[u] = IF st[u] \in 1..k THEN paid[st[u]] ELSE 0
  BY DEF TakePlaces, PayPlaces
<1>1. \A u \in R : prize[u] \in Nat
  BY <1>0
<1>2. W \in SUBSET R /\ IsFiniteSet(W) /\ W \in SUBSET S
  <2>1. W \in SUBSET R /\ IsFiniteSet(W)
    BY FS_Subset
  <2>2. \A u \in R \ S : st[u] \notin 1..k
    BY <1>0 DEF Nil
  <2> QED
    BY <2>1, <2>2
<1>3. \A u \in R \ W : prize[u] = 0
  BY <1>0
<1>4. \A u \in W : prize[u] = paid[st[u]]
  BY <1>0
<1>5. Names(st, W, 1..k)
  <2>1. \A u \in W : st[u] \in 1..k
    OBVIOUS
  <2>2. \A u, v \in W : st[u] = st[v] => u = v
    BY <1>0, <1>2
  <2>3. ASSUME NEW p \in 1..k PROVE \E u \in W : p = st[u]
    <3>1. Cardinality(S) \in Nat /\ IsFiniteSet(S)
      BY FS_Subset, FS_CardinalityType
    <3>2. p \in 1..Cardinality(S)
      BY <3>1
    <3>3. PICK u \in S : st[u] = p
      BY <1>0, <3>1, <3>2, PlacesAreTaken
    <3> QED
      BY <3>3
  <2> HIDE DEF W
  <2> QED
    BY <2>1, <2>2, <2>3 DEF Names
<1> HIDE DEF W
<1>6. SumFunctionOnSet(prize, R) = SumFunctionOnSet(prize, W)
  <2>1. \A u \in R : prize[u] \in Int
    BY <1>1
  <2> QED
    BY <1>2, <1>3, <2>1, SumOfPart
<1>7. \A u \in W : prize[u] = paid[st[u]] /\ prize[u] \in Int
  BY <1>1, <1>2, <1>4
<1>8. SumFunctionOnSet(prize, W) = SumFunctionOnSet(paid, 1..k)
  BY <1>2, <1>5, <1>7, SumRenamed
<1> QED
  BY <1>1, <1>6, <1>8

-----------------------------------------------------------------------------
(* Seats of a tournament that empty *)

LEMMA EmptiedEvent ==
    ASSUME NEW e, Sound(e), isTournamentTable(e), e.t.status = "waiting", NEW S \in SUBSET SeatNos,
           NEW r \in TableRows, r.kind = "tournament", r.status = "waiting", r.currentBet = 0,
           NEW w \in [Players -> Purses], \A u \in Players : w[u].locked = 0, NEW p \in Nat,
           NEW f, Made(f, r, emptied(e, S), w, e.house, p, e.gone)
    PROVE  /\ HandOK(f) /\ IsState(f) /\ Locks(f) /\ Kinds(f) /\ Turn(f) /\ isTournamentTable(f)
           /\ \A i \in SeatNos : f.s[i] = IF i \in S THEN noSeat ELSE e.s[i]
           /\ seated(f) = seated(e) \ S
           /\ \A i \in SeatNos : e.s[i].total = 0 /\ f.s[i].total = 0
<1>1. IsState(e) /\ HandRows(e) /\ Kinds(e) /\ e.t.kind = "tournament"
  BY DEF Sound, HandOK, isTournamentTable
<1>2. emptied(e, S) \in [SeatNos -> SeatRows]
      /\ \A i \in SeatNos : emptied(e, S)[i] = IF i \in S THEN noSeat ELSE e.s[i]
  BY <1>1, EmptiedRows
<1>3. /\ f.t = r /\ f.w = w /\ f.house = e.house /\ f.pool = p /\ f.gone = e.gone /\ Whole(f)
      /\ f.s = emptied(e, S)
  BY DEF Made
<1>4. IsState(f)
  BY <1>1, <1>2, <1>3, WholeState
<1>5. \A i \in SeatNos : /\ i \in S => f.s[i] = noSeat
                         /\ i \notin S => f.s[i] = e.s[i]
  BY <1>2, <1>3
<1>6. ASSUME NEW i \in SeatNos
      PROVE  /\ f.s[i].user = NoPlayer => f.s[i].stack = 0
             /\ f.s[i].status = "waiting" /\ f.s[i].total = 0 /\ f.s[i].committed = 0
             /\ e.s[i].total = 0
             /\ (f.s[i].user = NoPlayer \/ f.s[i].user = e.s[i].user)
             /\ (f.s[i].user # NoPlayer <=> e.s[i].user # NoPlayer /\ i \notin S)
  BY <1>1, <1>5, NoSeat DEF HandRows
<1>7. HandRows(f)
  BY <1>3, <1>6 DEF HandRows
<1>8. BetOn(f, 0)
  <2>1. \A i \in SeatNos : /\ f.s[i].total <= 0 + f.s[i].committed
                           /\ f.s[i].status = "active" => f.s[i].total = 0 + f.s[i].committed
    BY <1>6
  <2>2. Nobody(f)
    BY <1>3, <1>6 DEF Nobody
  <2> QED
    BY <2>1, <2>2 DEF BetOn
<1>9. HandOK(f)
  BY <1>4, <1>7, <1>8 DEF HandOK, Betting
<1>10. isTournamentTable(f)
  BY <1>3 DEF isTournamentTable
<1>11. Locks(f)
  BY <1>3, <1>10 DEF Locks
<1>12. Kinds(f)
  <2>1. \A i \in SeatNos : f.s[i].user # Bot
    BY <1>1, <1>6, HoldemAssumption DEF Kinds, bots, seatsOf
  <2> QED
    BY <1>1, <1>3, <2>1 DEF Kinds, bots, seatsOf
<1>13. Turn(f)
  BY <1>3 DEF Turn
<1>14. \A i : i \in seated(f) <=> i \in seated(e) \ S
  BY <1>6 DEF seated
<1>15. \A i \in SeatNos : f.s[i] = IF i \in S THEN noSeat ELSE e.s[i]
  BY <1>5
<1> QED
  BY <1>4, <1>6, <1>9, <1>10, <1>11, <1>12, <1>13, <1>14, <1>15

LEMMA SameStacks ==
    ASSUME NEW e, NEW f, \A i \in SeatNos : f.s[i].stack = e.s[i].stack
    PROVE  stacksOf(f, SeatNos) = stacksOf(e, SeatNos)
<1>1. [i \in SeatNos |-> f.s[i].stack] = [i \in SeatNos |-> e.s[i].stack]
  OBVIOUS
<1> QED
  BY <1>1 DEF stacksOf

LEMMA NoTotals ==
    ASSUME NEW e, \A i \in SeatNos : e.s[i].total = 0
    PROVE  totalOf(e, SeatNos) = 0
<1> DEFINE d == [i \in SeatNos |-> e.s[i].total]
<1>1. \A i \in SeatNos : d[i] = 0
  OBVIOUS
<1>2. totalOf(e, SeatNos) = SumFunctionOnSet(d, SeatNos)
  BY DEF totalOf
<1> HIDE DEF d
<1> QED
  BY <1>1, <1>2, SeatsFinite, SumOfZeros

-----------------------------------------------------------------------------
(* A tournament after a hand *)

placedRow(before, e) == [e.t EXCEPT !.standing = standingsAfter(before, e)]
goesOn(before, e) == [empties(e, bustedIn(e)) EXCEPT !.t = placedRow(before, e)]
payouts(e) == distributeTournamentPayouts(e.t.buyIn * Cardinality(registered(e)), e.t.places)
prizes(before, e) ==
    [u \in Players |-> IF placeNow(before, e, u) \in DOMAIN payouts(e)
                       THEN payouts(e)[placeNow(before, e, u)] ELSE 0]
pursesAfter(before, e) ==
    [u \in Players |-> [e.w[u] EXCEPT !.free = e.w[u].free + prizes(before, e)[u]]]
ended(before, e) ==
    [empties(e, SeatNos) EXCEPT
        !.t = [placedRow(before, e) EXCEPT !.event = "completed"],
        !.w = pursesAfter(before, e),
        !.pool = e.pool - SumFunctionOnSet(prizes(before, e), Players)]

LEMMA AfterHand ==
    ASSUME NEW before, NEW e, NEW f \in settleTournamentAfterHand(before, e)
    PROVE  \/ f = e
           \/ bustedIn(e) # {} /\ aliveIn(e) # {}
              /\ \/ Cardinality(aliveIn(e)) # 1 /\ f = goesOn(before, e)
                 \/ Cardinality(aliveIn(e)) = 1 /\ f = clearTableAfterCashout(ended(before, e))
<1>1. bustedIn(e) = {i \in seated(e) : e.s[i].stack = 0} /\ aliveIn(e) = seated(e) \ bustedIn(e)
  BY DEF bustedIn, aliveIn
<1>2. settleTournamentAfterHand(before, e)
        = IF bustedIn(e) = {} THEN {e}
          ELSE IF aliveIn(e) = {} THEN {}
          ELSE IF Cardinality(aliveIn(e)) # 1 THEN {goesOn(before, e)}
          ELSE {clearTableAfterCashout(ended(before, e))}
  BY <1>1, Zenon DEF settleTournamentAfterHand, goesOn, ended, placedRow, standingsAfter, pursesAfter,
                     prizes, payouts, placeNow, placeIn, aheadOf, fewerChips, bustedIn, aliveIn
<1> QED
  BY <1>2

LEMMA SameRegistered ==
    ASSUME NEW e, NEW f, \A u \in Players : f.t.standing[u] = Nil <=> e.t.standing[u] = Nil
    PROVE  registered(f) = registered(e)
  BY DEF registered

LEMMA GoesOn ==
    ASSUME NEW before, IsState(before), NEW e, Sound(e), isTournamentTable(e), e.t.status = "waiting",
           e.t.event # "registering", bustedIn(e) # {}, aliveIn(e) # {}, Cardinality(aliveIn(e)) # 1
    PROVE  Sound(goesOn(before, e))
<1> DEFINE st == standingsAfter(before, e)
           r == placedRow(before, e)
           m == empties(e, bustedIn(e))
           f == goesOn(before, e)
<1>1. /\ IsState(e) /\ Whole(e) /\ HandRows(e) /\ e.t \in TableRows /\ e.t.kind = "tournament"
      /\ e.w \in [Players -> Purses] /\ e.pool \in Nat
      /\ Seating(e) /\ AtStake(e) /\ Locks(e)
  BY WholeState DEF Sound, Event, HandOK, isTournamentTable
<1>2. /\ st \in [Players -> Int]
      /\ \A u \in Players :
            /\ st[u] = Nil <=> e.t.standing[u] = Nil
            /\ \/ st[u] = Nil
               \/ st[u] = 0 /\ \E i \in aliveIn(e) : e.s[i].user = u
               \/ st[u] \in (Cardinality(aliveIn(e)) + 1)..Cardinality(registered(e))
      /\ \A u, v \in Players : u # v /\ st[u] = st[v] => st[u] \in {Nil, 0}
      /\ \A i \in aliveIn(e) : st[e.s[i].user] = 0
  BY StandingsAfter
<1>3. r = [e.t EXCEPT !.standing = st]
  BY DEF placedRow
<1> HIDE DEF st, r
<1>4. /\ r \in TableRows /\ r.standing = st /\ r.kind = e.t.kind /\ r.status = e.t.status
      /\ r.currentBet = e.t.currentBet /\ r.event = e.t.event /\ r.buyIn = e.t.buyIn
      /\ r.places = e.t.places
  <2> DEFINE x == e.t
  <2>1. x \in TableRows /\ r = [x EXCEPT !.standing = st]
    BY <1>1, <1>3
  <2> HIDE DEF x
  <2>2. /\ r \in TableRows /\ r.standing = st /\ r.kind = x.kind /\ r.status = x.status
        /\ r.currentBet = x.currentBet /\ r.event = x.event /\ r.buyIn = x.buyIn
        /\ r.places = x.places
    BY <1>2, <2>1 DEF TableRows
  <2> QED
    BY <2>2 DEF x
<1>5. Made(f, r, emptied(e, bustedIn(e)), e.w, e.house, e.pool, e.gone)
  <2>1. Made(m, e.t, emptied(e, bustedIn(e)), e.w, e.house, e.pool, e.gone)
    BY <1>1, PartsMade DEF empties, emptied
  <2>2. f = [m EXCEPT !.t = r]
    BY DEF goesOn, r
  <2> HIDE DEF m, f
  <2>3. /\ Whole(m) /\ m.s = emptied(e, bustedIn(e)) /\ m.w = e.w /\ m.house = e.house
        /\ m.pool = e.pool /\ m.gone = e.gone
    BY <2>1 DEF Made
  <2>4. Made(f, r, m.s, m.w, m.house, m.pool, m.gone)
    BY <2>2, <2>3, PartsMade, Zenon
  <2> QED
    BY <2>3, <2>4, Zenon
<1> HIDE DEF f
<1>6. bustedIn(e) \in SUBSET SeatNos /\ aliveIn(e) = seated(e) \ bustedIn(e)
  BY DEF bustedIn, seated, aliveIn
<1>7. r.kind = "tournament" /\ r.status = "waiting" /\ r.currentBet = 0
  BY <1>1, <1>4 DEF HandRows
<1>8. \A u \in Players : e.w[u].locked = 0
  BY <1>1 DEF Locks, isTournamentTable
<1>9. /\ HandOK(f) /\ IsState(f) /\ Locks(f) /\ Kinds(f) /\ Turn(f) /\ isTournamentTable(f)
      /\ \A i \in SeatNos : f.s[i] = IF i \in bustedIn(e) THEN noSeat ELSE e.s[i]
      /\ seated(f) = aliveIn(e)
      /\ \A i \in SeatNos : e.s[i].total = 0 /\ f.s[i].total = 0
  BY <1>1, <1>4, <1>5, <1>6, <1>7, <1>8, EmptiedEvent
<1>10. /\ f.t = r /\ f.w = e.w /\ f.house = e.house /\ f.pool = e.pool /\ f.gone = e.gone
  BY <1>5 DEF Made
<1>11. registered(f) = registered(e)
  <2>1. \A u \in Players : f.t.standing[u] = Nil <=> e.t.standing[u] = Nil
    BY <1>2, <1>4, <1>10
  <2> QED
    BY <2>1, SameRegistered
<1>12. \A i \in aliveIn(e) : f.s[i] = e.s[i] /\ i \in SeatNos /\ i \in seated(e)
  BY <1>9 DEF aliveIn, seated
<1>13. Seating(f)
  <2>1. \A i \in seated(f) : f.t.standing[f.s[i].user] = 0
    BY <1>2, <1>4, <1>9, <1>10, <1>12
  <2>2. \A i, j \in seated(f) : f.s[i].user = f.s[j].user => i = j
    BY <1>1, <1>9, <1>12 DEF Seating
  <2>3. ASSUME NEW u \in Players, st[u] = 0 PROVE seatsOf(f, u) # {}
    <3>0. Cardinality(aliveIn(e)) \in Nat
      BY BustedPlaces
    <3>1. st[u] # Nil /\ st[u] \notin (Cardinality(aliveIn(e)) + 1)..Cardinality(registered(e))
      BY <2>3, <3>0 DEF Nil
    <3>2. PICK i \in aliveIn(e) : e.s[i].user = u
      BY <1>2, <3>1
    <3> QED
      BY <1>12, <3>2 DEF seatsOf
  <2> QED
    BY <1>4, <1>10, <2>1, <2>2, <2>3 DEF Seating
<1>14. Placing(f)
  BY <1>2, <1>4, <1>9, <1>10, <1>11 DEF Placing
<1>15. stacksOf(f, SeatNos) = stacksOf(e, SeatNos)
  <2>1. \A i \in SeatNos : f.s[i].stack = e.s[i].stack
    BY <1>9, NoSeat DEF bustedIn
  <2> QED
    BY <2>1, SameStacks
<1>16. totalOf(f, SeatNos) = 0 /\ totalOf(e, SeatNos) = 0
  BY <1>9, NoTotals
<1>17. e.t.event # "completed"
  <2>1. seated(e) # {}
    BY DEF bustedIn
  <2> QED
    BY <1>1, <2>1 DEF AtStake
<1>18. AtStake(f)
  BY <1>1, <1>4, <1>10, <1>11, <1>15, <1>16, <1>17 DEF AtStake
<1>19. worth(f) = worth(e)
  <2>1. money(f) = money(e)
    BY <1>10 DEF money
  <2> QED
    BY <1>9, <1>10, <2>1 DEF worth, inPots
<1> QED
  BY <1>9, <1>13, <1>14, <1>18, <1>19 DEF Sound, Event, f

LEMMA Ended ==
    ASSUME NEW before, IsState(before), NEW e, Sound(e), isTournamentTable(e), e.t.status = "waiting",
           bustedIn(e) # {}, aliveIn(e) # {}, Cardinality(aliveIn(e)) = 1
    PROVE  Sound(ended(before, e))
<1> DEFINE st == standingsAfter(before, e)
           r == [placedRow(before, e) EXCEPT !.event = "completed"]
           prize == prizes(before, e)
           w == pursesAfter(before, e)
           p == e.pool - SumFunctionOnSet(prize, Players)
           m == empties(e, SeatNos)
           f == ended(before, e)
<1>1. /\ IsState(e) /\ Whole(e) /\ HandRows(e) /\ e.t \in TableRows /\ e.t.kind = "tournament"
      /\ e.w \in [Players -> Purses] /\ e.pool \in Nat /\ e.t.buyIn \in Nat
      /\ Seating(e) /\ AtStake(e) /\ Locks(e)
  BY WholeState DEF Sound, Event, HandOK, isTournamentTable, TableRows
<1>2. /\ st \in [Players -> Int]
      /\ \A u \in Players :
            /\ st[u] = Nil <=> e.t.standing[u] = Nil
            /\ st[u] = Nil \/ st[u] \in 1..Cardinality(registered(e))
      /\ \A u, v \in Players : u # v /\ st[u] = st[v] => st[u] \in {Nil, 0}
  BY StandingsAfter
<1>3. r = [[e.t EXCEPT !.standing = st] EXCEPT !.event = "completed"]
  BY DEF placedRow
<1>4. /\ \A u \in Players : /\ prize[u] = IF st[u] \in DOMAIN payouts(e) THEN payouts(e)[st[u]] ELSE 0
                            /\ w[u] = [e.w[u] EXCEPT !.free = e.w[u].free + prize[u]]
      /\ w = [u \in Players |-> w[u]]
  <2>1. /\ \A u \in Players : /\ prize[u] = IF placeNow(before, e, u) \in DOMAIN payouts(e)
                                            THEN payouts(e)[placeNow(before, e, u)] ELSE 0
                              /\ st[u] = placeNow(before, e, u)
    BY DEF prizes, standingsAfter
  <2>2. \A u \in Players : w[u] = [e.w[u] EXCEPT !.free = e.w[u].free + prize[u]]
    BY DEF pursesAfter
  <2>3. w = [u \in Players |-> w[u]]
    BY DEF pursesAfter
  <2> HIDE DEF prize, st, w
  <2> QED
    BY <2>1, <2>2, <2>3
<1> HIDE DEF st, r, prize, w
<1>5. /\ r \in TableRows /\ r.standing = st /\ r.kind = e.t.kind /\ r.status = e.t.status
      /\ r.currentBet = e.t.currentBet /\ r.event = "completed"
  <2> DEFINE x == e.t
  <2>1. x \in TableRows /\ r = [[x EXCEPT !.standing = st] EXCEPT !.event = "completed"]
    BY <1>1, <1>3
  <2> HIDE DEF x
  <2>2. /\ r \in TableRows /\ r.standing = st /\ r.kind = x.kind /\ r.status = x.status
        /\ r.currentBet = x.currentBet /\ r.event = "completed"
    BY <1>2, <2>1 DEF TableRows
  <2> QED
    BY <2>2 DEF x
<1>6. PICK n \in Nat : n = Cardinality(registered(e))
  BY SeatsOfPlayers
<1>7. seated(e) # {} /\ e.t.event # "completed"
  <2>1. seated(e) # {}
    BY DEF bustedIn
  <2> QED
    BY <1>1, <2>1 DEF AtStake
<1>8. e.pool = e.t.buyIn * n /\ e.t.places \in 1..3 /\ e.t.places <= n
  <2>1. registered(e) # {}
    BY <1>7, SeatsOfPlayers
  <2> QED
    BY <1>1, <1>6, <1>7, <2>1 DEF AtStake
<1>9. PICK k \in Nat : k = e.t.places /\ k \in 1..3 /\ k <= n
  BY <1>8
<1>10. /\ DOMAIN payouts(e) = 1..k
       /\ \A q \in 1..k : payouts(e)[q] \in Nat
       /\ SumFunctionOnSet(payouts(e), 1..k) = e.pool
  <2>1. payouts(e) = distributeTournamentPayouts(e.pool, k)
    BY <1>6, <1>8, <1>9 DEF payouts
  <2>2. /\ DOMAIN distributeTournamentPayouts(e.pool, k) = 1..k
        /\ \A q \in 1..k : distributeTournamentPayouts(e.pool, k)[q] \in Nat
        /\ SumFunctionOnSet(distributeTournamentPayouts(e.pool, k), 1..k) = e.pool
    BY <1>1, <1>9, PayoutsAddUp
  <2> QED
    BY <2>1, <2>2, Zenon
<1>11. SumFunctionOnSet(prize, Players) = e.pool /\ \A u \in Players : prize[u] \in Nat
  <2> DEFINE S == registered(e)
             paid == payouts(e)
  <2>1. IsFiniteSet(Players) /\ S \in SUBSET Players
    BY HoldemAssumption, SeatsOfPlayers
  <2>2. \A u \in S : st[u] \in 1..Cardinality(S)
    BY <1>2, <2>1 DEF registered
  <2>3. \A u \in Players \ S : st[u] = Nil
    BY <1>2 DEF registered
  <2>4. \A u, v \in S : u # v => st[u] # st[v]
    BY <1>2, <2>1, <2>2 DEF Nil
  <2>5. k <= Cardinality(S)
    BY <1>6, <1>9
  <2>6. \A u \in Players : prize[u] = IF st[u] \in 1..k THEN paid[st[u]] ELSE 0
    BY <1>4, <1>10
  <2>7. \A q \in 1..k : paid[q] \in Nat
    BY <1>10
  <2> HIDE DEF S, paid
  <2>8. /\ SumFunctionOnSet(prize, Players) = SumFunctionOnSet(paid, 1..k)
        /\ \A u \in Players : prize[u] \in Nat
    <3>1. TakePlaces(Players, S, st) /\ PayPlaces(Players, st, k, paid, prize)
      BY <2>2, <2>3, <2>4, <2>6, <2>7 DEF TakePlaces, PayPlaces
    <3> QED
      BY <2>1, <2>5, <3>1, PrizesAddUp
  <2> QED
    BY <1>10, <2>8 DEF paid
<1>12. p = 0
  BY <1>1, <1>11
<1>13. ASSUME NEW u \in Players
       PROVE  \E a \in Nat, g \in Nat :
                /\ e.w[u].free = a /\ e.w[u].locked = 0 /\ g = prize[u]
                /\ w[u].free = a + g /\ w[u].locked = 0 /\ w[u] \in Purses
  <2>1. e.w[u] \in Purses /\ e.w[u].free \in Nat /\ e.w[u].locked = 0
    BY <1>1 DEF IsState, Purses, Locks, isTournamentTable
  <2>2. PICK a \in Nat : a = e.w[u].free
    BY <2>1
  <2>3. PICK g \in Nat : g = prize[u]
    BY <1>11
  <2>4. w[u] = [e.w[u] EXCEPT !.free = a + g]
    BY <1>4, <2>2, <2>3
  <2>5. w[u] \in Purses /\ w[u].free = a + g /\ w[u].locked = 0
    BY <2>1, <2>4 DEF Purses
  <2> QED
    BY <2>1, <2>2, <2>3, <2>5
<1>14. w \in [Players -> Purses] /\ \A u \in Players : w[u].locked = 0
  BY <1>4, <1>13
<1> HIDE DEF p
<1>15. Made(f, r, emptied(e, SeatNos), w, e.house, p, e.gone)
  <2> DEFINE m1 == [m EXCEPT !.t = r]
             m2 == [m1 EXCEPT !.w = w]
  <2>1. Made(m, e.t, emptied(e, SeatNos), e.w, e.house, e.pool, e.gone)
    BY <1>1, PartsMade DEF empties, emptied
  <2>2. f = [m2 EXCEPT !.pool = p]
    BY DEF ended, r, w, p, prize
  <2> HIDE DEF m, f
  <2>3. /\ Whole(m) /\ m.s = emptied(e, SeatNos) /\ m.house = e.house /\ m.gone = e.gone
    BY <2>1 DEF Made
  <2>4. Made(m1, r, m.s, m.w, m.house, m.pool, m.gone)
    BY <2>3, PartsMade
  <2> HIDE DEF m1
  <2>5. Whole(m1) /\ m1.t = r /\ m1.s = m.s /\ m1.house = m.house /\ m1.gone = m.gone
    BY <2>4 DEF Made
  <2>6. Made(m2, m1.t, m1.s, w, m1.house, m1.pool, m1.gone)
    BY <2>5, PartsMade
  <2> HIDE DEF m2
  <2>7. Whole(m2) /\ m2.t = m1.t /\ m2.s = m1.s /\ m2.w = w /\ m2.house = m1.house /\ m2.gone = m1.gone
    BY <2>6 DEF Made
  <2>8. Made(f, m2.t, m2.s, m2.w, m2.house, p, m2.gone)
    BY <2>2, <2>7, PartsMade, Zenon
  <2>9. /\ m2.t = r /\ m2.s = emptied(e, SeatNos) /\ m2.w = w /\ m2.house = e.house
        /\ m2.gone = e.gone
    BY <2>3, <2>5, <2>7
  <2> QED
    BY <2>8, <2>9, Zenon
<1> HIDE DEF f
<1>16. r.kind = "tournament" /\ r.status = "waiting" /\ r.currentBet = 0 /\ p \in Nat
  BY <1>1, <1>5, <1>12 DEF HandRows
<1>17. /\ HandOK(f) /\ IsState(f) /\ Locks(f) /\ Kinds(f) /\ Turn(f) /\ isTournamentTable(f)
       /\ seated(f) = seated(e) \ SeatNos
  <2>1. SeatNos \in SUBSET SeatNos
    OBVIOUS
  <2> QED
    BY <1>1, <1>5, <1>14, <1>15, <1>16, <2>1, EmptiedEvent
<1>18. /\ f.t = r /\ f.w = w /\ f.house = e.house /\ f.pool = p /\ f.gone = e.gone
  BY <1>15 DEF Made
<1>19. seated(f) = {}
  BY <1>17 DEF seated
<1>20. registered(f) = registered(e)
  <2>1. \A u \in Players : f.t.standing[u] = Nil <=> e.t.standing[u] = Nil
    BY <1>2, <1>5, <1>18
  <2> QED
    BY <2>1, SameRegistered
<1>21. Seating(f)
  <2>1. \A u \in Players : st[u] # 0
    BY <1>2 DEF Nil
  <2> QED
    BY <1>5, <1>18, <1>19, <2>1 DEF Seating
<1>22. Placing(f)
  <2>1. Cardinality(seated(f)) = 0
    BY <1>19, FS_EmptySet
  <2>2. \A u \in Players : st[u] \in {Nil, 0} \cup (0 + 1)..Cardinality(registered(f))
    BY <1>2, <1>20
  <2> QED
    BY <1>2, <1>5, <1>18, <2>1, <2>2 DEF Placing
<1>23. AtStake(f)
  BY <1>5, <1>12, <1>18, <1>19 DEF AtStake
<1>24. worth(f) = worth(e)
  <2>1. ASSUME NEW u \in Players
        PROVE  /\ prize[u] \in Int
               /\ f.w[u].free + f.w[u].locked = e.w[u].free + e.w[u].locked + prize[u]
    <3>1. PICK a \in Nat, g \in Nat :
            /\ e.w[u].free = a /\ e.w[u].locked = 0 /\ g = prize[u]
            /\ w[u].free = a + g /\ w[u].locked = 0
      BY <1>13
    <3> QED
      BY <1>18, <3>1
  <2>2. money(f) = money(e) + SumFunctionOnSet(prize, Players) /\ money(e) \in Int
    BY <1>1, <1>17, <2>1, MoneyMoves
  <2>3. e.house \in Int /\ e.gone \in Int
    BY <1>1 DEF IsState
  <2> QED
    BY <1>1, <1>11, <1>12, <1>17, <1>18, <2>2, <2>3 DEF worth, inPots
<1> QED
  BY <1>17, <1>21, <1>22, <1>23, <1>24 DEF Sound, Event, f

\* What a move leaves of a tournament is sound, whether the event goes on or ends.
LEMMA TournamentTransition ==
    ASSUME NEW before, Sound(before), before.t.status = "active", isTournamentTable(before),
           NEW e, Outcome(before, e), NEW f \in persistHoldemTransition(before, e)
    PROVE  Sound(f) /\ Clocked(f)
<1>1. /\ HandOK(e) /\ SameTable(before, e) /\ chipsIn(e) = chipsIn(before) /\ e.gone = before.gone
      /\ isTournamentTable(e) /\ e.t.kind # "cash"
  BY SameSeating DEF Outcome, isTournamentTable, SameTable
<1>2. before.t.event # "registering" /\ IsState(before)
  BY DEF Sound, Event, AtStake, isTournamentTable, HandOK
<1>3. Sound(e)
  BY <1>1, <1>2, OutcomeTurn, EventGoesOn
<1>4. e.t.event # "registering"
  BY <1>1, <1>2 DEF SameTable
<1>5. PICK x : /\ f = [syncHoldemTurnDeadlines(botsLeaveWithLastHuman(x)) EXCEPT !.pots = {}]
               /\ x = e \/ (e.t.status = "waiting" /\ x \in settleTournamentAfterHand(before, e))
  BY <1>1 DEF persistHoldemTransition
<1>6. Sound(x)
  <2>1. CASE x = e
    BY <1>3, <2>1
  <2>2. CASE e.t.status = "waiting" /\ x \in settleTournamentAfterHand(before, e)
    <3>1. \/ x = e
          \/ bustedIn(e) # {} /\ aliveIn(e) # {}
              /\ \/ Cardinality(aliveIn(e)) # 1 /\ x = goesOn(before, e)
                 \/ Cardinality(aliveIn(e)) = 1 /\ x = clearTableAfterCashout(ended(before, e))
      BY <2>2, AfterHand
    <3>2. CASE bustedIn(e) # {} /\ aliveIn(e) # {} /\ Cardinality(aliveIn(e)) # 1
               /\ x = goesOn(before, e)
      BY <1>1, <1>2, <1>3, <1>4, <2>2, <3>2, GoesOn
    <3>3. CASE bustedIn(e) # {} /\ aliveIn(e) # {} /\ Cardinality(aliveIn(e)) = 1
               /\ x = clearTableAfterCashout(ended(before, e))
      <4>1. Sound(ended(before, e))
        BY <1>1, <1>2, <1>3, <2>2, <3>3, Ended
      <4> QED
        BY <3>3, <4>1, ClearedIsSound
    <3> QED
      BY <1>3, <3>1, <3>2, <3>3
  <2> QED
    BY <1>5, <2>1, <2>2
<1> QED
  BY <1>5, <1>6, EndOfTransition

\* Every transaction that moves a hand on.
LEMMA Transition ==
    ASSUME NEW before, Sound(before), before.t.status = "active",
           NEW H, \A e \in H : Outcome(before, e), NEW f \in transition(before, H)
    PROVE  Sound(f) /\ Clocked(f)
<1>1. PICK e \in H : f \in persistHoldemTransition(before, e)
  BY DEF transition
<1>2. Outcome(before, e)
  BY <1>1
<1> QED
  BY <1>1, <1>2, CashTransition, TournamentTransition

\* Whoever may move is at a table where a hand is played.
LEMMA MovesOfHands ==
    ASSUME NEW e, NEW i, NEW move, NEW f \in actOnHoldemSeat(e, i, move)
    PROVE  e.t.status = "active" /\ e.t.pending = i /\ move \in resolveHoldemActionAvailability(e, i)
  BY DEF actOnHoldemSeat, resolveHoldemActionAvailability

LEMMA BotsMove ==
    ASSUME HoldemInv, runAutomatedHoldemBotTurns
    PROVE  HoldemInv'
<1> DEFINE e == loadTableState
<1>1. Sound(e) /\ e.t = table /\ e.t.status = "active"
  BY LoadedState DEF runAutomatedHoldemBotTurns
<1>2. PICK move : /\ table.pending \in bots(e)
                  /\ \E x \in transition(e, actOnHoldemSeat(e, table.pending, move)) : persisted(x)
  BY DEF runAutomatedHoldemBotTurns
<1> HIDE DEF e
<1>3. HandOK(e) /\ table.pending \in SeatNos
  BY <1>1, <1>2 DEF Sound, bots, seatsOf
<1>4. \A y \in actOnHoldemSeat(e, table.pending, move) : Outcome(e, y)
  BY <1>3, MoveOutcome
<1>5. PICK x \in transition(e, actOnHoldemSeat(e, table.pending, move)) : persisted(x)
  BY <1>2
<1>6. Sound(x) /\ Clocked(x)
  BY <1>1, <1>4, Transition
<1> QED
  BY <1>5, <1>6, PersistedIsSound

LEMMA TimesOut ==
    ASSUME HoldemInv, processExpiredHoldemTurnForTable
    PROVE  HoldemInv'
<1> DEFINE e == loadTableState
           move == resolveHoldemTimeoutAction(e, e.t.pending)
           H == actOnHoldemSeat(e, e.t.pending, move)
<1>1. Sound(e) /\ e.t = table
  BY LoadedState
<1>2. PICK x \in transition(e, H) : persisted(x)
  BY DEF processExpiredHoldemTurnForTable, processExpiredHoldemTurn
<1>3. isHoldemTurnExpired(e)
  BY DEF processExpiredHoldemTurnForTable
<1> HIDE DEF e
<1>4. HandOK(e) /\ e.t.pending \in SeatNos
  BY <1>1, <1>3, RowFacts DEF Sound, isHoldemTurnExpired, HandOK
<1>5. PICK y \in H : x \in persistHoldemTransition(e, y)
  BY <1>2 DEF transition
<1>6. e.t.status = "active"
  BY <1>5, MovesOfHands
<1>7. \A z \in H : Outcome(e, z)
  BY <1>4, MoveOutcome
<1>8. Sound(x) /\ Clocked(x)
  BY <1>1, <1>2, <1>6, <1>7, Transition
<1> QED
  BY <1>2, <1>8, PersistedIsSound

LEMMA PlayersMove ==
    ASSUME HoldemInv, NEW u, NEW move, actOnHoldem(u, move)
    PROVE  HoldemInv'
<1> DEFINE e == loadTableState
           played == UNION {actOnHoldemSeat(e, i, move) : i \in seatsOf(e, u)}
           H == {applySeatPresenceTouch(y, u) : y \in played}
<1>1. Sound(e)
  BY LoadedState
<1>2. PICK x \in transition(e, H) : persisted(x)
  BY DEF actOnHoldem
<1> HIDE DEF e
<1>3. HandOK(e)
  BY <1>1 DEF Sound
<1>4. ASSUME NEW z \in H PROVE Outcome(e, z) /\ e.t.status = "active"
  <2>0. PICK i \in seatsOf(e, u) :
          \E y \in actOnHoldemSeat(e, i, move) : z = applySeatPresenceTouch(y, u)
    BY <1>4
  <2>1. PICK y \in actOnHoldemSeat(e, i, move) : z = applySeatPresenceTouch(y, u)
    BY <2>0
  <2>2. i \in SeatNos
    BY <2>0 DEF seatsOf
  <2>3. Outcome(e, y) /\ e.t.status = "active"
    BY <1>3, <2>1, <2>2, MoveOutcome, MovesOfHands
  <2>4. IsState(y)
    BY <2>3 DEF Outcome, HandOK
  <2>5. Looks(y, z) /\ z.t = y.t /\ z.pots = y.pots
    BY <2>1, <2>4, TouchLooks
  <2> QED
    BY <2>3, <2>5, OutcomeLooks
<1> HIDE DEF H
<1>5. PICK y \in H : x \in persistHoldemTransition(e, y)
  BY <1>2 DEF transition
<1>6. Sound(x) /\ Clocked(x)
  BY <1>1, <1>2, <1>4, <1>5, Transition
<1> QED
  BY <1>2, <1>6, PersistedIsSound

-----------------------------------------------------------------------------
(* Presence and time *)

LEMMA ExpiredPresence ==
    ASSUME NEW e, Sound(e), Clocked(e)
    PROVE  LET f == expiredHoldemPresence(e)
           IN  Sound(f) /\ Clocked(f)
<1> DEFINE seen == presenceNoticed(e)
           settled == IF isTournamentTable(e) THEN seen ELSE settlePendingSeatCashOuts(seen)
           left == botsLeaveWithLastHuman(settled)
<1>1. expiredHoldemPresence(e) = e \/ expiredHoldemPresence(e) = syncHoldemTurnDeadlines(left)
  BY DEF expiredHoldemPresence
<1>2. Sound(seen) /\ (isTournamentTable(seen) <=> isTournamentTable(e))
  <2>1. Looks(e, seen)
    BY NoticedLooks DEF Sound, HandOK
  <2> QED
    BY <2>1, LooksSound DEF Looks, isTournamentTable
<1> HIDE DEF seen
<1>3. Sound(settled)
  BY <1>2, PendingCashOuts
<1> HIDE DEF settled
<1>4. Sound(left)
  BY <1>3, BotsLeave
<1> HIDE DEF left
<1>5. Sound(syncHoldemTurnDeadlines(left)) /\ Clocked(syncHoldemTurnDeadlines(left))
  BY <1>4, SynchedIsSound
<1> QED
  BY <1>1, <1>5

LEMMA PresenceExpires ==
    ASSUME HoldemInv, processExpiredHoldemPresenceForTable
    PROVE  HoldemInv'
<1> DEFINE f == expiredHoldemPresence(loadTableState)
<1>1. Sound(f) /\ Clocked(f)
  BY LoadedState, ExpiredPresence
<1>2. persisted(f)
  BY DEF processExpiredHoldemPresenceForTable
<1> HIDE DEF f
<1> QED
  BY <1>1, <1>2, PersistedIsSound

LEMMA Touches ==
    ASSUME HoldemInv, NEW u, touchHoldemSeatPresence(u)
    PROVE  HoldemInv'
<1> DEFINE e == loadTableState
           g == applySeatPresenceTouch(e, u)
           f == syncHoldemTurnDeadlines(g)
<1>1. Sound(e)
  BY LoadedState
<1>2. persisted(f)
  BY DEF touchHoldemSeatPresence
<1> HIDE DEF e
<1>3. Sound(g)
  <2>1. Looks(e, g)
    BY <1>1, TouchLooks DEF Sound, HandOK
  <2> QED
    BY <1>1, <2>1, LooksSound
<1> HIDE DEF g
<1>4. Sound(f) /\ Clocked(f)
  BY <1>3, SynchedIsSound
<1> HIDE DEF f
<1> QED
  BY <1>2, <1>4, PersistedIsSound

LEMMA SitsOutOrIn ==
    ASSUME HoldemInv, NEW u, NEW out, setHoldemSeatMode(u, out)
    PROVE  HoldemInv'
<1> DEFINE e == loadTableState
           back == applySeatPresenceTouch(e, u)
           sat(i) == IF out THEN takes(e, i, sitsOut(e.s[i]))
                     ELSE takes(back, i, sitsIn(back.s[i]))
<1>1. Sound(e)
  BY LoadedState
<1>2. PICK i \in seatsOf(e, u) : persisted(syncHoldemTurnDeadlines(sat(i)))
  BY Zenon DEF setHoldemSeatMode, sitsOut, sitsIn
<1> HIDE DEF e
<1>3. i \in SeatNos
  BY <1>2 DEF seatsOf
<1>4. Sound(back)
  <2>1. Looks(e, back)
    BY <1>1, TouchLooks DEF Sound, HandOK
  <2> QED
    BY <1>1, <2>1, LooksSound
<1> HIDE DEF back
<1>5. Sound(sat(i))
  <2>1. CASE out
    <3>1. Looks(e, takes(e, i, sitsOut(e.s[i])))
      BY <1>1, <1>3, ModeLooks DEF Sound, HandOK
    <3> QED
      BY <1>1, <2>1, <3>1, LooksSound
  <2>2. CASE ~out
    <3>1. Looks(back, takes(back, i, sitsIn(back.s[i])))
      BY <1>3, <1>4, ModeLooks DEF Sound, HandOK
    <3> QED
      BY <1>4, <2>2, <3>1, LooksSound
  <2> QED
    BY <2>1, <2>2
<1> DEFINE g == sat(i)
           f == syncHoldemTurnDeadlines(g)
<1>6. Sound(g) /\ persisted(f)
  BY <1>2, <1>5
<1> HIDE DEF g
<1>7. Sound(f) /\ Clocked(f)
  BY <1>6, SynchedIsSound
<1> HIDE DEF f
<1> QED
  BY <1>6, <1>7, PersistedIsSound

\* Time passes for a seat.
LEMMA TimePasses ==
    ASSUME HoldemInv, NEW i \in SeatNos,
           turnTimeRunsOut(i) \/ graceRunsOut(i) \/ leaseRunsOut(i)
    PROVE  HoldemInv'
<1> DEFINE e == loadTableState
<1>1. /\ Sound(e) /\ Clocked(e) /\ e.t = table /\ e.s = seats /\ e.w = purse
      /\ e.house = bankroll /\ e.pool = prizePool /\ e.gone = vanished
  BY LoadedState
<1> HIDE DEF e
<1>2. IsState(e) /\ e.s \in [SeatNos -> SeatRows]
  BY <1>1 DEF Sound, HandOK, IsState
<1>3. PICK x : /\ passes(i, x)
               /\ SameRow(seats[i], x) /\ (seats[i].clock # "none" => x.clock # "none")
  <2>1. seats[i] \in SeatRows
    BY <1>1, <1>2
  <2>2. CASE turnTimeRunsOut(i)
    <3> DEFINE x == [seats[i] EXCEPT !.clock = "expired"]
    <3>1. SameRow(seats[i], x) /\ x.clock # "none"
      BY <2>1 DEF SameRow, SeatRows
    <3> QED
      BY <2>2, <3>1 DEF turnTimeRunsOut
  <2>3. CASE graceRunsOut(i)
    <3> DEFINE x == [seats[i] EXCEPT !.presence = "graceOver"]
    <3>1. SameRow(seats[i], x) /\ x.clock = seats[i].clock
      BY <2>1 DEF SameRow, SeatRows
    <3> QED
      BY <2>3, <3>1 DEF graceRunsOut
  <2>4. CASE leaseRunsOut(i)
    <3> DEFINE x == [seats[i] EXCEPT !.presence = "leaseOver"]
    <3>1. SameRow(seats[i], x) /\ x.clock = seats[i].clock
      BY <2>1 DEF SameRow, SeatRows
    <3> QED
      BY <2>4, <3>1 DEF leaseRunsOut
  <2> QED
    BY <2>2, <2>3, <2>4
<1> DEFINE s == [e.s EXCEPT ![i] = x]
           f == [e EXCEPT !.s = s]
<1>4. /\ s = [j \in SeatNos |-> s[j]]
      /\ \A j \in SeatNos : SameRow(e.s[j], s[j]) /\ (e.s[j].clock # "none" => s[j].clock # "none")
  <2>1. \A j \in SeatNos : s[j] = IF j = i THEN x ELSE e.s[j]
    BY <1>2
  <2>2. \A j \in SeatNos : SameRow(e.s[j], e.s[j])
    BY <1>2 DEF SameRow
  <2>3. s = [j \in SeatNos |-> s[j]]
    BY <1>2
  <2> HIDE DEF s
  <2> QED
    BY <1>1, <1>3, <2>1, <2>2, <2>3
<1>5. s = [seats EXCEPT ![i] = x]
  BY <1>1
<1> HIDE DEF s
<1>6. Looks(e, f) /\ f.t = e.t /\ f.s = s
  BY <1>2, <1>4, RowsLook
<1> HIDE DEF f
<1>7. Sound(f)
  BY <1>1, <1>6, LooksSound
<1>8. Clocked(f)
  <2>1. e.t.status = "active" => e.t.pending \in SeatNos
    BY <1>1 DEF Sound, Turn, listActionableSeats, seated
  <2> QED
    BY <1>1, <1>4, <1>6, <2>1 DEF Clocked
<1>9. persisted(f)
  BY <1>1, <1>3, <1>5, <1>6 DEF persisted, passes, Looks
<1> QED
  BY <1>7, <1>8, <1>9, PersistedIsSound

-----------------------------------------------------------------------------
(* The start of a hand, as a transaction *)

\* A tournament nobody plays a hand of.
Resting(f) ==
    /\ IsState(f) /\ f.t.kind = "tournament" /\ f.t.status = "waiting" /\ f.t.currentBet = 0
    /\ f.gone = 0 /\ \A u \in Players : f.w[u].locked = 0
    /\ \A i \in SeatNos :
        /\ f.s[i].user # Bot /\ (f.s[i].user = NoPlayer => f.s[i].stack = 0)
        /\ f.s[i].status = "waiting" /\ f.s[i].total = 0 /\ f.s[i].committed = 0

LEMMA RestingIsOK ==
    ASSUME NEW f, Resting(f)
    PROVE  /\ HandOK(f) /\ Locks(f) /\ Kinds(f) /\ Turn(f) /\ isTournamentTable(f)
           /\ totalOf(f, SeatNos) = 0 /\ inPots(f) = 0
<1>1. HandRows(f)
  BY DEF HandRows, Resting
<1>2. BetOn(f, 0)
  <2>1. \A i \in SeatNos : /\ f.s[i].total <= 0 + f.s[i].committed
                           /\ f.s[i].status = "active" => f.s[i].total = 0 + f.s[i].committed
    BY DEF Resting
  <2>2. Nobody(f)
    BY DEF Nobody, Resting
  <2> QED
    BY <2>1, <2>2 DEF BetOn
<1>3. HandOK(f)
  BY <1>1, <1>2 DEF HandOK, Betting, Resting
<1>4. isTournamentTable(f)
  BY DEF isTournamentTable, Resting
<1>5. Locks(f)
  BY <1>4 DEF Locks, Resting
<1>6. Kinds(f)
  BY DEF Kinds, bots, seatsOf, Resting
<1>7. Turn(f)
  BY DEF Turn, Resting
<1>8. totalOf(f, SeatNos) = 0
  BY NoTotals DEF Resting
<1> QED
  BY <1>3, <1>4, <1>5, <1>6, <1>7, <1>8 DEF inPots

LEMMA RestingTable ==
    ASSUME NEW e, Sound(e), isTournamentTable(e), e.t.status = "waiting"
    PROVE  Resting(e)
<1>1. /\ IsState(e) /\ HandRows(e) /\ e.t.kind = "tournament" /\ e.gone = 0 /\ bots(e) = {}
      /\ Locks(e)
  BY DEF Sound, HandOK, Kinds, isTournamentTable
<1>2. \A i \in SeatNos : e.s[i].user # Bot
  BY <1>1 DEF bots, seatsOf
<1>3. \A u \in Players : e.w[u].locked = 0
  BY <1>1 DEF Locks, isTournamentTable
<1> QED
  BY <1>1, <1>2, <1>3 DEF Resting, HandRows

\* The number of paid places follows the number of players.
withPlaces(x, n) == [x EXCEPT !.places = n]

LEMMA WithPlaces ==
    ASSUME NEW x \in TableRows, NEW n \in Nat
    PROVE  LET r == withPlaces(x, n)
           IN  /\ r \in TableRows /\ r.places = n /\ r.kind = x.kind /\ r.status = x.status
               /\ r.currentBet = x.currentBet /\ r.hands = x.hands /\ r.event = x.event
               /\ r.buyIn = x.buyIn /\ r.standing = x.standing
<1> DEFINE r == withPlaces(x, n)
<1>1. r \in TableRows
  BY DEF withPlaces, TableRows
<1>2. r.places = n /\ r.kind = x.kind /\ r.status = x.status /\ r.currentBet = x.currentBet
      /\ r.hands = x.hands /\ r.event = x.event /\ r.buyIn = x.buyIn /\ r.standing = x.standing
  BY DEF withPlaces, TableRows
<1> QED
  BY <1>1, <1>2

LEMMA SyncedPlaces ==
    ASSUME NEW e, Whole(e), e.t \in TableRows, NEW n \in Nat, n = Cardinality(registered(e)), n >= 1
    PROVE  \E k \in 1..3 : /\ k <= n
                           /\ Made(syncTournamentStandings(e), withPlaces(e.t, k), e.s, e.w, e.house,
                                   e.pool, e.gone)
<1> DEFINE k == resolveTournamentPayoutPlaces(n, e.t.places)
<1>1. k \in 1..3 /\ k <= n
  <2>1. PICK m \in Nat : m = e.t.places
    BY DEF TableRows
  <2> QED
    BY <2>1, PaidPlaces
<1>2. syncTournamentStandings(e) = [e EXCEPT !.t = withPlaces(e.t, k)]
  BY Zenon DEF syncTournamentStandings, withPlaces
<1> HIDE DEF k
<1>3. Made(syncTournamentStandings(e), withPlaces(e.t, k), e.s, e.w, e.house, e.pool, e.gone)
  BY <1>2, PartsMade, Zenon
<1> QED
  BY <1>1, <1>3

LEMMA SameSeats ==
    ASSUME NEW e, NEW f, f.s = e.s
    PROVE  /\ seated(f) = seated(e) /\ bots(f) = bots(e) /\ humans(f) = humans(e)
           /\ \A u : seatsOf(f, u) = seatsOf(e, u)
           /\ listEligibleSeats(f) = listEligibleSeats(e)
           /\ stacksOf(f, SeatNos) = stacksOf(e, SeatNos)
           /\ totalOf(f, SeatNos) = totalOf(e, SeatNos)
<1>1. seated(f) = seated(e) /\ \A u : seatsOf(f, u) = seatsOf(e, u)
  BY DEF seated, seatsOf
<1>2. bots(f) = bots(e) /\ humans(f) = humans(e) /\ listEligibleSeats(f) = listEligibleSeats(e)
  BY <1>1 DEF bots, humans, listEligibleSeats
<1>3. stacksOf(f, SeatNos) = stacksOf(e, SeatNos) /\ totalOf(f, SeatNos) = totalOf(e, SeatNos)
  BY DEF stacksOf, totalOf
<1> QED
  BY <1>1, <1>2, <1>3

LEMMA SameSeatingOfEvent ==
    ASSUME NEW e, NEW f, f.s = e.s, f.t.standing = e.t.standing
    PROVE  /\ Seating(e) => Seating(f)
           /\ Placing(e) => Placing(f)
           /\ registered(f) = registered(e)
<1>1. seated(f) = seated(e) /\ \A u : seatsOf(f, u) = seatsOf(e, u)
  BY SameSeats
<1>2. registered(f) = registered(e)
  BY SameRegistered
<1> QED
  BY <1>1, <1>2 DEF Seating, Placing

\* The event goes from registering to running with its first hand.
runningRow(x) == [x EXCEPT !.event = "running"]
runsEvent(e) == syncTournamentStandings([e EXCEPT !.t = runningRow(e.t)])

LEMMA Runs ==
    ASSUME NEW e, Sound(e), isTournamentTable(e), e.t.event = "registering", registered(e) # {}
    PROVE  LET f == runsEvent(e)
           IN  /\ Sound(f) /\ f.s = e.s /\ f.t.hands = e.t.hands /\ f.t.status = "waiting"
               /\ f.t.event = "running" /\ isTournamentTable(f)
<1> DEFINE r == runningRow(e.t)
           m == [e EXCEPT !.t = r]
           f == runsEvent(e)
<1>1. /\ IsState(e) /\ Whole(e) /\ e.t \in TableRows /\ AtStake(e) /\ Seating(e) /\ Placing(e)
      /\ e.t.status = "waiting"
  BY WholeState DEF Sound, HandOK, Event, AtStake, isTournamentTable
<1>2. Resting(e)
  BY <1>1, RestingTable
<1>3. /\ r \in TableRows /\ r.kind = e.t.kind /\ r.status = e.t.status /\ r.currentBet = e.t.currentBet
      /\ r.hands = e.t.hands /\ r.event = "running" /\ r.buyIn = e.t.buyIn
      /\ r.standing = e.t.standing
  <2> DEFINE x == e.t
  <2>1. x \in TableRows
    BY <1>1
  <2> HIDE DEF x
  <2>2. /\ runningRow(x) \in TableRows /\ runningRow(x).kind = x.kind
        /\ runningRow(x).status = x.status /\ runningRow(x).currentBet = x.currentBet
        /\ runningRow(x).hands = x.hands /\ runningRow(x).event = "running"
        /\ runningRow(x).buyIn = x.buyIn /\ runningRow(x).standing = x.standing
    BY <2>1 DEF runningRow, TableRows
  <2> QED
    BY <2>2 DEF x
<1> HIDE DEF r
<1>4. Made(m, r, e.s, e.w, e.house, e.pool, e.gone)
  BY <1>1, PartsMade
<1>5. f = syncTournamentStandings(m)
  BY DEF runsEvent, r
<1> HIDE DEF m, f
<1>6. /\ Whole(m) /\ m.t = r /\ m.s = e.s /\ m.w = e.w /\ m.house = e.house /\ m.pool = e.pool
      /\ m.gone = e.gone
  BY <1>4 DEF Made
<1>7. registered(m) = registered(e)
  BY <1>3, <1>6, SameSeatingOfEvent
<1>8. PICK n \in Nat : n = Cardinality(registered(e)) /\ n >= 1
  <2>1. IsFiniteSet(registered(e)) /\ Cardinality(registered(e)) \in Nat
    BY SeatsOfPlayers
  <2>2. Cardinality(registered(e)) # 0
    BY <2>1, FS_EmptySet
  <2> QED
    BY <2>1, <2>2
<1>9. PICK k \in 1..3 : /\ k <= n
                        /\ Made(f, withPlaces(m.t, k), m.s, m.w, m.house, m.pool, m.gone)
  BY <1>3, <1>5, <1>6, <1>7, <1>8, SyncedPlaces
<1> DEFINE q == withPlaces(r, k)
<1>10. /\ q \in TableRows /\ q.places = k /\ q.kind = r.kind /\ q.status = r.status
       /\ q.currentBet = r.currentBet /\ q.hands = r.hands /\ q.event = r.event
       /\ q.buyIn = r.buyIn /\ q.standing = r.standing
  <2>1. k \in Nat
    BY <1>9
  <2> QED
    BY <1>3, <2>1, WithPlaces
<1>11. Made(f, q, e.s, e.w, e.house, e.pool, e.gone)
  BY <1>6, <1>9, Zenon
<1> HIDE DEF q
<1>12. /\ Whole(f) /\ f.t = q /\ f.s = e.s /\ f.w = e.w /\ f.house = e.house /\ f.pool = e.pool
       /\ f.gone = e.gone
  BY <1>11 DEF Made
<1>13. IsState(f)
  BY <1>1, <1>10, <1>12, WholeState
<1>14. Resting(f)
  BY <1>2, <1>3, <1>10, <1>12, <1>13 DEF Resting
<1>15. /\ HandOK(f) /\ Locks(f) /\ Kinds(f) /\ Turn(f) /\ isTournamentTable(f) /\ inPots(f) = 0
  BY <1>14, RestingIsOK
<1>16. Seating(f) /\ Placing(f) /\ registered(f) = registered(e)
  BY <1>1, <1>3, <1>10, <1>12, SameSeatingOfEvent
<1>17. AtStake(f)
  <2>1. stacksOf(f, SeatNos) = stacksOf(e, SeatNos) /\ totalOf(f, SeatNos) = totalOf(e, SeatNos)
    BY <1>12, SameSeats
  <2>2. /\ e.pool = e.t.buyIn * Cardinality(registered(e))
        /\ stacksOf(e, SeatNos) + totalOf(e, SeatNos) = StartingStack * Cardinality(registered(e))
    BY <1>1 DEF AtStake
  <2> QED
    BY <1>3, <1>8, <1>9, <1>10, <1>12, <1>16, <2>1, <2>2 DEF AtStake
<1>18. worth(f) = worth(e)
  <2>1. money(f) = money(e)
    BY <1>12 DEF money
  <2>2. inPots(e) = 0
    BY <1>2, RestingIsOK
  <2> QED
    BY <1>12, <1>15, <2>1, <2>2 DEF worth
<1> QED
  BY <1>1, <1>3, <1>10, <1>12, <1>15, <1>16, <1>17, <1>18 DEF Sound, Event, f

Touched(d, u, f) == f = [applySeatPresenceTouch(d, u) EXCEPT !.pots = {}]

\* The cards are dealt and whoever asked for it is there.
LEMMA TouchedStart ==
    ASSUME NEW e, Sound(e), e.t.status = "waiting", NEW d, Started(e, d),
           listEligibleSeats(e) \cap humans(e) # {}, NEW u,
           NEW f, Touched(d, u, f)
    PROVE  /\ HandOK(f) /\ Turn(f) /\ SameTable(e, f) /\ chipsIn(f) = chipsIn(e)
           /\ e.t.kind # "casual" => f.gone = e.gone
<1> DEFINE g == applySeatPresenceTouch(d, u)
<1>1. HandOK(d) /\ IsState(d) /\ SameTable(e, d) /\ chipsIn(d) = chipsIn(e)
  BY DEF Started, HandOK
<1>2. Looks(d, g) /\ g.t = d.t
  BY <1>1, TouchLooks
<1>3. f = [g EXCEPT !.pots = {}]
  BY DEF Touched
<1> HIDE DEF g
<1>4. HandOK(g) /\ IsState(g)
  BY <1>1, <1>2, LooksHand DEF HandOK
<1>5. Looks(g, f) /\ f.t = g.t /\ f.s = g.s
  <2> DEFINE p == [g EXCEPT !.pots = {}]
  <2>1. Looks(g, p) /\ p.t = g.t /\ p.s = g.s
    BY <1>4, PotsLook
  <2> QED
    BY <1>3, <2>1, Zenon
<1>6. Looks(d, f) /\ f.t = d.t
  BY <1>2, <1>5 DEF Looks
<1>7. HandOK(f)
  BY <1>1, <1>6, LooksHand
<1>8. chipsIn(f) = chipsIn(d)
  BY <1>6, SameChips DEF Looks
<1>9. SameTable(e, f)
  BY <1>1, <1>6 DEF SameTable, Looks
<1>10. Turn(d)
  <2>1. PICK i \in listEligibleSeats(e) : i \in humans(e)
    OBVIOUS
  <2>2. d.t.status = "active" =>
            d.t.pending \in listActionableSeats(d) /\ isSeatInHand(d.s[i])
    BY <2>1 DEF Started
  <2>3. i \in humans(d)
    BY <1>1, <2>1, SameSeating
  <2> QED
    BY <2>2, <2>3 DEF Turn
<1>11. Turn(f)
  <2>1. listActionableSeats(f) = listActionableSeats(d) /\ humans(f) = humans(d)
    BY <1>6, LooksSame
  <2>2. \A i \in humans(d) : isSeatInHand(d.s[i]) => isSeatInHand(f.s[i])
    BY <1>6 DEF Looks, humans, seated, isSeatInHand
  <2> QED
    BY <1>6, <1>10, <2>1, <2>2 DEF Turn
<1>12. e.t.kind # "casual" => f.gone = e.gone
  BY <1>6 DEF Started, Looks
<1> QED
  BY <1>1, <1>7, <1>8, <1>9, <1>11, <1>12

LEMMA HandStarts ==
    ASSUME HoldemInv, NEW u, startHoldemTableHand(u)
    PROVE  HoldemInv'
<1> DEFINE e == loadTableState
           running == IF table.event = "registering" THEN runsEvent(e) ELSE e
<1>1. /\ Sound(e) /\ e.t = table /\ e.t.status = "waiting" /\ e.t.event # "completed"
      /\ e.t.hands < MaxHands /\ listEligibleSeats(e) \cap humans(e) # {}
  BY LoadedState DEF startHoldemTableHand
<1>2. PICK d \in startHoldemHand(running) :
        LET touched == [applySeatPresenceTouch(d, u) EXCEPT !.pots = {}]
            booked == IF isTournamentTable(e) THEN touched
                      ELSE syncSettledLockedBalances(e, touched, 0)
        IN  persisted(syncHoldemTurnDeadlines(booked))
  BY Zenon DEF startHoldemTableHand, runsEvent, runningRow
<1> HIDE DEF e
<1>3. /\ Sound(running) /\ running.s = e.s /\ running.t.status = "waiting"
      /\ running.t.hands = e.t.hands
      /\ IF isTournamentTable(e) THEN isTournamentTable(running) /\ running.t.event # "registering"
         ELSE running = e
  <2>1. CASE table.event = "registering"
    <3>1. isTournamentTable(e)
      BY <1>1, <2>1 DEF Sound, Kinds, isTournamentTable
    <3>2. registered(e) # {}
      <4>1. seated(e) # {}
        BY <1>1 DEF humans
      <4> QED
        BY <1>1, <3>1, <4>1, SeatsOfPlayers
    <3>3. /\ Sound(runsEvent(e)) /\ runsEvent(e).s = e.s /\ runsEvent(e).t.hands = e.t.hands
          /\ runsEvent(e).t.status = "waiting" /\ runsEvent(e).t.event = "running" /\ isTournamentTable(runsEvent(e))
      BY <1>1, <2>1, <3>1, <3>2, Runs
    <3> QED
      BY <2>1, <3>1, <3>3
  <2>2. CASE table.event # "registering"
    BY <1>1, <2>2
  <2> QED
    BY <2>1, <2>2
<1> HIDE DEF running
<1>4. listEligibleSeats(running) = listEligibleSeats(e) /\ humans(running) = humans(e)
  BY <1>3, SameSeats
<1>5. Started(running, d)
  <2>1. HandOK(running) /\ listEligibleSeats(running) # {}
    BY <1>1, <1>3, <1>4 DEF Sound
  <2> QED
    BY <1>1, <1>2, <1>3, <2>1, StartOutcome
<1> DEFINE touched == [applySeatPresenceTouch(d, u) EXCEPT !.pots = {}]
           booked == IF isTournamentTable(e) THEN touched
                     ELSE syncSettledLockedBalances(e, touched, 0)
<1>10. Touched(d, u, touched) /\ persisted(syncHoldemTurnDeadlines(booked))
  BY <1>2, Zenon DEF Touched
<1> HIDE DEF touched
<1>6. /\ HandOK(touched) /\ Turn(touched) /\ SameTable(running, touched)
      /\ chipsIn(touched) = chipsIn(running)
      /\ running.t.kind # "casual" => touched.gone = running.gone
  BY <1>1, <1>3, <1>4, <1>5, <1>10, TouchedStart
<1>7. persisted(syncHoldemTurnDeadlines(booked))
  BY <1>10
<1>8. Sound(booked)
  <2>1. CASE isTournamentTable(e)
    <3>1. touched.gone = running.gone
      BY <1>3, <1>6, <2>1 DEF isTournamentTable
    <3>2. Sound(touched)
      BY <1>3, <1>6, <2>1, <3>1, EventGoesOn
    <3> QED
      BY <2>1, <3>2
  <2>2. CASE ~isTournamentTable(e)
    <3>1. /\ SameTable(e, touched) /\ chipsIn(touched) = chipsIn(e)
          /\ touched.t.kind # "casual" => touched.gone = e.gone
      BY <1>3, <1>6, <2>2 DEF SameTable
    <3>2. chipsIn(touched) + 0 = chipsIn(e)
      <4>1. IsState(e)
        BY <1>1 DEF Sound, HandOK
      <4>2. stacksOf(e, SeatNos) \in Nat /\ totalOf(e, SeatNos) \in Nat /\ e.gone \in Nat
        BY <4>1, ChipSums, RowFacts
      <4>3. chipsIn(e) \in Nat
        BY <4>2 DEF chipsIn
      <4> QED
        BY <3>1, <4>3
    <3>3. Sound(syncSettledLockedBalances(e, touched, 0))
      BY <1>1, <1>6, <2>2, <3>1, <3>2, Booked
    <3> QED
      BY <2>2, <3>3
  <2> QED
    BY <2>1, <2>2
<1> HIDE DEF booked
<1> DEFINE f == syncHoldemTurnDeadlines(booked)
<1>9. Sound(f) /\ Clocked(f)
  BY <1>8, SynchedIsSound
<1> HIDE DEF f
<1> QED
  BY <1>7, <1>9, PersistedIsSound DEF f

-----------------------------------------------------------------------------
(* Sitting down *)

\* Empty seats are taken, in the middle of a hand too, by somebody who is not in it.
TakesSeats(e, f) ==
    /\ IsState(f) /\ f.t = e.t /\ f.house = e.house /\ f.pool = e.pool /\ f.gone = e.gone
    /\ \A i \in SeatNos :
        \/ f.s[i] = e.s[i]
        \/ /\ e.s[i].user = NoPlayer /\ f.s[i].user # NoPlayer
           /\ f.s[i].status = "waiting" /\ f.s[i].committed = 0 /\ f.s[i].total = 0
           /\ f.s[i].user = Bot => e.t.kind = "casual"

LEMMA SeatsTaken ==
    ASSUME NEW e, Sound(e), e.t.kind # "none", ~isTournamentTable(e), NEW f, TakesSeats(e, f)
    PROVE  /\ HandOK(f) /\ Kinds(f) /\ Turn(f) /\ ~isTournamentTable(f)
           /\ totalOf(f, SeatNos) = totalOf(e, SeatNos)
           /\ \A i \in seated(e) : f.s[i] = e.s[i]
<1>1. /\ IsState(e) /\ HandRows(e) /\ Kinds(e) /\ Turn(e) /\ e.t.kind # "tournament"
      /\ e.t.kind # "casual" => Betting(e)
  BY DEF Sound, HandOK, isTournamentTable
<1>2. /\ IsState(f) /\ f.t = e.t /\ f.house = e.house /\ f.pool = e.pool /\ f.gone = e.gone
  BY DEF TakesSeats
<1>3. e.t.currentBet \in Nat
  BY <1>1, RowFacts
<1>4. ASSUME NEW i \in SeatNos
      PROVE  \/ f.s[i] = e.s[i]
             \/ /\ e.s[i].user = NoPlayer /\ f.s[i].user # NoPlayer
                /\ e.s[i].total = 0 /\ e.s[i].status = "waiting"
                /\ f.s[i].status = "waiting" /\ f.s[i].committed = 0 /\ f.s[i].total = 0
                /\ f.s[i].user = Bot => e.t.kind = "casual"
  BY <1>1 DEF TakesSeats, HandRows
<1>5. \A i \in seated(e) : f.s[i] = e.s[i] /\ i \in seated(f) /\ i \in SeatNos
  BY <1>4 DEF seated
<1>6. HandRows(f)
  <2>1. ASSUME NEW i \in SeatNos
        PROVE  /\ f.s[i].user = NoPlayer => f.s[i].stack = 0 /\ f.s[i].status = "waiting"
               /\ f.s[i].status = "waiting" => f.s[i].total = 0 /\ f.s[i].committed = 0
               /\ f.t.status = "waiting" => f.s[i].status = "waiting"
               /\ f.s[i].committed <= f.t.currentBet
    <3>1. CASE f.s[i] = e.s[i]
      BY <1>1, <1>2, <3>1 DEF HandRows
    <3>2. CASE f.s[i] # e.s[i]
      BY <1>2, <1>3, <1>4, <3>2
    <3> QED
      BY <3>1, <3>2
  <2> QED
    BY <1>1, <1>2, <2>1 DEF HandRows
<1>7. \A i \in SeatNos : f.s[i].total = e.s[i].total
  BY <1>4
<1>8. f.t.kind # "casual" => Betting(f)
  <2> SUFFICES ASSUME e.t.kind # "casual" PROVE Betting(f)
    BY <1>2
  <2>1. PICK b \in Nat : BetOn(e, b)
    BY <1>1 DEF Betting
  <2>2. ASSUME NEW i \in SeatNos
        PROVE  /\ f.s[i].total <= b + f.s[i].committed
               /\ f.s[i].status = "active" => f.s[i].total = b + f.s[i].committed
    <3>1. CASE f.s[i] = e.s[i]
      BY <2>1, <3>1 DEF BetOn
    <3>2. CASE f.s[i] # e.s[i]
      BY <1>4, <3>2
    <3> QED
      BY <3>1, <3>2
  <2>3. Nobody(f) \/ \E i \in listNonFoldedSeats(f) : f.s[i].total = b + f.t.currentBet
    <3>1. CASE Nobody(e)
      BY <1>2, <1>7, <3>1 DEF Nobody
    <3>2. CASE ~Nobody(e)
      <4>1. PICK i \in listNonFoldedSeats(e) : e.s[i].total = b + e.t.currentBet
        BY <2>1, <3>2 DEF BetOn
      <4>2. i \in listNonFoldedSeats(f)
        BY <1>5, <4>1 DEF listNonFoldedSeats
      <4> QED
        BY <1>2, <1>5, <4>1, <4>2 DEF listNonFoldedSeats
    <3> QED
      BY <3>1, <3>2
  <2> QED
    BY <2>2, <2>3 DEF Betting, BetOn
<1>9. HandOK(f)
  BY <1>2, <1>6, <1>8 DEF HandOK
<1>10. Kinds(f)
  <2>1. e.t.kind # "casual" => bots(f) = {}
    BY <1>1, <1>4 DEF Kinds, bots, seatsOf
  <2> QED
    BY <1>1, <1>2, <2>1 DEF Kinds
<1>11. Turn(f)
  <2> SUFFICES ASSUME e.t.status = "active"
               PROVE  f.t.pending \in listActionableSeats(f) /\ \E i \in humans(f) : isSeatInHand(f.s[i])
    BY <1>2 DEF Turn
  <2>1. e.t.pending \in listActionableSeats(e)
    BY <1>1 DEF Turn
  <2>2. PICK i \in humans(e) : isSeatInHand(e.s[i])
    BY <1>1 DEF Turn
  <2>3. i \in humans(f) /\ f.s[i] = e.s[i]
    BY <1>5, <2>2 DEF humans
  <2>4. e.t.pending \in listActionableSeats(f)
    BY <1>5, <2>1 DEF listActionableSeats
  <2> QED
    BY <1>2, <2>2, <2>3, <2>4
<1>12. totalOf(f, SeatNos) = totalOf(e, SeatNos)
  <2>1. [i \in SeatNos |-> f.s[i].total] = [i \in SeatNos |-> e.s[i].total]
    BY <1>7
  <2> QED
    BY <2>1 DEF totalOf
<1>13. ~isTournamentTable(f)
  BY <1>1, <1>2 DEF isTournamentTable
<1> QED
  BY <1>5, <1>9, <1>10, <1>11, <1>12, <1>13

LEMMA SameStacksOf ==
    ASSUME NEW e, NEW f, NEW S, \A i \in S : f.s[i].stack = e.s[i].stack
    PROVE  stacksOf(f, S) = stacksOf(e, S)
<1>1. [i \in S |-> f.s[i].stack] = [i \in S |-> e.s[i].stack]
  OBVIOUS
<1> QED
  BY <1>1 DEF stacksOf

\* A seat that has just been taken.
LEMMA FreshSeat ==
    ASSUME NEW u \in Players \cup {Bot}, NEW n \in Nat
    PROVE  LET x == freshSeat(u, n)
           IN  /\ x \in SeatRows /\ x.user = u /\ x.stack = n /\ x.committed = 0 /\ x.total = 0
               /\ x.status = "waiting" /\ u # NoPlayer
<1>1. freshSeat(u, n) \in SeatRows
  BY DEF freshSeat, noSeat, SeatRows
<1>2. u # NoPlayer
  BY HoldemAssumption
<1> QED
  BY <1>1, <1>2 DEF freshSeat, noSeat

\* Bots take open seats of a casual table.
LEMMA BotsSit ==
    ASSUME NEW e, Sound(e), NEW count \in Nat, count = 0 \/ e.t.kind = "casual", NEW amount \in Nat
    PROVE  LET f == seatHoldemBots(e, count, amount)
           IN  Sound(f) /\ f.t = e.t /\ \A i \in seated(e) : f.s[i] = e.s[i]
<1> DEFINE isNext(i) == Cardinality({j \in openSeats(e) : j < i}) < count
           s == [i \in SeatNos |-> IF i \in openSeats(e) /\ isNext(i) THEN freshSeat(Bot, amount)
                                   ELSE e.s[i]]
           f == seatHoldemBots(e, count, amount)
<1>1. IsState(e) /\ Whole(e) /\ e.s \in [SeatNos -> SeatRows] /\ e.t \in TableRows
      /\ e.w \in [Players -> Purses] /\ e.house \in Int /\ e.pool \in Nat /\ e.gone \in Nat
  BY WholeState DEF Sound, HandOK
<1>2. f = [e EXCEPT !.s = s]
  BY Zenon DEF seatHoldemBots
<1>3. \A i \in SeatNos : s[i] = IF i \in openSeats(e) /\ isNext(i) THEN freshSeat(Bot, amount) ELSE e.s[i]
  OBVIOUS
<1>4. \A i \in SeatNos : s[i] = e.s[i] \/ (i \in openSeats(e) /\ count # 0 /\ s[i] = freshSeat(Bot, amount))
  <2>1. \A i \in SeatNos : isNext(i) => count # 0
    <3>1. \A S \in SUBSET SeatNos : Cardinality(S) \in Nat
      BY SeatsAreFinite
    <3>2. \A i \in SeatNos : {j \in openSeats(e) : j < i} \in SUBSET SeatNos
      BY DEF openSeats
    <3> QED
      BY <3>1, <3>2
  <2> HIDE DEF isNext
  <2> QED
    BY <1>3, <2>1
<1>5. s = [i \in SeatNos |-> s[i]]
  OBVIOUS
<1> HIDE DEF s
<1>6. Made(f, e.t, s, e.w, e.house, e.pool, e.gone)
  <2>1. Made([e EXCEPT !.s = s], e.t, s, e.w, e.house, e.pool, e.gone)
    BY <1>1, PartsMade
  <2> QED
    BY <1>2, <2>1, Zenon
<1> HIDE DEF f
<1>7. /\ Whole(f) /\ f.t = e.t /\ f.s = s /\ f.w = e.w /\ f.house = e.house /\ f.pool = e.pool
      /\ f.gone = e.gone
  BY <1>6 DEF Made
<1>8. CASE count = 0
  <2>1. \A i \in SeatNos : s[i] = e.s[i]
    BY <1>4, <1>8
  <2>2. IsState(f)
    <3>1. \A i \in SeatNos : s[i] \in SeatRows
      BY <1>1, <2>1
    <3>2. s \in [SeatNos -> SeatRows]
      BY <1>5, <3>1
    <3> QED
      BY <1>1, <1>7, <3>2, WholeState
  <2>3. Looks(e, f)
    BY <1>7, <2>1, <2>2 DEF Looks
  <2>4. Sound(f)
    BY <2>3, LooksSound
  <2> QED
    BY <1>7, <2>1, <2>4 DEF seated, f
<1>9. CASE count # 0
  <2>1. e.t.kind = "casual" /\ ~isTournamentTable(e)
    BY <1>9 DEF isTournamentTable
  <2>2. Bot \in Players \cup {Bot}
    OBVIOUS
  <2> DEFINE b == freshSeat(Bot, amount)
  <2>3. /\ b \in SeatRows /\ b.user = Bot /\ b.stack = amount /\ b.committed = 0 /\ b.total = 0
        /\ b.status = "waiting" /\ Bot # NoPlayer
    BY <2>2, FreshSeat
  <2>4. \A i \in SeatNos : s[i] = e.s[i] \/ (e.s[i].user = NoPlayer /\ s[i] = b)
    BY <1>4 DEF openSeats, seated
  <2> HIDE DEF b
  <2>5. IsState(f)
    <3>1. \A i \in SeatNos : s[i] \in SeatRows
      BY <1>1, <2>3, <2>4
    <3>2. s \in [SeatNos -> SeatRows]
      BY <1>5, <3>1
    <3> QED
      BY <1>1, <1>7, <3>2, WholeState
  <2>6. TakesSeats(e, f)
    BY <1>7, <2>1, <2>3, <2>4, <2>5 DEF TakesSeats
  <2>7. /\ HandOK(f) /\ Kinds(f) /\ Turn(f) /\ ~isTournamentTable(f)
        /\ totalOf(f, SeatNos) = totalOf(e, SeatNos)
        /\ \A i \in seated(e) : f.s[i] = e.s[i]
    BY <2>1, <2>6, SeatsTaken
  <2>8. Locks(f)
    <3>1. ASSUME NEW u \in Players PROVE stacksOf(f, seatsOf(f, u)) = stacksOf(e, seatsOf(e, u))
      <4>1. u # Bot /\ u # NoPlayer
        BY HoldemAssumption
      <4>2. \A i \in SeatNos : f.s[i].user = u <=> e.s[i].user = u
        BY <1>7, <2>3, <2>4, <4>1
      <4>3. seatsOf(f, u) = seatsOf(e, u)
        BY <4>2 DEF seatsOf
      <4>4. \A i \in seatsOf(e, u) : f.s[i].stack = e.s[i].stack
        BY <2>7, <4>1 DEF seatsOf, seated
      <4> QED
        BY <4>3, <4>4, SameStacksOf
    <3> QED
      BY <1>7, <2>1, <2>7, <3>1 DEF Locks, Sound
  <2>9. worth(f) = worth(e)
    <3>1. money(f) = money(e)
      BY <1>7 DEF money
    <3> QED
      BY <1>7, <2>1, <2>7, <3>1 DEF worth, inPots
  <2>10. Event(f)
    BY <2>7 DEF Event, isTournamentTable
  <2>11. Sound(f)
    BY <2>7, <2>8, <2>9, <2>10 DEF Sound
  <2> QED
    BY <1>7, <2>7, <2>11 DEF f
<1> QED
  BY <1>8, <1>9

LEMMA StackOfSeat ==
    ASSUME NEW e, NEW i, e.s[i].stack \in Nat
    PROVE  stacksOf(e, {i}) = e.s[i].stack
<1> DEFINE d == [j \in {i} |-> e.s[j].stack]
<1>1. d[i] = e.s[i].stack
  OBVIOUS
<1>2. stacksOf(e, {i}) = SumFunctionOnSet(d, {i})
  BY DEF stacksOf
<1> HIDE DEF d
<1>3. IsFiniteSet({}) /\ i \notin {} /\ {} \cup {i} = {i}
  BY FS_EmptySet
<1>4. \A y \in {} \cup {i} : d[y] \in Int
  BY <1>1
<1>5. SumFunctionOnSet(d, {} \cup {i}) = d[i] + SumFunctionOnSet(d, {})
  BY <1>3, <1>4, SumWith
<1>6. SumFunctionOnSet(d, {}) = 0
  BY SumOfNone
<1> QED
  BY <1>1, <1>2, <1>3, <1>5, <1>6

LEMMA StacksOfNone ==
    ASSUME NEW e
    PROVE  stacksOf(e, {}) = 0
  BY SumOfNone DEF stacksOf

\* A seat is taken and a balance changes.
LEMMA SeatAndPurse ==
    ASSUME NEW e, Whole(e), NEW u, NEW p, NEW i, NEW x,
           NEW f, f = takes(hasInWallet(e, u, p), i, x)
    PROVE  Made(f, e.t, [e.s EXCEPT ![i] = x], [e.w EXCEPT ![u] = p], e.house, e.pool, e.gone)
<1> DEFINE w == [e.w EXCEPT ![u] = p]
           m == hasInWallet(e, u, p)
           s == [m.s EXCEPT ![i] = x]
<1>1. m = [e EXCEPT !.w = w]
  BY DEF hasInWallet
<1>2. f = [m EXCEPT !.s = s]
  BY DEF takes
<1> HIDE DEF m
<1>3. Made(m, e.t, e.s, w, e.house, e.pool, e.gone)
  <2>1. Made([e EXCEPT !.w = w], e.t, e.s, w, e.house, e.pool, e.gone)
    BY PartsMade
  <2> QED
    BY <1>1, <2>1, Zenon
<1> HIDE DEF s
<1>4. Whole(m)
  BY <1>3 DEF Made
<1>5. Made(f, m.t, s, m.w, m.house, m.pool, m.gone)
  <2>1. Made([m EXCEPT !.s = s], m.t, s, m.w, m.house, m.pool, m.gone)
    BY <1>4, PartsMade
  <2> QED
    BY <1>2, <2>1, Zenon
<1>6. /\ m.t = e.t /\ m.s = e.s /\ m.w = w /\ m.house = e.house /\ m.pool = e.pool /\ m.gone = e.gone
  BY <1>3 DEF Made
<1>7. s = [e.s EXCEPT ![i] = x]
  BY <1>6 DEF s
<1> QED
  BY <1>5, <1>6, <1>7, Zenon

\* A seat of a cash or casual table is bought with chips locked in the balance.
LEMMA SeatBought ==
    ASSUME NEW e, Sound(e), e.t.kind # "none", ~isTournamentTable(e),
           NEW u \in Players, seatsOf(e, u) = {}, NEW i \in openSeats(e),
           NEW amount \in Nat, e.w[u].free >= amount
    PROVE  LET f == sitsDown(e, u, i, amount)
           IN  Sound(f) /\ f.t = e.t /\ \A j \in seated(e) : f.s[j] = e.s[j]
<1> DEFINE a == e.w[u].free
           b == e.w[u].locked
           p == [free |-> a - amount, locked |-> b + amount]
           x == freshSeat(u, amount)
           f == sitsDown(e, u, i, amount)
<1>1. IsState(e) /\ Whole(e) /\ e.s \in [SeatNos -> SeatRows] /\ e.t \in TableRows
      /\ e.w \in [Players -> Purses] /\ e.house \in Int /\ e.pool \in Nat /\ e.gone \in Nat /\ Locks(e)
  BY WholeState DEF Sound, HandOK
<1>2. a \in Nat /\ b \in Nat /\ a >= amount
  BY <1>1 DEF Purses
<1>3. f = takes(hasInWallet(e, u, p), i, x)
  BY Zenon DEF sitsDown, applyBuyInToWallet
<1> HIDE DEF a, b
<1>4. p \in Purses /\ p.free = a - amount /\ p.locked = b + amount
  BY <1>2 DEF Purses
<1>5. u \in Players \cup {Bot} /\ u # Bot /\ u # NoPlayer
  BY HoldemAssumption
<1>6. /\ x \in SeatRows /\ x.user = u /\ x.stack = amount /\ x.committed = 0 /\ x.total = 0
      /\ x.status = "waiting"
  BY <1>5, FreshSeat
<1> HIDE DEF p, x, f
<1>7. Made(f, e.t, [e.s EXCEPT ![i] = x], [e.w EXCEPT ![u] = p], e.house, e.pool, e.gone)
  BY <1>1, <1>3, SeatAndPurse
<1>8. i \in SeatNos /\ e.s[i].user = NoPlayer
  BY DEF openSeats, seated
<1> DEFINE s == [e.s EXCEPT ![i] = x]
           w == [e.w EXCEPT ![u] = p]
<1>9. /\ s \in [SeatNos -> SeatRows] /\ s[i] = x /\ \A j \in SeatNos \ {i} : s[j] = e.s[j]
      /\ w \in [Players -> Purses] /\ w[u] = p /\ \A v \in Players \ {u} : w[v] = e.w[v]
  BY <1>1, <1>4, <1>6, <1>8
<1> HIDE DEF s, w
<1>10. /\ Whole(f) /\ f.t = e.t /\ f.s = s /\ f.w = w /\ f.house = e.house /\ f.pool = e.pool
       /\ f.gone = e.gone
  BY <1>7 DEF Made, s, w
<1>11. IsState(f)
  BY <1>1, <1>9, <1>10, WholeState
<1>12. TakesSeats(e, f)
  <2>1. \A j \in SeatNos : f.s[j] = e.s[j] \/ (j = i /\ f.s[j] = x)
    BY <1>9, <1>10
  <2> QED
    BY <1>5, <1>6, <1>8, <1>10, <1>11, <2>1 DEF TakesSeats
<1>13. /\ HandOK(f) /\ Kinds(f) /\ Turn(f) /\ ~isTournamentTable(f)
       /\ totalOf(f, SeatNos) = totalOf(e, SeatNos)
       /\ \A j \in seated(e) : f.s[j] = e.s[j]
  BY <1>12, SeatsTaken
<1>14. Locks(f)
  <2>1. b = 0
    <3>1. e.w[u].locked = stacksOf(e, seatsOf(e, u))
      BY <1>1 DEF Locks
    <3> QED
      BY <3>1, StacksOfNone DEF b
  <2>2. f.w[u].locked = stacksOf(f, seatsOf(f, u))
    <3>1. \A j \in SeatNos : f.s[j].user = u <=> j = i
      BY <1>6, <1>8, <1>9, <1>10 DEF seatsOf
    <3>2. seatsOf(f, u) = {i}
      BY <1>8, <3>1 DEF seatsOf
    <3>3. f.s[i].stack = amount
      BY <1>6, <1>9, <1>10
    <3>4. stacksOf(f, {i}) = amount
      BY <3>3, StackOfSeat
    <3> QED
      BY <1>4, <1>9, <1>10, <2>1, <3>2, <3>4
  <2>3. ASSUME NEW v \in Players, v # u PROVE f.w[v].locked = stacksOf(f, seatsOf(f, v))
    <3>1. v # NoPlayer
      BY HoldemAssumption
    <3>2. \A j \in SeatNos : f.s[j].user = v <=> e.s[j].user = v
      BY <1>6, <1>8, <1>9, <1>10, <2>3, <3>1
    <3>3. seatsOf(f, v) = seatsOf(e, v)
      BY <3>2 DEF seatsOf
    <3>4. \A j \in seatsOf(e, v) : f.s[j].stack = e.s[j].stack
      BY <1>13, <3>1 DEF seatsOf, seated
    <3>5. stacksOf(f, seatsOf(f, v)) = stacksOf(e, seatsOf(e, v))
      BY <3>3, <3>4, SameStacksOf
    <3>6. e.w[v].locked = stacksOf(e, seatsOf(e, v))
      BY <1>1 DEF Locks
    <3> QED
      BY <1>9, <1>10, <2>3, <3>5, <3>6
  <2> QED
    BY <1>13, <2>2, <2>3 DEF Locks
<1>15. worth(f) = worth(e)
  <2>1. ASSUME NEW v \in Players PROVE f.w[v].free + f.w[v].locked = e.w[v].free + e.w[v].locked
    <3>1. CASE v = u
      <4>1. p.free + p.locked = a + b
        BY <1>2, <1>4
      <4> QED
        BY <1>9, <1>10, <3>1, <4>1 DEF a, b
    <3>2. CASE v # u
      BY <1>9, <1>10, <3>2
    <3> QED
      BY <3>1, <3>2
  <2>2. money(f) = money(e)
    BY <2>1, SameMoney
  <2> QED
    BY <1>10, <1>13, <2>2 DEF worth, inPots
<1>16. Event(f)
  BY <1>13 DEF Event, isTournamentTable
<1>17. Sound(f)
  BY <1>13, <1>14, <1>15, <1>16 DEF Sound
<1> QED
  BY <1>10, <1>13, <1>17 DEF f

\* A tournament that players are still registering for.
LEMMA Registering ==
    ASSUME NEW f, Resting(f), Seating(f), f.t.event = "registering",
           \A u \in Players : f.t.standing[u] \in {Nil, 0},
           NEW n \in Nat, n = Cardinality(registered(f)), f.pool = f.t.buyIn * n,
           stacksOf(f, SeatNos) = StartingStack * n,
           registered(f) # {} => f.t.places \in 1..3 /\ f.t.places <= n,
           \A i \in seated(f) : f.s[i].stack = StartingStack,
           worth(f) = Funds * Cardinality(Players)
    PROVE  Sound(f)
<1>1. /\ HandOK(f) /\ Locks(f) /\ Kinds(f) /\ Turn(f) /\ isTournamentTable(f)
      /\ totalOf(f, SeatNos) = 0
  BY RestingIsOK
<1>2. Placing(f)
  BY DEF Placing
<1>3. stacksOf(f, SeatNos) \in Nat
  BY ChipSums DEF Resting
<1>4. AtStake(f)
  BY <1>1, <1>3 DEF AtStake, Resting
<1> QED
  BY <1>1, <1>2, <1>4 DEF Sound, Event

freed(p, d) == [p EXCEPT !.free = p.free + d]
standRow(x, u, n) == [x EXCEPT !.standing = [x.standing EXCEPT ![u] = n]]

LEMMA StandRow ==
    ASSUME NEW x \in TableRows, NEW u \in Players, NEW n \in Int
    PROVE  LET r == standRow(x, u, n)
           IN  /\ r \in TableRows /\ r.kind = x.kind /\ r.status = x.status
               /\ r.currentBet = x.currentBet /\ r.event = x.event /\ r.buyIn = x.buyIn
               /\ r.standing[u] = n /\ \A v \in Players \ {u} : r.standing[v] = x.standing[v]
<1> DEFINE st == [x.standing EXCEPT ![u] = n]
           r == standRow(x, u, n)
<1>1. x.standing \in [Players -> Int]
  BY DEF TableRows
<1>2. st \in [Players -> Int] /\ st[u] = n /\ \A v \in Players \ {u} : st[v] = x.standing[v]
  BY <1>1
<1>3. r = [x EXCEPT !.standing = st]
  BY DEF standRow
<1> HIDE DEF st, r
<1>4. /\ r \in TableRows /\ r.kind = x.kind /\ r.status = x.status
      /\ r.currentBet = x.currentBet /\ r.event = x.event /\ r.buyIn = x.buyIn /\ r.standing = st
  BY <1>2, <1>3 DEF TableRows
<1> QED
  BY <1>2, <1>4 DEF r

LEMMA Stood ==
    ASSUME NEW e, Whole(e), NEW u, NEW n
    PROVE  Made(stands(e, u, n), standRow(e.t, u, n), e.s, e.w, e.house, e.pool, e.gone)
<1> DEFINE r == standRow(e.t, u, n)
<1>1. stands(e, u, n) = [e EXCEPT !.t = r]
  BY Zenon DEF stands, standRow
<1> HIDE DEF r
<1>2. Made([e EXCEPT !.t = r], r, e.s, e.w, e.house, e.pool, e.gone)
  BY PartsMade
<1> QED
  BY <1>1, <1>2, Zenon DEF r

LEMMA PoolDelta ==
    ASSUME NEW e, Whole(e), NEW u, NEW d
    PROVE  Made(applyTournamentWithdrawableDelta(e, u, d), e.t, e.s,
                [e.w EXCEPT ![u] = freed(e.w[u], d)], e.house, e.pool - d, e.gone)
<1> DEFINE w == [e.w EXCEPT ![u] = freed(e.w[u], d)]
           p == e.pool - d
           m == [e EXCEPT !.w = w]
           f == applyTournamentWithdrawableDelta(e, u, d)
<1>1. f = [m EXCEPT !.pool = p]
  BY Zenon DEF applyTournamentWithdrawableDelta, hasInWallet, freed
<1> HIDE DEF w, p, f
<1>2. Made(m, e.t, e.s, w, e.house, e.pool, e.gone)
  BY PartsMade
<1> HIDE DEF m
<1>3. /\ Whole(m) /\ m.t = e.t /\ m.s = e.s /\ m.w = w /\ m.house = e.house /\ m.gone = e.gone
  BY <1>2 DEF Made
<1>4. Made(f, m.t, m.s, m.w, m.house, p, m.gone)
  <2>1. Made([m EXCEPT !.pool = p], m.t, m.s, m.w, m.house, p, m.gone)
    BY <1>3, PartsMade
  <2> QED
    BY <1>1, <2>1, Zenon
<1>5. Made(f, e.t, e.s, w, e.house, p, e.gone)
  BY <1>3, <1>4, Zenon
<1> QED
  BY <1>5 DEF f, w, p

\* The players' balances and the pool move against each other.
LEMMA PurseAndPool ==
    ASSUME NEW e, IsState(e), NEW f, IsState(f), NEW u \in Players, NEW d \in Int,
           f.w[u].free = e.w[u].free + d, f.w[u].locked = e.w[u].locked,
           \A v \in Players \ {u} : f.w[v] = e.w[v], f.pool = e.pool - d,
           f.house = e.house, f.gone = e.gone, inPots(e) = 0, inPots(f) = 0
    PROVE  worth(f) = worth(e)
<1> DEFINE x == [v \in Players |-> IF v = u THEN d ELSE 0]
<1>1. \A v \in Players : x[v] = IF v = u THEN d ELSE 0
  OBVIOUS
<1> HIDE DEF x
<1>2. SumFunctionOnSet(x, Players) = d
  <2>1. IsFiniteSet(Players)
    BY HoldemAssumption
  <2>2. u \notin Players => d = 0
    OBVIOUS
  <2> QED
    BY <1>1, <2>1, <2>2, SumOfOwner
<1>3. ASSUME NEW v \in Players
      PROVE  x[v] \in Int /\ f.w[v].free + f.w[v].locked = e.w[v].free + e.w[v].locked + x[v]
  <2>1. e.w[v].free \in Nat /\ e.w[v].locked \in Nat
    BY DEF IsState, Purses
  <2>2. CASE v = u
    BY <1>1, <2>1, <2>2
  <2>3. CASE v # u
    BY <1>1, <2>1, <2>3
  <2> QED
    BY <2>2, <2>3
<1>4. money(f) = money(e) + d /\ money(e) \in Int
  BY <1>2, <1>3, MoneyMoves
<1>5. e.house \in Int /\ e.pool \in Nat /\ e.gone \in Nat
  BY DEF IsState
<1> QED
  BY <1>4, <1>5 DEF worth

\* A seat of a tournament is bought with money that goes to the prize pool.
LEMMA EntryBought ==
    ASSUME NEW e, Sound(e), isTournamentTable(e), e.t.event = "registering",
           NEW u \in Players, seatsOf(e, u) = {}, NEW i \in openSeats(e),
           NEW amount \in Nat, amount = e.t.buyIn, e.w[u].free >= amount
    PROVE  Sound(sitsDown(e, u, i, amount)) /\ sitsDown(e, u, i, amount).t.status = "waiting"
<1> DEFINE a == e.w[u].free
           x == freshSeat(u, StartingStack)
           m1 == applyTournamentWithdrawableDelta(e, u, -amount)
           m2 == takes(m1, i, x)
           m3 == stands(m2, u, 0)
           f == sitsDown(e, u, i, amount)
           w == [e.w EXCEPT ![u] = freed(e.w[u], -amount)]
           s == [e.s EXCEPT ![i] = x]
           r == standRow(e.t, u, 0)
           p == e.pool - (-amount)
<1>1. /\ IsState(e) /\ Whole(e) /\ e.s \in [SeatNos -> SeatRows] /\ e.t \in TableRows
      /\ e.w \in [Players -> Purses] /\ e.house \in Int /\ e.pool \in Nat /\ e.gone \in Nat
      /\ e.t.status = "waiting" /\ Seating(e) /\ AtStake(e)
  BY WholeState DEF Sound, HandOK, Event, AtStake, isTournamentTable
<1>2. Resting(e) /\ totalOf(e, SeatNos) = 0 /\ inPots(e) = 0
  BY <1>1, RestingTable, RestingIsOK
<1>3. /\ \A v \in Players : e.t.standing[v] \in {Nil, 0}
      /\ \A j \in seated(e) : e.s[j].stack = StartingStack
  BY <1>1 DEF AtStake
<1>4. e.t.standing[u] = Nil
  BY <1>1, <1>3 DEF Seating
<1>5. i \in SeatNos /\ e.s[i].user = NoPlayer /\ e.s[i].stack = 0
  BY <1>2 DEF openSeats, seated, Resting
<1>6. a \in Nat /\ a >= amount /\ e.w[u].locked = 0 /\ e.w[u] \in Purses
  BY <1>1, <1>2 DEF Purses, Resting
<1>7. u \in Players \cup {Bot} /\ u # Bot /\ u # NoPlayer /\ StartingStack \in Nat
  BY HoldemAssumption
<1>8. /\ x \in SeatRows /\ x.user = u /\ x.stack = StartingStack /\ x.committed = 0 /\ x.total = 0
      /\ x.status = "waiting"
  BY <1>7, FreshSeat
<1>9. f = syncTournamentStandings(m3)
  BY DEF sitsDown
<1> HIDE DEF x, f
<1>10. Made(m1, e.t, e.s, w, e.house, p, e.gone)
  BY <1>1, PoolDelta
<1>11. m2 = [m1 EXCEPT !.s = [m1.s EXCEPT ![i] = x]]
  BY DEF takes
<1> HIDE DEF m1, w, p
<1>12. Whole(m1) /\ m1.t = e.t /\ m1.s = e.s /\ m1.w = w /\ m1.house = e.house /\ m1.pool = p
       /\ m1.gone = e.gone
  BY <1>10 DEF Made
<1>13. m2 = [m1 EXCEPT !.s = s]
  BY <1>11, <1>12
<1> HIDE DEF m2, s
<1>14. Made(m2, m1.t, s, m1.w, m1.house, m1.pool, m1.gone)
  <2>1. Made([m1 EXCEPT !.s = s], m1.t, s, m1.w, m1.house, m1.pool, m1.gone)
    BY <1>12, PartsMade
  <2> QED
    BY <1>13, <2>1, Zenon
<1>15. Whole(m2) /\ m2.t = e.t /\ m2.s = s /\ m2.w = w /\ m2.house = e.house /\ m2.pool = p
       /\ m2.gone = e.gone
  BY <1>12, <1>14 DEF Made
<1>16. Made(m3, standRow(m2.t, u, 0), m2.s, m2.w, m2.house, m2.pool, m2.gone)
  BY <1>15, Stood
<1> HIDE DEF m3, r
<1>17. Whole(m3) /\ m3.t = r /\ m3.s = s /\ m3.w = w /\ m3.house = e.house /\ m3.pool = p
       /\ m3.gone = e.gone
  BY <1>15, <1>16 DEF Made, r
<1>18. /\ r \in TableRows /\ r.kind = e.t.kind /\ r.status = e.t.status
       /\ r.currentBet = e.t.currentBet /\ r.event = e.t.event /\ r.buyIn = e.t.buyIn
       /\ r.standing[u] = 0 /\ \A v \in Players \ {u} : r.standing[v] = e.t.standing[v]
  <2>1. PICK z \in Int : z = 0
    OBVIOUS
  <2>2. LET y == standRow(e.t, u, z)
        IN  /\ y \in TableRows /\ y.kind = e.t.kind /\ y.status = e.t.status
            /\ y.currentBet = e.t.currentBet /\ y.event = e.t.event /\ y.buyIn = e.t.buyIn
            /\ y.standing[u] = z /\ \A v \in Players \ {u} : y.standing[v] = e.t.standing[v]
    BY <1>1, StandRow
  <2> QED
    BY <2>1, <2>2 DEF r
<1>19. PICK n0 \in Nat : n0 = Cardinality(registered(e)) /\ IsFiniteSet(registered(e))
  BY SeatsOfPlayers
<1> DEFINE n == n0 + 1
<1>20. registered(m3) = registered(e) \cup {u} /\ Cardinality(registered(m3)) = n /\ n \in Nat /\ n >= 1
  <2>1. \A v : v \in registered(m3) <=> v \in registered(e) \cup {u}
    BY <1>17, <1>18 DEF registered, Nil
  <2>2. registered(m3) = registered(e) \cup {u}
    BY <2>1
  <2>3. u \notin registered(e)
    BY <1>4 DEF registered
  <2>4. Cardinality(registered(e) \cup {u}) = Cardinality(registered(e)) + 1
    BY <1>19, <2>3, FS_AddElement
  <2> QED
    BY <1>19, <2>2, <2>4
<1> HIDE DEF n
<1>21. PICK k \in 1..3 : /\ k <= n
                         /\ Made(f, withPlaces(m3.t, k), m3.s, m3.w, m3.house, m3.pool, m3.gone)
  BY <1>9, <1>17, <1>18, <1>20, SyncedPlaces
<1> DEFINE q == withPlaces(r, k)
<1>22. /\ q \in TableRows /\ q.places = k /\ q.kind = r.kind /\ q.status = r.status
       /\ q.currentBet = r.currentBet /\ q.event = r.event
       /\ q.buyIn = r.buyIn /\ q.standing = r.standing
  <2>1. k \in Nat
    BY <1>21
  <2> QED
    BY <1>18, <2>1, WithPlaces
<1>23. Whole(f) /\ f.t = q /\ f.s = s /\ f.w = w /\ f.house = e.house /\ f.pool = p /\ f.gone = e.gone
  BY <1>17, <1>21 DEF Made
<1> HIDE DEF q
<1>24. s \in [SeatNos -> SeatRows] /\ s[i] = x /\ \A j \in SeatNos \ {i} : s[j] = e.s[j]
  BY <1>1, <1>5, <1>8 DEF s
<1>25. /\ w \in [Players -> Purses] /\ w[u].free = a - amount /\ w[u].locked = e.w[u].locked
       /\ \A v \in Players \ {u} : w[v] = e.w[v]
  <2> DEFINE y == freed(e.w[u], -amount)
  <2>1. y \in Purses /\ y.free = a - amount /\ y.locked = e.w[u].locked
    BY <1>6 DEF freed, Purses
  <2>2. w = [e.w EXCEPT ![u] = y]
    BY DEF w
  <2> HIDE DEF y
  <2>3. w \in [Players -> Purses] /\ w[u] = y /\ \A v \in Players \ {u} : w[v] = e.w[v]
    BY <1>1, <2>1, <2>2
  <2> QED
    BY <2>1, <2>3
<1>26. p \in Nat /\ p = e.pool + amount
  BY <1>1 DEF p
<1>27. IsState(f)
  BY <1>1, <1>22, <1>23, <1>24, <1>25, <1>26, WholeState
<1>28. Resting(f)
  <2>1. \A v \in Players : f.w[v].locked = 0
    BY <1>2, <1>6, <1>23, <1>25 DEF Resting
  <2>2. \A j \in SeatNos : j = i \/ f.s[j] = e.s[j]
    BY <1>23, <1>24
  <2> QED
    BY <1>2, <1>7, <1>8, <1>18, <1>22, <1>23, <1>24, <1>27, <2>1, <2>2 DEF Resting
<1>29. \A v \in Players : f.t.standing[v] \in {Nil, 0}
  BY <1>3, <1>18, <1>22, <1>23
<1>30. /\ \A j \in SeatNos : j \in seated(f) <=> j \in seated(e) \/ j = i
       /\ i \notin seated(e) /\ f.s[i] = x /\ \A j \in SeatNos \ {i} : f.s[j] = e.s[j]
  BY <1>5, <1>7, <1>8, <1>23, <1>24 DEF seated
<1>31. \A j \in seated(e) : j \in SeatNos /\ e.s[j].user # u /\ e.s[j].user \in Players /\ j # i
  BY <1>30, SeatsOfPlayers DEF seated, seatsOf
<1>32. Seating(f)
  <2>1. \A j \in seated(f) : j = i \/ (j \in seated(e) /\ f.s[j] = e.s[j])
    BY <1>30 DEF seated
  <2>2. \A j \in seated(f) : f.t.standing[f.s[j].user] = 0
    BY <1>1, <1>8, <1>18, <1>22, <1>23, <1>30, <1>31, <2>1 DEF Seating
  <2>3. \A j, k2 \in seated(f) : f.s[j].user = f.s[k2].user => j = k2
    BY <1>1, <1>8, <1>30, <1>31, <2>1 DEF Seating
  <2>4. ASSUME NEW v \in Players, f.t.standing[v] = 0 PROVE seatsOf(f, v) # {}
    <3>1. CASE v = u
      BY <1>5, <1>8, <1>30, <3>1 DEF seatsOf
    <3>2. CASE v # u
      <4>1. seatsOf(e, v) # {}
        BY <1>1, <1>18, <1>22, <1>23, <2>4, <3>2 DEF Seating
      <4>2. PICK j \in SeatNos : e.s[j].user = v
        BY <4>1 DEF seatsOf
      <4>3. v # NoPlayer
        BY HoldemAssumption
      <4> QED
        BY <1>5, <1>30, <4>2, <4>3 DEF seatsOf
    <3> QED
      BY <3>1, <3>2
  <2> QED
    BY <2>2, <2>3, <2>4 DEF Seating
<1>33. \A j \in seated(f) : f.s[j].stack = StartingStack
  BY <1>3, <1>8, <1>30 DEF seated
<1>34. registered(f) = registered(m3) /\ n = Cardinality(registered(f))
  <2>1. \A v \in Players : f.t.standing[v] = Nil <=> m3.t.standing[v] = Nil
    BY <1>17, <1>22, <1>23
  <2>2. registered(f) = registered(m3)
    BY <2>1, SameRegistered
  <2> QED
    BY <1>20, <2>2
<1>35. f.pool = f.t.buyIn * n
  <2>1. e.pool = amount * n0
    BY <1>1, <1>19 DEF AtStake
  <2>2. \A y, z \in Nat : y * (z + 1) = y * z + y
    OBVIOUS
  <2> QED
    <3>1. amount * (n0 + 1) = amount * n0 + amount
      BY <2>2
    <3>2. f.pool = amount * (n0 + 1)
      BY <1>23, <1>26, <2>1, <3>1
    <3>3. f.t.buyIn = amount
      BY <1>18, <1>22, <1>23
    <3> QED
      BY <3>2, <3>3 DEF n
<1>36. stacksOf(f, SeatNos) = StartingStack * n
  <2>1. stacksOf(e, SeatNos) = StartingStack * n0
    <3>1. stacksOf(e, SeatNos) + totalOf(e, SeatNos) = StartingStack * n0
      BY <1>1, <1>19 DEF AtStake
    <3>2. stacksOf(e, SeatNos) \in Nat
      BY <1>1, ChipSums
    <3> QED
      BY <1>2, <3>1, <3>2
  <2>2. stacksOf(f, SeatNos) = stacksOf(e, SeatNos) + StartingStack - 0
    <3>1. \A j \in SeatNos : stacks(e)[j] = e.s[j].stack /\ stacks(f)[j] = f.s[j].stack
      BY DEF stacks
    <3>2. \A j \in SeatNos : stacks(e)[j] \in Int /\ stacks(f)[j] \in Int
      BY <1>1, <1>27, <3>1, RowFacts
    <3>3. \A j \in SeatNos \ {i} : stacks(f)[j] = stacks(e)[j]
      BY <1>30, <3>1
    <3>4. stacks(e)[i] = 0 /\ stacks(f)[i] = StartingStack
      BY <1>5, <1>8, <1>30, <3>1
    <3>5. SumFunctionOnSet(stacks(f), SeatNos)
            = SumFunctionOnSet(stacks(e), SeatNos) + stacks(f)[i] - stacks(e)[i]
      BY <1>5, <3>2, <3>3, SeatSumUpdate
    <3>6. /\ stacksOf(e, SeatNos) = SumFunctionOnSet(stacks(e), SeatNos)
          /\ stacksOf(f, SeatNos) = SumFunctionOnSet(stacks(f), SeatNos)
      BY <1>1, <1>27, ChipSums
    <3> QED
      BY <3>4, <3>5, <3>6
  <2>3. StartingStack * (n0 + 1) = StartingStack * n0 + StartingStack
    BY <1>7
  <2>4. StartingStack * n0 \in Nat
    BY <1>7
  <2> QED
    BY <1>7, <2>1, <2>2, <2>3, <2>4 DEF n
<1>37. worth(f) = worth(e)
  <2>1. f.w[u].free = e.w[u].free + (-amount) /\ f.pool = e.pool - (-amount) /\ -amount \in Int
    <3>1. PICK y \in Nat : y = e.w[u].free
      BY <1>6
    <3>2. PICK h \in Nat : h = e.pool
      BY <1>1
    <3>3. f.w[u].free = y - amount /\ f.pool = h + amount
      BY <1>23, <1>25, <1>26, <3>1, <3>2
    <3>4. y - amount = y + (-amount) /\ h + amount = h - (-amount) /\ -amount \in Int
      OBVIOUS
    <3> QED
      BY <3>1, <3>2, <3>3, <3>4
  <2>2. inPots(f) = 0
    BY <1>28, RestingIsOK
  <2> QED
    BY <1>1, <1>2, <1>23, <1>25, <1>27, <2>1, <2>2, PurseAndPool
<1>38. worth(f) = Funds * Cardinality(Players)
  BY <1>37 DEF Sound
<1>39. f.t.event = "registering" /\ f.t.places \in 1..3 /\ f.t.places <= n
  BY <1>18, <1>21, <1>22, <1>23
<1>40. Sound(f)
  BY <1>20, <1>28, <1>29, <1>32, <1>33, <1>34, <1>35, <1>36, <1>38, <1>39, Registering
<1>41. f.t.status = "waiting"
  BY <1>1, <1>18, <1>22, <1>23
<1> QED
  BY <1>40, <1>41 DEF f

\* Who leaves before a tournament starts gets the buy-in back.
LEMMA EntryRefunded ==
    ASSUME NEW e, Sound(e), isTournamentTable(e), e.t.event = "registering",
           NEW u \in Players, seatsOf(e, u) # {}
    PROVE  Sound(removeTournamentSeatAndRefund(e, u))
<1> DEFINE m1 == applyTournamentWithdrawableDelta(e, u, e.t.buyIn)
           m2 == empties(m1, seatsOf(e, u))
           m3 == stands(m2, u, Nil)
           f == removeTournamentSeatAndRefund(e, u)
           w == [e.w EXCEPT ![u] = freed(e.w[u], e.t.buyIn)]
           s == emptied(e, seatsOf(e, u))
           r == standRow(e.t, u, Nil)
           p == e.pool - e.t.buyIn
<1>1. /\ IsState(e) /\ Whole(e) /\ e.s \in [SeatNos -> SeatRows] /\ e.t \in TableRows
      /\ e.w \in [Players -> Purses] /\ e.house \in Int /\ e.pool \in Nat /\ e.gone \in Nat
      /\ e.t.status = "waiting" /\ Seating(e) /\ AtStake(e)
  BY WholeState DEF Sound, HandOK, Event, AtStake, isTournamentTable
<1>2. Resting(e) /\ totalOf(e, SeatNos) = 0 /\ inPots(e) = 0
  BY <1>1, RestingTable, RestingIsOK
<1>3. /\ \A v \in Players : e.t.standing[v] \in {Nil, 0}
      /\ \A j \in seated(e) : e.s[j].stack = StartingStack
  BY <1>1 DEF AtStake
<1>4. u # NoPlayer /\ u # Bot /\ StartingStack \in Nat
  BY HoldemAssumption
<1>5. PICK i \in SeatNos : /\ seatsOf(e, u) = {i} /\ e.s[i].user = u /\ i \in seated(e)
                           /\ e.t.standing[u] = 0
  <2>1. PICK i \in SeatNos : e.s[i].user = u
    BY DEF seatsOf
  <2>2. i \in seated(e)
    BY <1>4, <2>1 DEF seated
  <2>3. \A j \in seatsOf(e, u) : j = i
    BY <1>1, <1>4, <2>1, <2>2 DEF seatsOf, seated, Seating
  <2>4. seatsOf(e, u) = {i}
    BY <2>1, <2>3 DEF seatsOf
  <2>5. e.t.standing[u] = 0
    BY <1>1, <2>1, <2>2 DEF Seating
  <2> QED
    BY <2>1, <2>2, <2>4, <2>5
<1>6. PICK a \in Nat, c \in Nat, h \in Nat :
        /\ a = e.w[u].free /\ c = e.t.buyIn /\ h = e.pool /\ e.w[u].locked = 0 /\ e.w[u] \in Purses
  <2>1. e.w[u].free \in Nat /\ e.w[u].locked = 0 /\ e.w[u] \in Purses
    BY <1>1, <1>2 DEF Purses, Resting
  <2>2. e.t.buyIn \in Nat
    BY <1>1 DEF TableRows
  <2> QED
    BY <1>1, <2>1, <2>2
<1>7. PICK n0 \in Nat : n0 = Cardinality(registered(e)) /\ IsFiniteSet(registered(e))
  BY SeatsOfPlayers
<1>8. PICK n \in Nat : n0 = n + 1
  <2>1. u \in registered(e)
    BY <1>5 DEF registered, Nil
  <2>2. n0 # 0
    BY <1>7, <2>1, FS_EmptySet
  <2>3. n0 - 1 \in Nat /\ n0 = (n0 - 1) + 1
    BY <2>2
  <2> QED
    BY <2>3
<1>9. h = c * n0 /\ c * n0 = c * n + c /\ c * n \in Nat
  <2>1. \A y, z \in Nat : y * (z + 1) = y * z + y /\ y * z \in Nat
    OBVIOUS
  <2>2. e.pool = e.t.buyIn * Cardinality(registered(e))
    BY <1>1 DEF AtStake
  <2>3. h = c * n0
    BY <1>6, <1>7, <2>2
  <2>4. c * n0 = c * n + c /\ c * n \in Nat
    BY <1>8, <2>1
  <2> QED
    BY <2>3, <2>4
<1>10. Made(m1, e.t, e.s, w, e.house, p, e.gone)
  BY <1>1, PoolDelta
<1>11. m2 = [m1 EXCEPT !.s = [j \in SeatNos |-> IF j \in seatsOf(e, u) THEN noSeat ELSE m1.s[j]]]
  BY DEF empties
<1> HIDE DEF m1, w, p
<1>12. Whole(m1) /\ m1.t = e.t /\ m1.s = e.s /\ m1.w = w /\ m1.house = e.house /\ m1.pool = p
       /\ m1.gone = e.gone
  BY <1>10 DEF Made
<1>13. m2 = [m1 EXCEPT !.s = s]
  BY <1>11, <1>12 DEF emptied
<1>14. f = IF registered(m3) = {} THEN [m3 EXCEPT !.t = withPlaces(m3.t, 0)]
           ELSE syncTournamentStandings(m3)
  BY Zenon DEF removeTournamentSeatAndRefund, removeTournamentStanding, withPlaces, m1
<1>15. s \in [SeatNos -> SeatRows] /\ s[i] = noSeat /\ \A j \in SeatNos \ {i} : s[j] = e.s[j]
  <2>1. /\ s \in [SeatNos -> SeatRows]
        /\ \A j \in SeatNos : s[j] = IF j \in seatsOf(e, u) THEN noSeat ELSE e.s[j]
    BY <1>1, EmptiedRows
  <2> QED
    BY <1>5, <2>1
<1> HIDE DEF m2, s, f
<1>16. Made(m2, m1.t, s, m1.w, m1.house, m1.pool, m1.gone)
  <2>1. Made([m1 EXCEPT !.s = s], m1.t, s, m1.w, m1.house, m1.pool, m1.gone)
    BY <1>12, PartsMade
  <2> QED
    BY <1>13, <2>1, Zenon
<1>17. Whole(m2) /\ m2.t = e.t /\ m2.s = s /\ m2.w = w /\ m2.house = e.house /\ m2.pool = p
       /\ m2.gone = e.gone
  BY <1>12, <1>16 DEF Made
<1>18. Made(m3, standRow(m2.t, u, Nil), m2.s, m2.w, m2.house, m2.pool, m2.gone)
  BY <1>17, Stood
<1> HIDE DEF m3, r
<1>19. Whole(m3) /\ m3.t = r /\ m3.s = s /\ m3.w = w /\ m3.house = e.house /\ m3.pool = p
       /\ m3.gone = e.gone
  BY <1>17, <1>18 DEF Made, r
<1>20. /\ r \in TableRows /\ r.kind = e.t.kind /\ r.status = e.t.status
       /\ r.currentBet = e.t.currentBet /\ r.event = e.t.event /\ r.buyIn = e.t.buyIn
       /\ r.standing[u] = Nil /\ \A v \in Players \ {u} : r.standing[v] = e.t.standing[v]
  <2>1. PICK z \in Int : z = Nil
    BY DEF Nil
  <2>2. LET y == standRow(e.t, u, z)
        IN  /\ y \in TableRows /\ y.kind = e.t.kind /\ y.status = e.t.status
            /\ y.currentBet = e.t.currentBet /\ y.event = e.t.event /\ y.buyIn = e.t.buyIn
            /\ y.standing[u] = z /\ \A v \in Players \ {u} : y.standing[v] = e.t.standing[v]
    BY <1>1, StandRow
  <2> QED
    BY <2>1, <2>2 DEF r
<1>21. Cardinality(registered(m3)) = n
  <2>1. \A v : v \in registered(m3) <=> v \in registered(e) \ {u}
    BY <1>19, <1>20 DEF registered
  <2>2. registered(m3) = registered(e) \ {u}
    BY <2>1
  <2>3. u \in registered(e)
    BY <1>5 DEF registered, Nil
  <2>4. Cardinality(registered(e) \ {u}) = Cardinality(registered(e)) - 1
    BY <1>7, <2>3, FS_RemoveElement
  <2> QED
    BY <1>7, <1>8, <2>2, <2>4
<1>22. PICK k \in Nat : /\ Made(f, withPlaces(m3.t, k), m3.s, m3.w, m3.house, m3.pool, m3.gone)
                        /\ registered(m3) # {} => k \in 1..3 /\ k <= n
  <2>1. CASE registered(m3) = {}
    <3>1. PICK k \in Nat : k = 0
      OBVIOUS
    <3>2. f = [m3 EXCEPT !.t = withPlaces(m3.t, k)]
      BY <1>14, <2>1, <3>1
    <3>3. Made([m3 EXCEPT !.t = withPlaces(m3.t, k)], withPlaces(m3.t, k), m3.s, m3.w, m3.house,
               m3.pool, m3.gone)
      BY <1>19, PartsMade
    <3>4. Made(f, withPlaces(m3.t, k), m3.s, m3.w, m3.house, m3.pool, m3.gone)
      BY <3>2, <3>3, Zenon
    <3> QED
      BY <2>1, <3>4
  <2>2. CASE registered(m3) # {}
    <3>1. n >= 1
      <4>1. registered(m3) \in SUBSET Players /\ IsFiniteSet(Players)
        BY HoldemAssumption DEF registered
      <4>2. IsFiniteSet(registered(m3))
        BY <4>1, FS_Subset
      <4>3. n # 0
        BY <1>21, <2>2, <4>2, FS_EmptySet
      <4> QED
        BY <4>3
    <3>2. PICK k \in 1..3 :
            /\ k <= n
            /\ Made(syncTournamentStandings(m3), withPlaces(m3.t, k), m3.s, m3.w, m3.house, m3.pool,
                    m3.gone)
      BY <1>19, <1>20, <1>21, <3>1, SyncedPlaces
    <3>3. f = syncTournamentStandings(m3)
      BY <1>14, <2>2
    <3>4. k \in Nat
      OBVIOUS
    <3>5. Made(f, withPlaces(m3.t, k), m3.s, m3.w, m3.house, m3.pool, m3.gone)
      BY <3>2, <3>3, Zenon
    <3> QED
      BY <3>2, <3>4, <3>5
  <2> QED
    BY <2>1, <2>2
<1> DEFINE q == withPlaces(r, k)
<1>23. /\ q \in TableRows /\ q.places = k /\ q.kind = r.kind /\ q.status = r.status
       /\ q.currentBet = r.currentBet /\ q.event = r.event
       /\ q.buyIn = r.buyIn /\ q.standing = r.standing
  BY <1>20, WithPlaces
<1>24. Whole(f) /\ f.t = q /\ f.s = s /\ f.w = w /\ f.house = e.house /\ f.pool = p /\ f.gone = e.gone
  BY <1>19, <1>22 DEF Made
<1> HIDE DEF q
<1>25. /\ w \in [Players -> Purses] /\ w[u].free = a + c /\ w[u].locked = 0
       /\ \A v \in Players \ {u} : w[v] = e.w[v]
  <2> DEFINE y == freed(e.w[u], e.t.buyIn)
  <2>1. y = [e.w[u] EXCEPT !.free = a + c]
    BY <1>6 DEF freed
  <2>2. w = [e.w EXCEPT ![u] = y]
    BY DEF w
  <2> HIDE DEF y
  <2>3. y \in Purses /\ y.free = a + c /\ y.locked = 0
    BY <1>6, <2>1 DEF Purses
  <2>4. w \in [Players -> Purses] /\ w[u] = y /\ \A v \in Players \ {u} : w[v] = e.w[v]
    BY <1>1, <2>2, <2>3
  <2> QED
    BY <2>3, <2>4
<1>26. p = c * n /\ p = h - c /\ p \in Nat
  <2>1. p = h - c
    BY <1>6 DEF p
  <2> QED
    BY <1>9, <2>1
<1>27. IsState(f)
  BY <1>1, <1>15, <1>23, <1>24, <1>25, <1>26, WholeState
<1>28. Resting(f)
  <2>1. \A v \in Players : f.w[v].locked = 0
    BY <1>2, <1>24, <1>25 DEF Resting
  <2>2. \A j \in SeatNos : f.s[j] = noSeat \/ f.s[j] = e.s[j]
    BY <1>15, <1>24
  <2>3. NoPlayer # Bot
    BY HoldemAssumption
  <2> QED
    BY <1>2, <1>20, <1>23, <1>24, <1>27, <2>1, <2>2, <2>3, NoSeat DEF Resting
<1>29. \A v \in Players : f.t.standing[v] \in {Nil, 0}
  BY <1>3, <1>20, <1>23, <1>24
<1>30. \A j : j \in seated(f) <=> j \in seated(e) /\ j # i
  BY <1>15, <1>24, NoSeat DEF seated
<1>31. \A j \in seated(f) : /\ j \in SeatNos /\ j \in seated(e) /\ f.s[j] = e.s[j]
                            /\ e.s[j].user # u /\ e.s[j].user \in Players
  <2>1. \A j \in seated(e) : e.s[j].user \in Players /\ j \in SeatNos
    BY SeatsOfPlayers DEF seated
  <2>2. \A j \in SeatNos : j # i => e.s[j].user # u
    BY <1>5 DEF seatsOf
  <2> QED
    BY <1>15, <1>24, <1>30, <2>1, <2>2
<1>32. Seating(f)
  <2>1. \A j \in seated(f) : f.t.standing[f.s[j].user] = 0
    BY <1>1, <1>20, <1>23, <1>24, <1>31 DEF Seating
  <2>2. \A j, k2 \in seated(f) : f.s[j].user = f.s[k2].user => j = k2
    BY <1>1, <1>31 DEF Seating
  <2>3. ASSUME NEW v \in Players, f.t.standing[v] = 0 PROVE seatsOf(f, v) # {}
    <3>1. v # u
      BY <1>20, <1>23, <1>24, <2>3 DEF Nil
    <3>2. seatsOf(e, v) # {}
      BY <1>1, <1>20, <1>23, <1>24, <2>3, <3>1 DEF Seating
    <3>3. PICK j \in SeatNos : e.s[j].user = v
      BY <3>2 DEF seatsOf
    <3> QED
      BY <1>5, <1>15, <1>24, <3>1, <3>3 DEF seatsOf
  <2> QED
    BY <2>1, <2>2, <2>3 DEF Seating
<1>33. \A j \in seated(f) : f.s[j].stack = StartingStack
  BY <1>3, <1>31
<1>34. registered(f) = registered(m3) /\ n = Cardinality(registered(f))
  <2>1. \A v \in Players : f.t.standing[v] = Nil <=> m3.t.standing[v] = Nil
    BY <1>19, <1>23, <1>24
  <2>2. registered(f) = registered(m3)
    BY <2>1, SameRegistered
  <2> QED
    BY <1>21, <2>2
<1>35. f.pool = f.t.buyIn * n
  <2>1. f.t.buyIn = c
    BY <1>6, <1>20, <1>23, <1>24
  <2> QED
    BY <1>24, <1>26, <2>1
<1>36. stacksOf(f, SeatNos) = StartingStack * n
  <2>1. stacksOf(e, SeatNos) = StartingStack * n0
    <3>1. stacksOf(e, SeatNos) + totalOf(e, SeatNos) = StartingStack * n0
      BY <1>1, <1>7 DEF AtStake
    <3>2. stacksOf(e, SeatNos) \in Nat
      BY <1>1, ChipSums
    <3> QED
      BY <1>2, <3>1, <3>2
  <2>2. stacksOf(f, SeatNos) = stacksOf(e, SeatNos) + 0 - StartingStack
    <3>1. \A j \in SeatNos : stacks(e)[j] = e.s[j].stack /\ stacks(f)[j] = f.s[j].stack
      BY DEF stacks
    <3>2. \A j \in SeatNos : stacks(e)[j] \in Int /\ stacks(f)[j] \in Int
      BY <1>1, <1>27, <3>1, RowFacts
    <3>3. \A j \in SeatNos \ {i} : stacks(f)[j] = stacks(e)[j]
      BY <1>15, <1>24, <3>1
    <3>4. stacks(e)[i] = StartingStack /\ stacks(f)[i] = 0
      BY <1>3, <1>5, <1>15, <1>24, <3>1, NoSeat
    <3>5. SumFunctionOnSet(stacks(f), SeatNos)
            = SumFunctionOnSet(stacks(e), SeatNos) + stacks(f)[i] - stacks(e)[i]
      BY <3>2, <3>3, SeatSumUpdate
    <3>6. /\ stacksOf(e, SeatNos) = SumFunctionOnSet(stacks(e), SeatNos)
          /\ stacksOf(f, SeatNos) = SumFunctionOnSet(stacks(f), SeatNos)
      BY <1>1, <1>27, ChipSums
    <3> QED
      BY <3>4, <3>5, <3>6
  <2>3. \A y, z \in Nat : y * (z + 1) = y * z + y /\ y * z \in Nat
    OBVIOUS
  <2>4. StartingStack * n0 = StartingStack * n + StartingStack /\ StartingStack * n \in Nat
    BY <1>4, <1>8, <2>3
  <2> QED
    BY <1>4, <2>1, <2>2, <2>4
<1>37. worth(f) = worth(e)
  <2>1. f.w[u].free = e.w[u].free + c /\ f.pool = e.pool - c /\ f.w[u].locked = e.w[u].locked
        /\ c \in Int
    BY <1>6, <1>24, <1>25, <1>26
  <2>2. inPots(f) = 0
    BY <1>28, RestingIsOK
  <2>3. \A v \in Players \ {u} : f.w[v] = e.w[v]
    BY <1>24, <1>25
  <2> QED
    BY <1>1, <1>2, <1>24, <1>27, <2>1, <2>2, <2>3, PurseAndPool
<1>38. worth(f) = Funds * Cardinality(Players)
  BY <1>37 DEF Sound
<1>39. f.t.event = "registering" /\ (registered(f) # {} => f.t.places \in 1..3 /\ f.t.places <= n)
  BY <1>20, <1>22, <1>23, <1>24, <1>34
<1>40. Sound(f)
  BY <1>28, <1>29, <1>32, <1>33, <1>34, <1>35, <1>36, <1>38, <1>39, Registering
<1> QED
  BY <1>40 DEF f

LEMMA SitsDown ==
    ASSUME NEW e, Sound(e), e.t.kind # "none", NEW u \in Players, seatsOf(e, u) = {},
           NEW i \in openSeats(e), NEW amount \in Nat, e.w[u].free >= amount,
           isTournamentTable(e) => e.t.event = "registering" /\ amount = e.t.buyIn
    PROVE  LET f == sitsDown(e, u, i, amount)
           IN  /\ Sound(f)
               /\ isTournamentTable(e) => f.t.status = "waiting"
               /\ ~isTournamentTable(e) => f.t = e.t /\ \A j \in seated(e) : f.s[j] = e.s[j]
<1>1. CASE isTournamentTable(e)
  BY <1>1, EntryBought
<1>2. CASE ~isTournamentTable(e)
  BY <1>2, SeatBought
<1> QED
  BY <1>1, <1>2

\* A table that has just been opened.
openedRow(x, kind, amount) ==
    IF kind # "tournament" THEN [x EXCEPT !.kind = kind]
    ELSE [x EXCEPT !.kind = kind, !.event = "registering", !.buyIn = amount,
                   !.places = RequestedPlaces]

Opens(x, kind, amount, r) ==
    /\ r \in TableRows /\ r.kind = kind /\ r.status = x.status
    /\ r.currentBet = x.currentBet /\ r.standing = x.standing
    /\ kind = "tournament" => r.event = "registering" /\ r.buyIn = amount
    /\ kind # "tournament" => r.event = x.event

tableKinds == {"cash", "casual", "tournament"}

LEMMA OpenedRow ==
    ASSUME NEW x \in TableRows, NEW kind \in tableKinds, NEW amount \in Nat
    PROVE  Opens(x, kind, amount, openedRow(x, kind, amount))
<1>1. RequestedPlaces \in Nat
  BY HoldemAssumption
<1> DEFINE r == openedRow(x, kind, amount)
<1>2. CASE kind # "tournament"
  <2>1. r = [x EXCEPT !.kind = kind]
    BY <1>2 DEF openedRow
  <2> HIDE DEF r
  <2>2. r \in TableRows
    BY <2>1 DEF TableRows, tableKinds
  <2>3. r.kind = kind /\ r.status = x.status /\ r.currentBet = x.currentBet /\ r.standing = x.standing
        /\ r.event = x.event
    BY <2>1 DEF TableRows
  <2> QED
    BY <1>2, <2>2, <2>3 DEF r, Opens
<1>3. CASE kind = "tournament"
  <2>1. r = [x EXCEPT !.kind = kind, !.event = "registering", !.buyIn = amount,
                      !.places = RequestedPlaces]
    BY <1>3 DEF openedRow
  <2> HIDE DEF r
  <2>2. r \in TableRows
    BY <1>1, <2>1 DEF TableRows, tableKinds
  <2>3. r.kind = kind /\ r.status = x.status /\ r.currentBet = x.currentBet /\ r.standing = x.standing
        /\ r.event = "registering" /\ r.buyIn = amount
    BY <2>1 DEF TableRows
  <2> QED
    BY <1>3, <2>2, <2>3 DEF r, Opens
<1> QED
  BY <1>2, <1>3

openedTable(e, kind, amount) == [e EXCEPT !.t = openedRow(e.t, kind, amount)]

NewTable(e, kind, amount, f) ==
    /\ Sound(f) /\ f.t.kind = kind /\ f.t.status = "waiting" /\ f.s = e.s /\ f.w = e.w
    /\ seated(f) = {}
    /\ kind = "tournament" => f.t.event = "registering" /\ f.t.buyIn = amount

LEMMA Opened ==
    ASSUME NEW e, Sound(e), e.t.kind = "none", NEW kind \in tableKinds, NEW amount \in Nat
    PROVE  NewTable(e, kind, amount, openedTable(e, kind, amount))
<1> DEFINE r == openedRow(e.t, kind, amount)
           f == openedTable(e, kind, amount)
<1>1. /\ IsState(e) /\ Whole(e) /\ e.s \in [SeatNos -> SeatRows] /\ e.t \in TableRows
      /\ e.w \in [Players -> Purses] /\ e.house \in Int /\ e.pool \in Nat /\ e.gone \in Nat
      /\ HandRows(e) /\ Betting(e) /\ Kinds(e) /\ Turn(e) /\ Locks(e)
  BY WholeState DEF Sound, HandOK
<1>2. /\ seated(e) = {} /\ e.gone = 0 /\ e.pool = 0 /\ e.t.event = "none"
      /\ \A u \in Players : e.t.standing[u] = Nil
  BY <1>1 DEF Kinds
<1>3. e.t.status = "waiting"
  <2>1. e.t.status # "active"
    BY <1>1, <1>2 DEF Turn, listActionableSeats
  <2> QED
    BY <1>1, <2>1 DEF TableRows
<1>4. /\ r \in TableRows /\ r.kind = kind /\ r.status = e.t.status
      /\ r.currentBet = e.t.currentBet /\ r.standing = e.t.standing
      /\ kind = "tournament" => r.event = "registering" /\ r.buyIn = amount
      /\ kind # "tournament" => r.event = e.t.event
  BY <1>1, OpenedRow DEF Opens
<1>17. f = [e EXCEPT !.t = r]
  BY DEF openedTable
<1> HIDE DEF r, f
<1>5. Made(f, r, e.s, e.w, e.house, e.pool, e.gone)
  <2>1. Made([e EXCEPT !.t = r], r, e.s, e.w, e.house, e.pool, e.gone)
    BY <1>1, PartsMade
  <2> QED
    BY <1>17, <2>1, Zenon
<1>6. /\ Whole(f) /\ f.t = r /\ f.s = e.s /\ f.w = e.w /\ f.house = e.house /\ f.pool = e.pool
      /\ f.gone = e.gone
  BY <1>5 DEF Made
<1>7. IsState(f)
  BY <1>1, <1>4, <1>6, WholeState
<1>8. ASSUME NEW i \in SeatNos
      PROVE  /\ e.s[i].user = NoPlayer /\ e.s[i].stack = 0 /\ e.s[i].status = "waiting"
             /\ e.s[i].total = 0 /\ e.s[i].committed = 0
  <2>1. e.s[i].user = NoPlayer
    BY <1>2 DEF seated
  <2> QED
    BY <1>1, <2>1 DEF HandRows
<1>9. e.t.currentBet = 0 /\ NoPlayer # Bot
  BY <1>1, <1>3, HoldemAssumption DEF HandRows
<1>10. seated(f) = {}
  BY <1>6, <1>8 DEF seated
<1>11. stacksOf(e, SeatNos) = 0 /\ totalOf(e, SeatNos) = 0 /\ totalOf(f, SeatNos) = 0
       /\ stacksOf(f, SeatNos) = 0
  <2>1. totalOf(e, SeatNos) = 0
    BY <1>8, NoTotals
  <2>2. stacksOf(e, SeatNos) = 0
    <3> DEFINE d == [i \in SeatNos |-> e.s[i].stack]
    <3>1. \A i \in SeatNos : d[i] = 0
      BY <1>8
    <3>2. stacksOf(e, SeatNos) = SumFunctionOnSet(d, SeatNos)
      BY DEF stacksOf
    <3> HIDE DEF d
    <3> QED
      BY <3>1, <3>2, SeatsFinite, SumOfZeros
  <2> QED
    BY <1>6, <2>1, <2>2, SameSeats
<1>12. ASSUME NEW u \in Players PROVE f.w[u].locked = 0 /\ seatsOf(f, u) = {}
  <2>1. u # NoPlayer
    BY HoldemAssumption
  <2>2. seatsOf(f, u) = {} /\ seatsOf(e, u) = {}
    BY <1>6, <1>8, <2>1 DEF seatsOf
  <2>3. e.w[u].locked = 0
    <3>1. e.w[u].locked = stacksOf(e, seatsOf(e, u))
      BY <1>1 DEF Locks, isTournamentTable
    <3> QED
      BY <2>2, <3>1, StacksOfNone
  <2> QED
    BY <1>6, <2>2, <2>3
<1>13. worth(f) = worth(e)
  <2>1. money(f) = money(e)
    BY <1>6 DEF money
  <2> QED
    BY <1>6, <1>11, <2>1 DEF worth, inPots
<1>14. worth(f) = Funds * Cardinality(Players)
  BY <1>13 DEF Sound
<1>15. CASE kind = "tournament"
  <2>1. Resting(f)
    BY <1>2, <1>3, <1>4, <1>6, <1>7, <1>8, <1>9, <1>12, <1>15 DEF Resting
  <2>2. registered(f) = {}
    BY <1>2, <1>4, <1>6 DEF registered
  <2>3. Seating(f)
    BY <1>2, <1>4, <1>6, <1>10 DEF Seating, Nil
  <2>4. PICK n \in Nat : n = 0
    OBVIOUS
  <2>5. n = Cardinality(registered(f))
    BY <2>2, <2>4, FS_EmptySet
  <2>6. amount * n = 0 /\ StartingStack * n = 0
    <3>1. \A y \in Nat : y * 0 = 0
      OBVIOUS
    <3> QED
      BY <2>4, <3>1, HoldemAssumption
  <2>7. f.pool = f.t.buyIn * n /\ stacksOf(f, SeatNos) = StartingStack * n
    BY <1>2, <1>4, <1>6, <1>11, <1>15, <2>6
  <2>8. f.t.event = "registering" /\ \A u \in Players : f.t.standing[u] \in {Nil, 0}
    BY <1>2, <1>4, <1>6, <1>15
  <2>9. \A i \in seated(f) : f.s[i].stack = StartingStack
    BY <1>10
  <2>10. Sound(f)
    BY <1>14, <2>1, <2>2, <2>3, <2>5, <2>7, <2>8, <2>9, Registering
  <2> QED
    BY <1>3, <1>4, <1>6, <1>10, <2>10 DEF NewTable, f
<1>16. CASE kind # "tournament"
  <2>1. HandRows(f)
    BY <1>1, <1>4, <1>6 DEF HandRows
  <2>2. BetOn(f, 0)
    <3>1. \A i \in SeatNos : /\ f.s[i].total <= 0 + f.s[i].committed
                             /\ f.s[i].status = "active" => f.s[i].total = 0 + f.s[i].committed
      BY <1>6, <1>8
    <3>2. Nobody(f)
      BY <1>4, <1>6, <1>8, <1>9 DEF Nobody
    <3> QED
      BY <3>1, <3>2 DEF BetOn
  <2>3. HandOK(f)
    BY <1>7, <2>1, <2>2 DEF HandOK, Betting
  <2>4. ~isTournamentTable(f)
    BY <1>4, <1>6, <1>16 DEF isTournamentTable
  <2>5. Locks(f)
    BY <1>12, <2>4, StacksOfNone DEF Locks
  <2>6. Kinds(f)
    <3>1. bots(f) = {}
      BY <1>6, <1>8, <1>9 DEF bots, seatsOf
    <3> QED
      BY <1>2, <1>10, <1>4, <1>6, <1>16, <3>1 DEF Kinds
  <2>7. Turn(f)
    BY <1>3, <1>4, <1>6 DEF Turn
  <2>8. Sound(f)
    BY <1>14, <2>3, <2>4, <2>5, <2>6, <2>7 DEF Sound, Event, isTournamentTable
  <2> QED
    BY <1>3, <1>4, <1>6, <1>10, <1>16, <2>8 DEF NewTable, f
<1> QED
  BY <1>15, <1>16

LEMMA Amounts ==
    ASSUME NEW a \in MinBuyIn..MaxBuyIn
    PROVE  a \in Nat
<1>1. MinBuyIn \in Nat /\ MaxBuyIn \in Nat
  BY HoldemAssumption
<1> QED
  BY <1>1

-----------------------------------------------------------------------------
(* Sitting down and leaving, as transactions *)

LEMMA TableCreated ==
    ASSUME HoldemInv, NEW u \in Players, NEW kind \in tableKinds, NEW amount \in Nat,
           NEW botCount \in Nat, createHoldemTable(u, kind, amount, botCount)
    PROVE  HoldemInv'
<1> DEFINE e == loadTableState
           opened == openedTable(e, kind, amount)
           sat == sitsDown(opened, u, 0, amount)
           f == seatHoldemBots(sat, botCount, amount)
<1>1. Sound(e) /\ e.t.kind = "none" /\ e.w[u].free >= amount /\ (botCount > 0 => kind = "casual")
  BY LoadedState DEF createHoldemTable
<1>2. persisted(f)
  BY Zenon DEF createHoldemTable, openedTable, openedRow
<1> HIDE DEF e
<1>3. /\ Sound(opened) /\ opened.t.kind = kind /\ opened.t.status = "waiting" /\ opened.w = e.w
      /\ seated(opened) = {}
      /\ kind = "tournament" => opened.t.event = "registering" /\ opened.t.buyIn = amount
  BY <1>1, Opened DEF NewTable
<1> HIDE DEF opened
<1>4. /\ Sound(sat)
      /\ isTournamentTable(opened) => sat.t.status = "waiting"
      /\ ~isTournamentTable(opened) => sat.t = opened.t
  <2>1. PICK z \in openSeats(opened) : z = 0
    BY <1>3, SeatsAreFinite DEF openSeats, SeatNos
  <2>2. seatsOf(opened, u) = {}
    <3>1. u # NoPlayer
      BY HoldemAssumption
    <3> QED
      BY <1>3, <3>1 DEF seatsOf, seated
  <2>3. opened.t.kind # "none"
    BY <1>3 DEF tableKinds
  <2>4. isTournamentTable(opened) => opened.t.event = "registering" /\ amount = opened.t.buyIn
    BY <1>3 DEF isTournamentTable
  <2>5. opened.w[u].free >= amount
    BY <1>1, <1>3
  <2>6. LET d == sitsDown(opened, u, z, amount)
        IN  /\ Sound(d)
            /\ isTournamentTable(opened) => d.t.status = "waiting"
            /\ ~isTournamentTable(opened) => d.t = opened.t /\ \A j \in seated(opened) : d.s[j] = opened.s[j]
    BY <1>3, <2>2, <2>3, <2>4, <2>5, SitsDown
  <2>7. sitsDown(opened, u, z, amount) = sat
    BY <2>1
  <2> QED
    BY <2>6, <2>7
<1> HIDE DEF sat
<1>5. sat.t.status = "waiting" /\ (botCount = 0 \/ sat.t.kind = "casual")
  BY <1>1, <1>3, <1>4 DEF isTournamentTable
<1>6. Sound(f) /\ f.t = sat.t
  BY <1>4, <1>5, BotsSit
<1> HIDE DEF f
<1>7. Clocked(f)
  BY <1>5, <1>6 DEF Clocked
<1> QED
  BY <1>2, <1>6, <1>7, PersistedIsSound

LEMMA TableJoined ==
    ASSUME HoldemInv, NEW u \in Players, NEW amount \in Nat, joinHoldemTable(u, amount)
    PROVE  HoldemInv'
<1> DEFINE e == loadTableState
           joined(i) == sitsDown(e, u, i, amount)
<1>1. /\ Sound(e) /\ Clocked(e) /\ e.t.kind # "none" /\ seatsOf(e, u) = {} /\ openSeats(e) # {}
      /\ e.w[u].free >= amount
      /\ isTournamentTable(e) => e.t.event = "registering" /\ amount = e.t.buyIn
  BY LoadedState DEF joinHoldemTable
<1>2. PICK i : i = Min(openSeats(e))
  OBVIOUS
<1>3. persisted(IF isTournamentTable(e) THEN syncHoldemTurnDeadlines(joined(i)) ELSE joined(i))
  BY <1>2, Zenon DEF joinHoldemTable
<1> HIDE DEF e
<1>4. i \in openSeats(e)
  <2> DEFINE S == openSeats(e)
  <2>1. S \in SUBSET Nat /\ S # {}
    BY <1>1, SeatsAreFinite DEF openSeats
  <2> HIDE DEF S
  <2>2. Min(S) \in S
    BY <2>1, MinOfNaturals
  <2> QED
    BY <1>2, <2>2 DEF S
<1> DEFINE f == joined(i)
<1>5. /\ Sound(f)
      /\ ~isTournamentTable(e) => f.t = e.t /\ \A j \in seated(e) : f.s[j] = e.s[j]
  BY <1>1, <1>4, SitsDown
<1>6. persisted(IF isTournamentTable(e) THEN syncHoldemTurnDeadlines(f) ELSE f)
  BY <1>3
<1> HIDE DEF f
<1>7. CASE isTournamentTable(e)
  <2> DEFINE g == syncHoldemTurnDeadlines(f)
  <2>1. Sound(g) /\ Clocked(g)
    BY <1>5, SynchedIsSound
  <2>2. persisted(g)
    BY <1>6, <1>7
  <2> HIDE DEF g
  <2> QED
    BY <2>1, <2>2, PersistedIsSound
<1>8. CASE ~isTournamentTable(e)
  <2>1. e.t.status = "active" => e.t.pending \in seated(e)
    BY <1>1 DEF Sound, Turn, listActionableSeats
  <2>2. Clocked(f)
    BY <1>1, <1>5, <1>8, <2>1 DEF Clocked
  <2>3. persisted(f)
    BY <1>6, <1>8
  <2> QED
    BY <1>5, <2>2, <2>3, PersistedIsSound
<1> QED
  BY <1>7, <1>8

LEMMA BotsAdded ==
    ASSUME HoldemInv, NEW u, NEW count \in Nat, NEW amount \in Nat,
           addHoldemBots(u, count, amount)
    PROVE  HoldemInv'
<1> DEFINE e == loadTableState
           d == seatHoldemBots(e, count, amount)
           f == syncHoldemTurnDeadlines(d)
<1>1. Sound(e) /\ e.t.kind = "casual"
  BY LoadedState DEF addHoldemBots
<1>2. persisted(f)
  BY DEF addHoldemBots
<1> HIDE DEF e
<1>3. Sound(d)
  BY <1>1, BotsSit
<1> HIDE DEF d
<1>4. Sound(f) /\ Clocked(f)
  BY <1>3, SynchedIsSound
<1> HIDE DEF f
<1> QED
  BY <1>2, <1>4, PersistedIsSound

LEMMA PlayerLeaves ==
    ASSUME HoldemInv, NEW u \in Players, leaveHoldemTable(u)
    PROVE  HoldemInv'
<1> DEFINE e == loadTableState
           S == seatsOf(e, u)
           refunded == removeTournamentSeatAndRefund(e, u)
           left == removeSeatAndCashOut(e, S)
           d == botsLeaveWithLastHuman(left)
           g == [d EXCEPT !.t = left.t]
<1>1. Sound(e) /\ Clocked(e) /\ seatsOf(e, u) # {} /\ e.t = table
  BY LoadedState DEF leaveHoldemTable
<1>2. CASE isTournamentTable(e)
  <2> DEFINE f == syncHoldemTurnDeadlines(refunded)
  <2>1. e.t.event = "registering" /\ persisted(f)
    BY <1>1, <1>2 DEF leaveHoldemTable
  <2> HIDE DEF e
  <2>2. Sound(refunded)
    BY <1>1, <1>2, <2>1, EntryRefunded
  <2> HIDE DEF refunded
  <2>3. Sound(f) /\ Clocked(f)
    BY <2>2, SynchedIsSound
  <2> HIDE DEF f
  <2> QED
    BY <2>1, <2>3, PersistedIsSound
<1>3. CASE ~isTournamentTable(e)
  <2>1. (\A i \in S : canUserLeaveTable(e, i)) /\ persisted(g)
    BY <1>3, Zenon DEF leaveHoldemTable
  <2> HIDE DEF e
  <2>2. S \in SUBSET humans(e)
    <3>1. u # NoPlayer /\ u # Bot
      BY HoldemAssumption
    <3> QED
      BY <3>1 DEF seatsOf, humans, seated
  <2>3. \A i \in S : e.s[i].status = "waiting"
    <3>1. IsState(e) /\ HandRows(e)
      BY <1>1 DEF Sound, HandOK
    <3>2. \A i \in S : i \in SeatNos
      BY DEF seatsOf
    <3>3. \A i \in S : ~(e.t.status = "active" /\ isSeatInHand(e.s[i]))
      BY <2>1 DEF canUserLeaveTable
    <3>4. \A i \in SeatNos : e.s[i].status \in {"waiting", "active", "folded", "all_in"}
      BY <3>1, RowFacts
    <3>5. e.t.status \in {"waiting", "active"}
      BY <3>1, RowFacts
    <3> QED
      BY <3>1, <3>2, <3>3, <3>4, <3>5 DEF isSeatInHand, HandRows
  <2> HIDE DEF S
  <2>4. Sound(left) /\ Keeps(e, left) /\ \A i \in SeatNos \ S : left.s[i] = e.s[i]
    BY <1>1, <1>3, <2>2, <2>3, CashedOut
  <2> HIDE DEF left
  <2>5. Sound(d) /\ Keeps(left, d)
    BY <2>4, BotsLeave
  <2>6. left.t.status = "active" => d = left
    BY <2>4 DEF Sound, Turn, botsLeaveWithLastHuman
  <2> HIDE DEF d
  <2>7. /\ Whole(g) /\ g.t = left.t /\ g.s = d.s /\ g.w = d.w /\ g.house = d.house
        /\ g.pool = d.pool /\ g.gone = d.gone
    <3>1. Whole(d)
      BY <2>5, WholeState DEF Sound, HandOK
    <3>2. Made(g, left.t, d.s, d.w, d.house, d.pool, d.gone)
      BY <3>1, PartsMade
    <3> HIDE DEF g
    <3> QED
      BY <3>2 DEF Made
  <2> HIDE DEF g
  <2>8. IsState(g)
    <3>1. IsState(d) /\ IsState(left)
      BY <2>4, <2>5 DEF Sound, HandOK
    <3> QED
      BY <2>7, <3>1, WholeState
  <2>9. Looks(d, g)
    BY <2>5, <2>7, <2>8 DEF Looks, Keeps
  <2>10. Sound(g)
    BY <2>5, <2>9, LooksSound
  <2>11. Clocked(g)
    <3> SUFFICES ASSUME left.t.status = "active" PROVE left.s[left.t.pending].clock # "none"
      BY <2>6, <2>7 DEF Clocked
    <3>1. e.t.status = "active" /\ left.t.pending = e.t.pending
      BY <2>4 DEF Keeps
    <3>2. e.t.pending \in SeatNos /\ e.s[e.t.pending].status = "active"
      BY <1>1, <3>1 DEF Sound, Turn, listActionableSeats, seated
    <3>3. e.t.pending \in SeatNos \ S
      BY <2>3, <3>2
    <3> QED
      BY <1>1, <2>4, <3>1, <3>3 DEF Clocked
  <2> QED
    BY <2>1, <2>10, <2>11, PersistedIsSound
<1> QED
  BY <1>2, <1>3

-----------------------------------------------------------------------------
(* The invariant holds *)

LEMMA TableStartsSound ==
    ASSUME HoldemInit
    PROVE  HoldemInv
<1> DEFINE e == loadTableState
<1>1. /\ e.t = noTable /\ e.s = [i \in SeatNos |-> noSeat]
      /\ e.w = [u \in Players |-> [free |-> Funds, locked |-> 0]]
      /\ e.house = 0 /\ e.pool = 0 /\ e.gone = 0 /\ Whole(e)
  BY DEF HoldemInit, loadTableState, Whole, StateOf
<1> HIDE DEF e
<1>2. /\ noTable \in TableRows /\ noTable.kind = "none" /\ noTable.status = "waiting"
      /\ noTable.currentBet = 0 /\ noTable.event = "none"
      /\ \A u \in Players : noTable.standing[u] = Nil
  <2>1. noTable \in TableRows
    <3>1. MaxHands \in Nat
      BY HoldemAssumption
    <3> QED
      BY <3>1 DEF noTable, TableRows, Nil
  <2> QED
    BY <2>1 DEF noTable
<1>3. \A i \in SeatNos : /\ e.s[i] \in SeatRows /\ e.s[i].user = NoPlayer /\ e.s[i].stack = 0
                         /\ e.s[i].committed = 0 /\ e.s[i].total = 0 /\ e.s[i].status = "waiting"
  BY <1>1, NoSeat
<1>4. Funds \in Nat
  BY HoldemAssumption
<1>5. \A u \in Players : /\ e.w[u] \in Purses /\ e.w[u].free = Funds /\ e.w[u].locked = 0
  BY <1>1, <1>4 DEF Purses
<1>6. IsState(e)
  <2>1. e.s \in [SeatNos -> SeatRows]
    BY <1>1, <1>3
  <2>2. e.w \in [Players -> Purses]
    BY <1>1, <1>5
  <2> QED
    BY <1>1, <1>2, <2>1, <2>2, WholeState
<1>7. seated(e) = {}
  BY <1>3 DEF seated
<1>8. \A u \in Players \cup {Bot} : seatsOf(e, u) = {}
  <2>1. \A u \in Players \cup {Bot} : u # NoPlayer
    BY HoldemAssumption
  <2> QED
    BY <1>3, <2>1 DEF seatsOf
<1>9. HandOK(e)
  <2>1. HandRows(e)
    BY <1>1, <1>2, <1>3 DEF HandRows
  <2>2. Nobody(e)
    BY <1>1, <1>2, <1>3 DEF Nobody
  <2>3. BetOn(e, 0)
    BY <1>3, <2>2 DEF BetOn
  <2> QED
    BY <1>6, <2>1, <2>3 DEF HandOK, Betting
<1>10. ~isTournamentTable(e)
  BY <1>1, <1>2 DEF isTournamentTable
<1>11. Locks(e)
  BY <1>5, <1>8, <1>10, StacksOfNone DEF Locks
<1>12. Kinds(e)
  BY <1>1, <1>2, <1>7, <1>8 DEF Kinds, bots
<1>13. Turn(e) /\ Clocked(e)
  BY <1>1, <1>2 DEF Turn, Clocked
<1>14. worth(e) = Funds * Cardinality(Players)
  <2> DEFINE d == [u \in Players |-> e.w[u].free + e.w[u].locked]
  <2>1. \A u \in Players : d[u] = Funds
    BY <1>4, <1>5
  <2>2. money(e) = SumFunctionOnSet(d, Players)
    BY DEF money
  <2> HIDE DEF d
  <2>6. PICK c \in Int : c = Funds
    BY <1>4
  <2>7. IsFiniteSet(Players) /\ \A u \in Players : d[u] = c
    BY <2>1, <2>6, HoldemAssumption
  <2>8. SumFunctionOnSet(d, Players) = Cardinality(Players) * c
    BY <2>7, SumOfConstant
  <2>9. PICK n \in Nat : n = Cardinality(Players)
    BY <2>7, FS_CardinalityType
  <2>3. money(e) = Funds * Cardinality(Players)
    <3>1. n * c = c * n
      OBVIOUS
    <3> QED
      BY <2>2, <2>6, <2>8, <2>9, <3>1
  <2>4. inPots(e) = 0
    BY <1>3, <1>10, NoTotals DEF inPots
  <2>5. money(e) \in Int
    BY <1>6, MoneyIsInt
  <2> QED
    BY <1>1, <2>3, <2>4, <2>5 DEF worth
<1> QED
  BY <1>1, <1>2, <1>9, <1>10, <1>11, <1>12, <1>13, <1>14
  DEF HoldemInv, Sound, Event, isTournamentTable, e

LEMMA TableStaysSound ==
    ASSUME HoldemInv, [HoldemNext]_holdemVars
    PROVE  HoldemInv'
<1>1. CASE UNCHANGED holdemVars
  <2>1. loadTableState' = loadTableState
    BY <1>1 DEF holdemVars, loadTableState
  <2> DEFINE e == loadTableState
             f == loadTableState'
  <2>2. f = e /\ Sound(e) /\ Clocked(e)
    BY <2>1 DEF HoldemInv
  <2> HIDE DEF e, f
  <2>3. Sound(f) /\ Clocked(f)
    BY <2>2
  <2> QED
    BY <2>3 DEF HoldemInv, f
<1>2. ASSUME NEW u \in Players,
             NEW kind \in {"cash", "casual", "tournament"}, NEW a \in MinBuyIn..MaxBuyIn,
             NEW n \in 0..SeatCount, createHoldemTable(u, kind, a, n)
      PROVE  HoldemInv'
  <2>1. n \in Nat /\ kind \in tableKinds
    BY SeatsAreFinite DEF tableKinds
  <2> QED
    BY <1>2, <2>1, Amounts, TableCreated
<1>3. ASSUME NEW u \in Players, NEW a \in MinBuyIn..MaxBuyIn, joinHoldemTable(u, a)
      PROVE  HoldemInv'
  BY <1>3, Amounts, TableJoined
<1>4. ASSUME NEW u \in Players, NEW a \in MinBuyIn..MaxBuyIn, NEW n \in 1..SeatCount,
             addHoldemBots(u, n, a)
      PROVE  HoldemInv'
  <2>1. n \in Nat
    BY SeatsAreFinite
  <2> QED
    BY <1>4, <2>1, Amounts, BotsAdded
<1>5. ASSUME NEW u \in Players, leaveHoldemTable(u) PROVE HoldemInv'
  BY <1>5, PlayerLeaves
<1>6. ASSUME NEW u \in Players, startHoldemTableHand(u) PROVE HoldemInv'
  BY <1>6, HandStarts
<1>7. ASSUME NEW u \in Players, NEW move \in offeredMoves, actOnHoldem(u, move) PROVE HoldemInv'
  BY <1>7, PlayersMove
<1>8. ASSUME NEW u \in Players, touchHoldemSeatPresence(u) PROVE HoldemInv'
  BY <1>8, Touches
<1>9. ASSUME NEW u \in Players, NEW out \in BOOLEAN, setHoldemSeatMode(u, out) PROVE HoldemInv'
  BY <1>9, SitsOutOrIn
<1>10. CASE runAutomatedHoldemBotTurns
  BY <1>10, BotsMove
<1>11. CASE processExpiredHoldemTurnForTable
  BY <1>11, TimesOut
<1>12. CASE processExpiredHoldemPresenceForTable
  BY <1>12, PresenceExpires
<1>13. ASSUME NEW i \in SeatNos, turnTimeRunsOut(i) \/ graceRunsOut(i) \/ leaseRunsOut(i)
       PROVE  HoldemInv'
  BY <1>13, TimePasses
<1> QED
  BY <1>1, <1>2, <1>3, <1>4, <1>5, <1>6, <1>7, <1>8, <1>9, <1>10, <1>11, <1>12, <1>13
  DEF HoldemNext

(***************************************************************************)
(* A hold'em table's rows keep their types, no stack, bet or balance falls *)
(* below zero, and a hand that goes on waits for a seat that can act and   *)
(* whose clock was started (HoldemTypeOK: resolveTerminalAndStreet-        *)
(* Progression, syncHoldemTurnDeadlines).                                  *)
(***************************************************************************)
THEOREM TableTypeCorrect == HoldemSpec => []HoldemTypeOK
<1>1. HoldemInv => HoldemTypeOK
  <2> SUFFICES ASSUME HoldemInv PROVE HoldemTypeOK
    OBVIOUS
  <2> DEFINE e == loadTableState
  <2>1. /\ Sound(e) /\ Clocked(e) /\ e.t = table /\ e.s = seats /\ e.w = purse /\ e.pool = prizePool
    BY LoadedState
  <2> HIDE DEF e
  <2>2. IsState(e) /\ Turn(e)
    BY <2>1 DEF Sound, HandOK
  <2>3. /\ table.kind \in {"none", "cash", "casual", "tournament"} /\ table.status \in {"waiting", "active"}
        /\ table.board \in {0, 3, 4, 5} /\ table.acted \subseteq SeatNos /\ table.hands \in 0..MaxHands
        /\ \A i \in SeatNos :
            /\ seats[i].stack \in Nat /\ seats[i].committed \in Nat /\ seats[i].total \in Nat
            /\ seats[i].status \in {"waiting", "active", "folded", "all_in"}
    BY <2>1, <2>2, RowFacts
  <2>4. table.event \in {"none", "registering", "running", "completed"}
    <3>1. e.t \in TableRows
      BY <2>2, WholeState
    <3> QED
      BY <2>1, <3>1 DEF TableRows
  <2>5. prizePool \in Nat /\ \A u \in Players : purse[u].free \in Nat /\ purse[u].locked \in Nat
    <3>1. e.w \in [Players -> Purses] /\ e.pool \in Nat
      BY <2>2, WholeState
    <3> QED
      BY <2>1, <3>1 DEF Purses
  <2>6. table.status = "active" =>
          table.pending \in listActionableSeats(e) /\ seats[table.pending].clock # "none"
    BY <2>1, <2>2 DEF Turn, Clocked
  <2> QED
    BY <2>3, <2>4, <2>5, <2>6 DEF HoldemTypeOK, e
<1> QED
  BY <1>1, TableStartsSound, TableStaysSound, PTL DEF HoldemSpec

(***************************************************************************)
(* Money neither appears nor disappears at a hold'em table, with any       *)
(* number of players, seats and chips and any rake up to the whole pot:    *)
(* what is locked for a player is the player's stack, and a tournament     *)
(* pays out exactly what was bought in (TableMoneyKept: persistHoldem-     *)
(* Transition and its settlements, cash-outs and payouts).                 *)
(***************************************************************************)
THEOREM TableMoneyAlwaysKept == HoldemSpec => []TableMoneyKept
<1>1. HoldemInv => TableMoneyKept
  <2> SUFFICES ASSUME HoldemInv PROVE TableMoneyKept
    OBVIOUS
  <2> DEFINE e == loadTableState
             entries == IF table.event = "completed" THEN 0 ELSE Cardinality(registered(e))
             inPot == IF isTournamentTable(e) THEN 0 ELSE totalOf(e, SeatNos)
  <2>1. /\ Sound(e) /\ e.t = table /\ e.w = purse /\ e.house = bankroll
        /\ e.pool = prizePool /\ e.gone = vanished
    BY LoadedState
  <2> HIDE DEF e
  <2>2. IsState(e) /\ HandRows(e) /\ Locks(e) /\ Event(e)
    BY <2>1 DEF Sound, HandOK
  <2>3. moneyOfPlayers + bankroll + prizePool + inPot + vanished = Funds * Cardinality(Players)
    <3>1. money(e) = moneyOfPlayers
      BY <2>1 DEF money, moneyOfPlayers
    <3>2. inPots(e) = inPot
      BY DEF inPots
    <3> QED
      BY <2>1, <3>1, <3>2 DEF Sound, worth
  <2>4. \A u \in Players :
          purse[u].locked = IF isTournamentTable(e) THEN 0 ELSE stacksOf(e, seatsOf(e, u))
    BY <2>1, <2>2 DEF Locks
  <2>5. ASSUME isTournamentTable(e)
        PROVE  /\ prizePool = table.buyIn * entries
               /\ stacksOf(e, SeatNos) + totalOf(e, SeatNos) = StartingStack * entries
    <3>1. AtStake(e)
      BY <2>2, <2>5 DEF Event, isTournamentTable
    <3>2. CASE table.event # "completed"
      BY <2>1, <3>1, <3>2 DEF AtStake
    <3>3. CASE table.event = "completed"
      <4>1. seated(e) = {} /\ prizePool = 0
        BY <2>1, <3>1, <3>3 DEF AtStake
      <4>2. \A i \in SeatNos : e.s[i].stack = 0 /\ e.s[i].total = 0
        BY <2>2, <4>1 DEF HandRows, seated
      <4>3. totalOf(e, SeatNos) = 0
        BY <4>2, NoTotals
      <4>4. stacksOf(e, SeatNos) = 0
        <5> DEFINE d == [i \in SeatNos |-> e.s[i].stack]
        <5>1. \A i \in SeatNos : d[i] = 0
          BY <4>2
        <5>2. stacksOf(e, SeatNos) = SumFunctionOnSet(d, SeatNos)
          BY DEF stacksOf
        <5> HIDE DEF d
        <5> QED
          BY <5>1, <5>2, SeatsFinite, SumOfZeros
      <4>5. entries = 0
        BY <3>3
      <4>6. table.buyIn * 0 = 0 /\ StartingStack * 0 = 0
        <5>1. table.buyIn \in Nat
          <6>1. e.t \in TableRows
            BY <2>2, WholeState
          <6> QED
            BY <2>1, <6>1 DEF TableRows
        <5>2. \A y \in Nat : y * 0 = 0
          OBVIOUS
        <5> QED
          BY <5>1, <5>2, HoldemAssumption
      <4> QED
        BY <4>1, <4>3, <4>4, <4>5, <4>6
    <3> QED
      BY <3>2, <3>3
  <2> QED
    BY <2>3, <2>4, <2>5 DEF TableMoneyKept, e
<1> QED
  BY <1>1, TableStartsSound, TableStaysSound, PTL DEF HoldemSpec
=============================================================================
