----------------------------- MODULE SumTheorems -----------------------------
(***************************************************************************)
(* Facts about the library's operators that the proofs about the           *)
(* components need: the greatest element of a bounded set of naturals, and *)
(* finite sums.  A sum is the library's SumFunctionOnSet(f, S), which picks*)
(* the elements of S one after the other; the facts say that the order     *)
(* does not matter.  Each induction is a search for the smallest natural   *)
(* that refutes the claim.                                                 *)
(***************************************************************************)
EXTENDS Integers, FiniteSets, FiniteSetsExt, FiniteSetTheorems, WellFoundedInduction, TLAPS

LEMMA SmallestNaturalOf ==
    ASSUME NEW S \in SUBSET Nat, S # {}
    PROVE  \E n \in S : \A m \in S : n <= m
<1>1. PICK n \in S : \A m \in S : ~(<<m, n>> \in OpToRel(<, Nat))
  BY NatLessThanWellFounded, WFMin
<1>2. \A m \in S : ~(m < n)
  BY <1>1 DEF OpToRel
<1> QED
  BY <1>2

\* Max returns the greatest element of a bounded set.
LEMMA MaxOfNaturals ==
    ASSUME NEW k \in Nat, NEW S \in SUBSET (0..k), NEW s \in S
    PROVE  Max(S) \in S /\ \A m \in S : Max(S) >= m
<1> DEFINE T == {t \in 0..k : k - t \in S}
<1>1. \A n \in S : k - n \in T
  OBVIOUS
<1>2. T \in SUBSET Nat /\ T # {}
  <2>1. k - s \in T /\ T \subseteq Nat
    BY <1>1
  <2> HIDE DEF T
  <2> QED
    BY <2>1
<1>3. PICK t \in T : \A m \in T : t <= m
  BY <1>2, SmallestNaturalOf
<1>4. k - t \in S /\ \A m \in S : k - t >= m
  BY <1>1, <1>3
<1> QED
  BY <1>4 DEF Max

\* Min returns the least element of a set of naturals.
LEMMA MinOfNaturals ==
    ASSUME NEW S \in SUBSET Nat, S # {}
    PROVE  Min(S) \in S /\ \A m \in S : Min(S) <= m
<1>1. \E n \in S : \A m \in S : n <= m
  BY SmallestNaturalOf
<1> QED
  BY <1>1 DEF Min

-----------------------------------------------------------------------------
\* The element the library picks.
someOf(s) == CHOOSE x \in s : TRUE

\* g sums f over every set of the family D.
IsSum(g, f, D) ==
    g = [s \in D |-> IF s = {} THEN 0 ELSE f[someOf(s)] + g[s \ {someOf(s)}]]

\* The parts of S with at most n elements.
partsUpTo(S, n) == {s \in SUBSET S : Cardinality(s) <= n}

LEMMA SumDef ==
    ASSUME NEW f, NEW S
    PROVE  SumFunctionOnSet(f, S) = (CHOOSE g : IsSum(g, f, SUBSET S))[S]
  BY DEF SumFunctionOnSet, FoldFunctionOnSet, MapThenFoldSet, IsSum, someOf

LEMMA PartFacts ==
    ASSUME NEW S, IsFiniteSet(S), NEW s \in SUBSET S
    PROVE  /\ IsFiniteSet(s)
           /\ Cardinality(s) \in Nat
           /\ Cardinality(s) = 0 <=> s = {}
           /\ Cardinality(s) <= Cardinality(S)
           /\ \A x \in s : s \ {x} \in SUBSET S /\ Cardinality(s \ {x}) = Cardinality(s) - 1
           /\ s # {} => someOf(s) \in s
<1>1. IsFiniteSet(s) /\ Cardinality(s) <= Cardinality(S)
  BY FS_Subset
<1>2. Cardinality(s) \in Nat
  BY <1>1, FS_CardinalityType
<1>3. Cardinality(s) = 0 <=> s = {}
  BY <1>1, FS_EmptySet
<1>4. \A x \in s : Cardinality(s \ {x}) = Cardinality(s) - 1
  BY <1>1, FS_RemoveElement
<1>5. s # {} => someOf(s) \in s
  BY DEF someOf
<1> QED
  BY <1>1, <1>2, <1>3, <1>4, <1>5

LEMMA SumToLevel ==
    ASSUME NEW f, NEW S, IsFiniteSet(S), NEW n \in Nat
    PROVE  \E g : IsSum(g, f, partsUpTo(S, n))
<1> DEFINE bad == {k \in Nat : ~ \E g : IsSum(g, f, partsUpTo(S, k))}
<1> SUFFICES ASSUME bad # {} PROVE FALSE
  OBVIOUS
<1>1. PICK k \in bad : \A m \in bad : k <= m
  BY SmallestNaturalOf
<1>2. CASE k = 0
  <2> DEFINE g == [s \in partsUpTo(S, 0) |-> 0]
  <2>1. \A s \in partsUpTo(S, 0) : s = {}
    BY PartFacts DEF partsUpTo
  <2>2. IsSum(g, f, partsUpTo(S, 0))
    BY <2>1 DEF IsSum
  <2> QED
    BY <1>2, <2>2
<1>3. CASE k # 0
  <2>1. k - 1 \in Nat /\ k - 1 \notin bad
    BY <1>1, <1>3
  <2>2. PICK g : IsSum(g, f, partsUpTo(S, k - 1))
    BY <2>1
  <2> DEFINE h == [s \in partsUpTo(S, k) |-> IF s = {} THEN 0 ELSE f[someOf(s)] + g[s \ {someOf(s)}]]
  <2>3. \A s \in partsUpTo(S, k) : s # {} => s \ {someOf(s)} \in partsUpTo(S, k - 1)
    BY <2>1, PartFacts DEF partsUpTo
  <2>4. \A s \in partsUpTo(S, k - 1) : s \in partsUpTo(S, k)
    BY <2>1, PartFacts DEF partsUpTo
  <2>5. \A s \in partsUpTo(S, k - 1) : h[s] = g[s]
    <3> TAKE s \in partsUpTo(S, k - 1)
    <3>1. h[s] = IF s = {} THEN 0 ELSE f[someOf(s)] + g[s \ {someOf(s)}]
      BY <2>4
    <3>2. g[s] = IF s = {} THEN 0 ELSE f[someOf(s)] + g[s \ {someOf(s)}]
      BY <2>2 DEF IsSum
    <3> QED
      BY <3>1, <3>2
  <2>6. \A s \in partsUpTo(S, k) :
            (IF s = {} THEN 0 ELSE f[someOf(s)] + g[s \ {someOf(s)}])
                = (IF s = {} THEN 0 ELSE f[someOf(s)] + h[s \ {someOf(s)}])
    BY <2>3, <2>5
  <2>7. h = [s \in partsUpTo(S, k) |-> IF s = {} THEN 0 ELSE f[someOf(s)] + h[s \ {someOf(s)}]]
    BY <2>6
  <2>8. IsSum(h, f, partsUpTo(S, k))
    BY <2>7 DEF IsSum
  <2> QED
    BY <1>1, <2>8
<1> QED
  BY <1>2, <1>3

LEMMA SumIsDefined ==
    ASSUME NEW f, NEW S, IsFiniteSet(S)
    PROVE  IsSum(CHOOSE g : IsSum(g, f, SUBSET S), f, SUBSET S)
<1>1. partsUpTo(S, Cardinality(S)) = SUBSET S
  BY PartFacts DEF partsUpTo
<1>2. Cardinality(S) \in Nat
  BY FS_CardinalityType
<1>3. \E g : IsSum(g, f, partsUpTo(S, Cardinality(S)))
  BY <1>2, SumToLevel
<1>4. \E g : IsSum(g, f, SUBSET S)
  BY <1>1, <1>3, Zenon
<1> QED
  BY <1>4

\* The sum over a part is the same whichever whole it is part of.
LEMMA SumIsUnique ==
    ASSUME NEW f, NEW S, IsFiniteSet(S)
    PROVE  \A T \in SUBSET S : \A g, h :
                IsSum(g, f, SUBSET S) /\ IsSum(h, f, SUBSET T) => g[T] = h[T]
<1> SUFFICES ASSUME NEW T \in SUBSET S,
                    NEW g, NEW h, IsSum(g, f, SUBSET S), IsSum(h, f, SUBSET T)
             PROVE  g[T] = h[T]
  OBVIOUS
<1> DEFINE bad == {k \in Nat : \E s \in SUBSET T : Cardinality(s) = k /\ g[s] # h[s]}
<1>1. bad = {}
  <2> SUFFICES ASSUME bad # {} PROVE FALSE
    OBVIOUS
  <2>1. PICK k \in bad : \A m \in bad : k <= m
    BY SmallestNaturalOf
  <2>2. PICK s \in SUBSET T : Cardinality(s) = k /\ g[s] # h[s]
    BY <2>1
  <2> DEFINE r == s \ {someOf(s)}
  <2>3. /\ g[s] = IF s = {} THEN 0 ELSE f[someOf(s)] + g[r]
        /\ h[s] = IF s = {} THEN 0 ELSE f[someOf(s)] + h[r]
    BY <2>2 DEF IsSum
  <2>4. s # {} /\ g[r] # h[r]
    BY <2>2, <2>3
  <2>5. r \in SUBSET T /\ Cardinality(r) = k - 1 /\ k - 1 \in Nat
    <3>1. s \in SUBSET S
      OBVIOUS
    <3> QED
      BY <2>2, <2>4, <3>1, PartFacts
  <2>6. k - 1 \in bad
    BY <2>4, <2>5
  <2> QED
    BY <2>1, <2>5, <2>6
<1>2. Cardinality(T) \in Nat
  BY PartFacts
<1> QED
  BY <1>1, <1>2

LEMMA SumStep ==
    ASSUME NEW f, NEW S, IsFiniteSet(S)
    PROVE  SumFunctionOnSet(f, S) =
               IF S = {} THEN 0 ELSE f[someOf(S)] + SumFunctionOnSet(f, S \ {someOf(S)})
<1> DEFINE R == S \ {someOf(S)}
           g == CHOOSE u : IsSum(u, f, SUBSET S)
           h == CHOOSE u : IsSum(u, f, SUBSET R)
<1>1. IsFiniteSet(R) /\ R \in SUBSET S
  BY FS_Subset
<1>2. IsSum(g, f, SUBSET S) /\ IsSum(h, f, SUBSET R)
  BY <1>1, SumIsDefined
<1>3. SumFunctionOnSet(f, S) = g[S] /\ SumFunctionOnSet(f, R) = h[R]
  BY SumDef
<1> HIDE DEF g, h, R
<1>4. g[R] = h[R]
  <2>1. R \in SUBSET S
    BY <1>1
  <2>2. IsSum(g, f, SUBSET S)
    BY <1>2
  <2>3. IsSum(h, f, SUBSET R)
    BY <1>2
  <2>4. \A T \in SUBSET S : \A u, v :
            IsSum(u, f, SUBSET S) /\ IsSum(v, f, SUBSET T) => u[T] = v[T]
    BY SumIsUnique
  <2> QED
    BY <2>1, <2>2, <2>3, <2>4
<1>5. g[S] = IF S = {} THEN 0 ELSE f[someOf(S)] + g[R]
  BY <1>2 DEF IsSum, R
<1> QED
  BY <1>3, <1>4, <1>5 DEF R

-----------------------------------------------------------------------------
LEMMA SumOfNone ==
    ASSUME NEW f
    PROVE  SumFunctionOnSet(f, {}) = 0
  BY SumStep, FS_EmptySet

LEMMA SumIsInt ==
    ASSUME NEW f, NEW S, IsFiniteSet(S), \A x \in S : f[x] \in Int
    PROVE  SumFunctionOnSet(f, S) \in Int
<1> DEFINE bad == {k \in Nat : \E s \in SUBSET S :
                        Cardinality(s) = k /\ SumFunctionOnSet(f, s) \notin Int}
<1>1. bad = {}
  <2> SUFFICES ASSUME bad # {} PROVE FALSE
    OBVIOUS
  <2>1. PICK k \in bad : \A m \in bad : k <= m
    BY SmallestNaturalOf
  <2>2. PICK s \in SUBSET S : Cardinality(s) = k /\ SumFunctionOnSet(f, s) \notin Int
    BY <2>1
  <2> DEFINE r == s \ {someOf(s)}
  <2>3. SumFunctionOnSet(f, s) = IF s = {} THEN 0 ELSE f[someOf(s)] + SumFunctionOnSet(f, r)
    BY PartFacts, SumStep
  <2>4. s # {} /\ someOf(s) \in S /\ SumFunctionOnSet(f, r) \notin Int
    BY <2>2, <2>3, PartFacts
  <2>5. r \in SUBSET S /\ Cardinality(r) = k - 1 /\ k - 1 \in Nat
    BY <2>2, <2>4, PartFacts
  <2>6. k - 1 \in bad
    BY <2>4, <2>5
  <2> QED
    BY <2>1, <2>5, <2>6
<1>2. Cardinality(S) \in Nat
  BY FS_CardinalityType
<1> QED
  BY <1>1, <1>2

(***************************************************************************)
(* Any element may be taken out first.                                     *)
(***************************************************************************)
LEMMA SumWithout ==
    ASSUME NEW f, NEW S, IsFiniteSet(S), \A x \in S : f[x] \in Int, NEW x \in S
    PROVE  SumFunctionOnSet(f, S) = f[x] + SumFunctionOnSet(f, S \ {x})
<1> DEFINE sum(s) == SumFunctionOnSet(f, s)
           bad == {k \in Nat : \E s \in SUBSET S : \E y \in s :
                        Cardinality(s) = k /\ sum(s) # f[y] + sum(s \ {y})}
<1>0. \A s \in SUBSET S : sum(s) \in Int
  BY SumIsInt, PartFacts
<1>1. bad = {}
  <2> SUFFICES ASSUME bad # {} PROVE FALSE
    OBVIOUS
  <2>1. PICK k \in bad : \A m \in bad : k <= m
    BY SmallestNaturalOf
  <2>2. PICK s \in SUBSET S, y \in S :
            y \in s /\ Cardinality(s) = k /\ sum(s) # f[y] + sum(s \ {y})
    BY <2>1
  <2> DEFINE z == someOf(s)
             rest == (s \ {z}) \ {y}
  <2>3. z \in s /\ IsFiniteSet(s)
    BY <2>2, PartFacts
  <2>4. sum(s) = f[z] + sum(s \ {z})
    BY <2>3, SumStep
  <2> HIDE DEF z
  <2>0. k \in Nat
    OBVIOUS
  <2>5. y # z
    BY <2>2, <2>4
  <2>6. /\ s \ {y} \in SUBSET S /\ s \ {z} \in SUBSET S
        /\ Cardinality(s \ {y}) = k - 1 /\ Cardinality(s \ {z}) = k - 1
        /\ k - 1 \in Nat
    <3>1. Cardinality(s) # 0
      BY <2>3, PartFacts
    <3> QED
      BY <2>2, <2>3, <3>1, PartFacts
  <2>7. k - 1 \notin bad
    <3> HIDE DEF bad
    <3> QED
      BY <2>0, <2>1, <2>6
  <2>8. \A t \in SUBSET S : \A v \in t : Cardinality(t) = k - 1 => sum(t) = f[v] + sum(t \ {v})
    BY <2>6, <2>7
  <2> HIDE DEF bad, sum
  <2>9. sum(s \ {z}) = f[y] + sum(rest)
    BY <2>2, <2>5, <2>6, <2>8
  <2>10. sum(s \ {y}) = f[z] + sum(rest)
    <3>1. (s \ {y}) \ {z} = rest
      OBVIOUS
    <3> QED
      BY <2>3, <2>5, <2>6, <2>8, <3>1
  <2>11. f[y] \in Int /\ f[z] \in Int /\ sum(rest) \in Int
    BY <1>0, <2>3
  <2> QED
    BY <2>2, <2>4, <2>9, <2>10, <2>11
<1>2. Cardinality(S) \in Nat
  BY FS_CardinalityType
<1> QED
  BY <1>1, <1>2

LEMMA SumWith ==
    ASSUME NEW f, NEW S, IsFiniteSet(S), NEW x, x \notin S, \A y \in S \cup {x} : f[y] \in Int
    PROVE  SumFunctionOnSet(f, S \cup {x}) = f[x] + SumFunctionOnSet(f, S)
<1>1. IsFiniteSet(S \cup {x})
  BY FS_AddElement
<1>2. (S \cup {x}) \ {x} = S
  OBVIOUS
<1> DEFINE T == S \cup {x}
<1>3. x \in T /\ \A y \in T : f[y] \in Int
  OBVIOUS
<1> HIDE DEF T
<1>4. SumFunctionOnSet(f, T) = f[x] + SumFunctionOnSet(f, T \ {x})
  BY <1>1, <1>3, SumWithout DEF T
<1> QED
  BY <1>2, <1>4 DEF T

(***************************************************************************)
(* Only the values on the set count.                                       *)
(***************************************************************************)
LEMMA SumOfEqual ==
    ASSUME NEW f, NEW g, NEW S, IsFiniteSet(S), \A x \in S : f[x] = g[x]
    PROVE  SumFunctionOnSet(f, S) = SumFunctionOnSet(g, S)
<1> DEFINE bad == {k \in Nat : \E s \in SUBSET S :
                        Cardinality(s) = k /\ SumFunctionOnSet(f, s) # SumFunctionOnSet(g, s)}
<1>1. bad = {}
  <2> SUFFICES ASSUME bad # {} PROVE FALSE
    OBVIOUS
  <2>1. PICK k \in bad : \A m \in bad : k <= m
    BY SmallestNaturalOf
  <2>2. PICK s \in SUBSET S :
            Cardinality(s) = k /\ SumFunctionOnSet(f, s) # SumFunctionOnSet(g, s)
    BY <2>1
  <2> DEFINE r == s \ {someOf(s)}
  <2>3. /\ SumFunctionOnSet(f, s) = IF s = {} THEN 0 ELSE f[someOf(s)] + SumFunctionOnSet(f, r)
        /\ SumFunctionOnSet(g, s) = IF s = {} THEN 0 ELSE g[someOf(s)] + SumFunctionOnSet(g, r)
    BY PartFacts, SumStep
  <2>4. s # {} /\ SumFunctionOnSet(f, r) # SumFunctionOnSet(g, r)
    BY <2>2, <2>3, PartFacts
  <2>5. r \in SUBSET S /\ Cardinality(r) = k - 1 /\ k - 1 \in Nat
    BY <2>2, <2>4, PartFacts
  <2>6. k - 1 \in bad
    BY <2>4, <2>5
  <2> QED
    BY <2>1, <2>5, <2>6
<1>2. Cardinality(S) \in Nat
  BY FS_CardinalityType
<1> QED
  BY <1>1, <1>2

LEMMA SumOfZeros ==
    ASSUME NEW f, NEW S, IsFiniteSet(S), \A x \in S : f[x] = 0
    PROVE  SumFunctionOnSet(f, S) = 0
<1> DEFINE bad == {k \in Nat : \E s \in SUBSET S :
                        Cardinality(s) = k /\ SumFunctionOnSet(f, s) # 0}
<1>1. bad = {}
  <2> SUFFICES ASSUME bad # {} PROVE FALSE
    OBVIOUS
  <2>1. PICK k \in bad : \A m \in bad : k <= m
    BY SmallestNaturalOf
  <2>2. PICK s \in SUBSET S : Cardinality(s) = k /\ SumFunctionOnSet(f, s) # 0
    BY <2>1
  <2> DEFINE r == s \ {someOf(s)}
  <2>3. SumFunctionOnSet(f, s) = IF s = {} THEN 0 ELSE f[someOf(s)] + SumFunctionOnSet(f, r)
    BY PartFacts, SumStep
  <2>4. s # {} /\ SumFunctionOnSet(f, r) # 0
    BY <2>2, <2>3, PartFacts
  <2>5. r \in SUBSET S /\ Cardinality(r) = k - 1 /\ k - 1 \in Nat
    BY <2>2, <2>4, PartFacts
  <2>6. k - 1 \in bad
    BY <2>4, <2>5
  <2> QED
    BY <2>1, <2>5, <2>6
<1>2. Cardinality(S) \in Nat
  BY FS_CardinalityType
<1> QED
  BY <1>1, <1>2

(***************************************************************************)
(* A change of one value moves the sum by as much.                         *)
(***************************************************************************)
LEMMA SumOfUpdate ==
    ASSUME NEW S, IsFiniteSet(S), NEW f, NEW g,
           \A x \in S : f[x] \in Int /\ g[x] \in Int,
           NEW x \in S, \A y \in S \ {x} : g[y] = f[y]
    PROVE  SumFunctionOnSet(g, S) = SumFunctionOnSet(f, S) + g[x] - f[x]
<1> DEFINE R == S \ {x}
<1>1. IsFiniteSet(R)
  BY FS_Subset
<1>2. SumFunctionOnSet(f, R) = SumFunctionOnSet(g, R)
  BY <1>1, SumOfEqual
<1>3. SumFunctionOnSet(f, R) \in Int
  BY <1>1, SumIsInt
<1>4. SumFunctionOnSet(f, S) = f[x] + SumFunctionOnSet(f, R)
  BY SumWithout
<1>5. SumFunctionOnSet(g, S) = g[x] + SumFunctionOnSet(g, R)
  BY SumWithout
<1>6. f[x] \in Int /\ g[x] \in Int
  OBVIOUS
<1> HIDE DEF R
<1> QED
  BY <1>2, <1>3, <1>4, <1>5, <1>6

\* A sum of naturals is a natural, at least as large as each of its terms.
LEMMA SumIsNat ==
    ASSUME NEW f, NEW S, IsFiniteSet(S), \A x \in S : f[x] \in Nat
    PROVE  SumFunctionOnSet(f, S) \in Nat
<1> DEFINE bad == {k \in Nat : \E s \in SUBSET S :
                        Cardinality(s) = k /\ SumFunctionOnSet(f, s) \notin Nat}
<1>1. bad = {}
  <2> SUFFICES ASSUME bad # {} PROVE FALSE
    OBVIOUS
  <2>1. PICK k \in bad : \A m \in bad : k <= m
    BY SmallestNaturalOf
  <2>2. PICK s \in SUBSET S : Cardinality(s) = k /\ SumFunctionOnSet(f, s) \notin Nat
    BY <2>1
  <2> DEFINE r == s \ {someOf(s)}
  <2>3. SumFunctionOnSet(f, s) = IF s = {} THEN 0 ELSE f[someOf(s)] + SumFunctionOnSet(f, r)
    BY PartFacts, SumStep
  <2>4. s # {} /\ someOf(s) \in S /\ SumFunctionOnSet(f, r) \notin Nat
    BY <2>2, <2>3, PartFacts
  <2>5. r \in SUBSET S /\ Cardinality(r) = k - 1 /\ k - 1 \in Nat
    BY <2>2, <2>4, PartFacts
  <2>6. k - 1 \in bad
    BY <2>4, <2>5
  <2> QED
    BY <2>1, <2>5, <2>6
<1>2. Cardinality(S) \in Nat
  BY FS_CardinalityType
<1> QED
  BY <1>1, <1>2

LEMMA TermIsAtMostSum ==
    ASSUME NEW f, NEW S, IsFiniteSet(S), \A x \in S : f[x] \in Nat, NEW x \in S
    PROVE  f[x] <= SumFunctionOnSet(f, S)
<1>1. IsFiniteSet(S \ {x}) /\ \A y \in S \ {x} : f[y] \in Nat
  BY FS_Subset
<1>2. PICK rest : rest = SumFunctionOnSet(f, S \ {x})
  OBVIOUS
<1>3. rest \in Nat
  BY <1>1, <1>2, SumIsNat
<1>4. SumFunctionOnSet(f, S) = f[x] + rest
  BY <1>2, SumWithout
<1> QED
  BY <1>3, <1>4

(***************************************************************************)
(* A quantity that grows by f with every element is the sum of f.          *)
(***************************************************************************)
GrowsBy(h, f, S) ==
    /\ h[{}] = 0
    /\ \A s \in SUBSET S : s # {} => \E x \in s : h[s] = f[x] + h[s \ {x}]

LEMMA SumIsOnly ==
    ASSUME NEW f, NEW S, IsFiniteSet(S), \A x \in S : f[x] \in Int, NEW h, GrowsBy(h, f, S)
    PROVE  SumFunctionOnSet(f, S) = h[S]
<1> DEFINE bad == {k \in Nat : \E s \in SUBSET S :
                        Cardinality(s) = k /\ SumFunctionOnSet(f, s) # h[s]}
<1>1. bad = {}
  <2> SUFFICES ASSUME bad # {} PROVE FALSE
    OBVIOUS
  <2>1. PICK k \in bad : \A m \in bad : k <= m
    BY SmallestNaturalOf
  <2>2. PICK s \in SUBSET S : Cardinality(s) = k /\ SumFunctionOnSet(f, s) # h[s]
    BY <2>1
  <2>3. s # {}
    BY <2>2, SumOfNone DEF GrowsBy
  <2>4. PICK x \in s : h[s] = f[x] + h[s \ {x}]
    BY <2>3 DEF GrowsBy
  <2> DEFINE r == s \ {x}
  <2>5. IsFiniteSet(s) /\ (\A y \in s : f[y] \in Int)
    BY PartFacts
  <2>6. SumFunctionOnSet(f, s) = f[x] + SumFunctionOnSet(f, r)
    BY <2>5, SumWithout
  <2>7. SumFunctionOnSet(f, r) # h[r]
    BY <2>2, <2>4, <2>6
  <2>8. r \in SUBSET S /\ Cardinality(r) = k - 1 /\ k - 1 \in Nat
    BY <2>2, <2>3, PartFacts
  <2>9. k - 1 \in bad
    BY <2>7, <2>8
  <2> QED
    BY <2>1, <2>8, <2>9
<1>2. Cardinality(S) \in Nat
  BY FS_CardinalityType
<1> QED
  BY <1>1, <1>2

\* Sums add up term by term.
LEMMA SumOfSums ==
    ASSUME NEW S, IsFiniteSet(S), NEW f, NEW g, NEW e,
           \A x \in S : f[x] \in Int /\ g[x] \in Int /\ e[x] = f[x] + g[x]
    PROVE  SumFunctionOnSet(e, S) = SumFunctionOnSet(f, S) + SumFunctionOnSet(g, S)
<1> DEFINE h == [s \in SUBSET S |-> SumFunctionOnSet(f, s) + SumFunctionOnSet(g, s)]
<1>1. h[{}] = 0
  BY SumOfNone
<1>2. ASSUME NEW s \in SUBSET S, s # {}
      PROVE  \E x \in s : h[s] = e[x] + h[s \ {x}]
  <2>1. PICK x \in s : TRUE
    BY <1>2
  <2>2. IsFiniteSet(s) /\ IsFiniteSet(s \ {x})
    BY PartFacts, FS_RemoveElement
  <2>3. /\ SumFunctionOnSet(f, s) = f[x] + SumFunctionOnSet(f, s \ {x})
        /\ SumFunctionOnSet(f, s \ {x}) \in Int
    BY <2>2, SumWithout, SumIsInt
  <2>4. /\ SumFunctionOnSet(g, s) = g[x] + SumFunctionOnSet(g, s \ {x})
        /\ SumFunctionOnSet(g, s \ {x}) \in Int
    BY <2>2, SumWithout, SumIsInt
  <2>5. h[s] = e[x] + h[s \ {x}]
    <3>1. f[x] \in Int /\ g[x] \in Int /\ e[x] = f[x] + g[x] /\ s \ {x} \in SUBSET S
      OBVIOUS
    <3> QED
      BY <2>3, <2>4, <3>1
  <2> QED
    BY <2>5
<1>3. \A x \in S : e[x] \in Int
  OBVIOUS
<1>4. h[S] = SumFunctionOnSet(f, S) + SumFunctionOnSet(g, S)
  OBVIOUS
<1>5. GrowsBy(h, e, S)
  BY <1>1, <1>2 DEF GrowsBy
<1> HIDE DEF h
<1> QED
  BY <1>3, <1>4, <1>5, SumIsOnly

\* Terms that are at most as large have a sum at most as large.
LEMMA SumAtMost ==
    ASSUME NEW S, IsFiniteSet(S), NEW f, NEW g,
           \A x \in S : f[x] \in Int /\ g[x] \in Int /\ f[x] <= g[x]
    PROVE  SumFunctionOnSet(f, S) <= SumFunctionOnSet(g, S)
<1> DEFINE d == [x \in S |-> g[x] - f[x]]
<1>1. \A x \in S : d[x] \in Nat /\ d[x] \in Int /\ g[x] = f[x] + d[x]
  OBVIOUS
<1>2. SumFunctionOnSet(d, S) \in Nat /\ SumFunctionOnSet(f, S) \in Int
  BY <1>1, SumIsNat, SumIsInt
<1> HIDE DEF d
<1>3. SumFunctionOnSet(g, S) = SumFunctionOnSet(f, S) + SumFunctionOnSet(d, S)
  BY <1>1, SumOfSums
<1> QED
  BY <1>2, <1>3

\* p gives each element of S a name of its own, the names being T.
Names(p, S, T) ==
    /\ \A x \in S : p[x] \in T
    /\ \A x, y \in S : p[x] = p[y] => x = y
    /\ \A y \in T : \E x \in S : y = p[x]

\* Summing over other names of the same terms.
LEMMA SumRenamed ==
    ASSUME NEW S, IsFiniteSet(S), NEW T, NEW p, Names(p, S, T), NEW f, NEW e,
           \A x \in S : e[x] = f[p[x]] /\ e[x] \in Int
    PROVE  SumFunctionOnSet(e, S) = SumFunctionOnSet(f, T)
<1> DEFINE named(s) == {p[x] : x \in s}
           h == [s \in SUBSET S |-> SumFunctionOnSet(f, named(s))]
<1>1. h[{}] = 0
  <2>1. named({}) = {}
    OBVIOUS
  <2> QED
    BY <2>1, SumOfNone
<1>2. ASSUME NEW s \in SUBSET S, s # {}
      PROVE  \E x \in s : h[s] = e[x] + h[s \ {x}]
  <2>1. PICK x \in s : TRUE
    BY <1>2
  <2>2. IsFiniteSet(s)
    BY PartFacts
  <2>3. IsFiniteSet(named(s)) /\ \A z \in named(s) : f[z] \in Int
    <3> DEFINE q == [y \in s |-> p[y]]
    <3>1. q \in Surjection(s, named(s))
      BY DEF Surjection
    <3>2. IsFiniteSet(named(s))
      BY <2>2, <3>1, FS_Surjection
    <3>3. \A z \in named(s) : f[z] \in Int
      OBVIOUS
    <3> QED
      BY <3>2, <3>3
  <2>4. named(s \ {x}) = named(s) \ {p[x]}
    BY DEF Names
  <2>5. p[x] \in named(s)
    OBVIOUS
  <2>6. SumFunctionOnSet(f, named(s)) = f[p[x]] + SumFunctionOnSet(f, named(s) \ {p[x]})
    <3> HIDE DEF named
    <3> QED
      BY <2>3, <2>5, SumWithout
  <2>7. h[s] = SumFunctionOnSet(f, named(s)) /\ h[s \ {x}] = SumFunctionOnSet(f, named(s \ {x}))
    OBVIOUS
  <2>8. e[x] = f[p[x]]
    OBVIOUS
  <2> HIDE DEF named, h
  <2>9. h[s] = e[x] + h[s \ {x}]
    BY <2>4, <2>6, <2>7, <2>8
  <2> QED
    BY <2>9
<1>3. h[S] = SumFunctionOnSet(f, T)
  <2>1. named(S) = T
    BY DEF Names
  <2> QED
    BY <2>1
<1>5. GrowsBy(h, e, S)
  BY <1>1, <1>2 DEF GrowsBy
<1> HIDE DEF h
<1> QED
  BY <1>3, <1>5, SumIsOnly

\* A common factor may be taken out.
LEMMA SumOfMultiples ==
    ASSUME NEW S, IsFiniteSet(S), NEW f, NEW g, NEW c \in Int,
           \A x \in S : f[x] \in Int /\ g[x] = f[x] * c
    PROVE  SumFunctionOnSet(g, S) = SumFunctionOnSet(f, S) * c
<1> DEFINE h == [s \in SUBSET S |-> SumFunctionOnSet(f, s) * c]
<1>0. \A a, b \in Int : (a + b) * c = a * c + b * c /\ a * c \in Int
  OBVIOUS
<1>1. h[{}] = 0
  BY SumOfNone
<1>2. ASSUME NEW s \in SUBSET S, s # {}
      PROVE  \E x \in s : h[s] = g[x] + h[s \ {x}]
  <2>1. PICK x \in s : TRUE
    BY <1>2
  <2>2. IsFiniteSet(s) /\ IsFiniteSet(s \ {x})
    BY PartFacts, FS_RemoveElement
  <2>3. /\ SumFunctionOnSet(f, s) = f[x] + SumFunctionOnSet(f, s \ {x})
        /\ SumFunctionOnSet(f, s \ {x}) \in Int
    BY <2>2, SumWithout, SumIsInt
  <2>4. f[x] \in Int /\ g[x] = f[x] * c /\ s \ {x} \in SUBSET S
    OBVIOUS
  <2>5. SumFunctionOnSet(f, s) * c = g[x] + SumFunctionOnSet(f, s \ {x}) * c
    BY <1>0, <2>3, <2>4
  <2> QED
    BY <2>4, <2>5
<1>3. \A x \in S : g[x] \in Int
  BY <1>0
<1>4. h[S] = SumFunctionOnSet(f, S) * c
  OBVIOUS
<1>5. GrowsBy(h, g, S)
  BY <1>1, <1>2 DEF GrowsBy
<1> HIDE DEF h
<1> QED
  BY <1>3, <1>4, <1>5, SumIsOnly

\* A sum of the same number, as often as there are elements.
LEMMA SumOfConstant ==
    ASSUME NEW S, IsFiniteSet(S), NEW f, NEW c \in Int, \A x \in S : f[x] = c
    PROVE  SumFunctionOnSet(f, S) = Cardinality(S) * c
<1> DEFINE h == [s \in SUBSET S |-> Cardinality(s) * c]
<1>0. \A n \in Int : n * c = c + (n - 1) * c
  OBVIOUS
<1>1. h[{}] = 0
  BY FS_EmptySet
<1>2. ASSUME NEW s \in SUBSET S, s # {}
      PROVE  \E x \in s : h[s] = f[x] + h[s \ {x}]
  <2>1. PICK x \in s : TRUE
    BY <1>2
  <2>2. Cardinality(s) \in Nat /\ s \ {x} \in SUBSET S /\ Cardinality(s \ {x}) = Cardinality(s) - 1
    BY PartFacts
  <2>3. Cardinality(s) * c = c + Cardinality(s \ {x}) * c
    BY <1>0, <2>2
  <2> QED
    BY <2>2, <2>3
<1>3. h[S] = Cardinality(S) * c
  OBVIOUS
<1>5. GrowsBy(h, f, S)
  BY <1>1, <1>2 DEF GrowsBy
<1> HIDE DEF h
<1> QED
  BY <1>3, <1>5, SumIsOnly

\* A sum of ones and zeros counts the ones.
LEMMA SumCounts ==
    ASSUME NEW S, IsFiniteSet(S), NEW f, NEW T \in SUBSET S,
           \A x \in S : f[x] = IF x \in T THEN 1 ELSE 0
    PROVE  SumFunctionOnSet(f, S) = Cardinality(T)
<1> DEFINE h == [s \in SUBSET S |-> Cardinality(s \cap T)]
<1>1. h[{}] = 0
  BY FS_EmptySet
<1>2. ASSUME NEW s \in SUBSET S, s # {}
      PROVE  \E x \in s : h[s] = f[x] + h[s \ {x}]
  <2>1. PICK x \in s : TRUE
    BY <1>2
  <2>2. IsFiniteSet(s \cap T) /\ Cardinality(s \cap T) \in Nat
    BY FS_Subset, FS_CardinalityType
  <2>3. (s \ {x}) \cap T = (s \cap T) \ {x} /\ s \ {x} \in SUBSET S
    OBVIOUS
  <2>4. Cardinality((s \cap T) \ {x})
            = IF x \in s \cap T THEN Cardinality(s \cap T) - 1 ELSE Cardinality(s \cap T)
    BY <2>2, FS_RemoveElement
  <2>5. h[s] = Cardinality(s \cap T) /\ h[s \ {x}] = Cardinality((s \cap T) \ {x})
    BY <2>3
  <2> HIDE DEF h
  <2>6. f[x] = IF x \in s \cap T THEN 1 ELSE 0
    OBVIOUS
  <2>7. h[s] = f[x] + h[s \ {x}]
    BY <2>2, <2>4, <2>5, <2>6
  <2> QED
    BY <2>7
<1>3. h[S] = Cardinality(T)
  <2>1. S \cap T = T
    OBVIOUS
  <2> QED
    BY <2>1
<1>4. \A x \in S : f[x] \in Int
  OBVIOUS
<1>5. GrowsBy(h, f, S)
  BY <1>1, <1>2 DEF GrowsBy
<1> HIDE DEF h
<1> QED
  BY <1>3, <1>4, <1>5, SumIsOnly

\* The elements outside T may be left out when they add nothing.
LEMMA SumOfPart ==
    ASSUME NEW S, IsFiniteSet(S), NEW f, NEW T \in SUBSET S,
           \A x \in S : f[x] \in Int, \A x \in S \ T : f[x] = 0
    PROVE  SumFunctionOnSet(f, S) = SumFunctionOnSet(f, T)
<1> DEFINE h == [s \in SUBSET S |-> SumFunctionOnSet(f, s \cap T)]
<1>1. h[{}] = 0
  <2>1. {} \cap T = {}
    OBVIOUS
  <2> QED
    BY <2>1, SumOfNone
<1>2. ASSUME NEW s \in SUBSET S, s # {}
      PROVE  \E x \in s : h[s] = f[x] + h[s \ {x}]
  <2>1. PICK x \in s : TRUE
    BY <1>2
  <2>2. IsFiniteSet(s \cap T) /\ (\A y \in s \cap T : f[y] \in Int)
    BY FS_Subset
  <2>3. (s \ {x}) \cap T = (s \cap T) \ {x} /\ s \ {x} \in SUBSET S
    OBVIOUS
  <2>4. CASE x \in T
    <3>1. SumFunctionOnSet(f, s \cap T) = f[x] + SumFunctionOnSet(f, (s \cap T) \ {x})
      BY <2>2, <2>4, SumWithout
    <3> QED
      BY <2>3, <3>1
  <2>5. CASE x \notin T
    <3>1. (s \cap T) \ {x} = s \cap T /\ f[x] = 0
      BY <2>5
    <3>2. SumFunctionOnSet(f, s \cap T) \in Int
      BY <2>2, SumIsInt
    <3>3. h[s] = h[s \ {x}] /\ h[s] \in Int
      BY <2>3, <3>1, <3>2
    <3> HIDE DEF h
    <3>4. h[s] = f[x] + h[s \ {x}]
      BY <3>1, <3>3
    <3> QED
      BY <3>4
  <2> QED
    BY <2>4, <2>5
<1>3. h[S] = SumFunctionOnSet(f, T)
  <2>1. S \cap T = T
    OBVIOUS
  <2> QED
    BY <2>1
<1>5. GrowsBy(h, f, S)
  BY <1>1, <1>2 DEF GrowsBy
<1> HIDE DEF h
<1> QED
  BY <1>3, <1>5, SumIsOnly

(***************************************************************************)
(* Of elements that a ranking numbers from 0 without a tie, as many have a *)
(* rank below n as there are such ranks.                                   *)
(***************************************************************************)
LEMMA RanksBelow ==
    ASSUME NEW S, IsFiniteSet(S), NEW rank \in [S -> 0..(Cardinality(S) - 1)],
           \A x, y \in S : x # y => rank[x] # rank[y], NEW n \in 0..Cardinality(S)
    PROVE  Cardinality({x \in S : rank[x] < n}) = n
<1> DEFINE R == 0..(Cardinality(S) - 1)
           T == {x \in S : rank[x] < n}
           below == [x \in T |-> rank[x]]
<1>1. Cardinality(S) \in Nat
  BY FS_CardinalityType
<1>0. \A m \in Nat : IsFiniteSet(0..(m - 1)) /\ Cardinality(0..(m - 1)) = m
  <2> TAKE m \in Nat
  <2>1. PICK k \in Int : k = m - 1
    OBVIOUS
  <2>2. IsFiniteSet(0..k) /\ Cardinality(0..k) = IF 0 > k THEN 0 ELSE k - 0 + 1
    BY FS_Interval
  <2> QED
    BY <2>1, <2>2
<1>2. IsFiniteSet(R) /\ Cardinality(R) = Cardinality(S)
  BY <1>0, <1>1
<1>3. rank \in Injection(S, R)
  BY DEF Injection, IsInjective
<1>4. rank \in Surjection(S, R)
  BY <1>2, <1>3, FS_Injection
<1>5. \A r \in R : \E x \in S : rank[x] = r
  BY <1>4 DEF Surjection
<1>6. below \in Injection(T, 0..(n - 1))
  BY <1>1 DEF Injection, IsInjective
<1>7. below \in Surjection(T, 0..(n - 1))
  BY <1>1, <1>5 DEF Surjection
<1>8. IsFiniteSet(0..(n - 1)) /\ Cardinality(0..(n - 1)) = n
  BY <1>0, <1>1
<1> QED
  BY <1>6, <1>7, <1>8, FS_Injection

\* Division with remainder, of naturals.
LEMMA Division ==
    ASSUME NEW a \in Nat, NEW b \in Nat, b > 0
    PROVE  \E q, r \in Nat : q = a \div b /\ r = a % b /\ a = q * b + r /\ r < b
<1>1. a \div b \in Int /\ a % b \in Int
  OBVIOUS
<1>2. PICK q \in Int, r \in Int : q = a \div b /\ r = a % b
  BY <1>1
<1>3. a = b * q + r
  BY <1>2
<1>4. 0 <= r /\ r < b
  BY <1>2
<1>5. q >= 0
  <2>1. SUFFICES ASSUME q < 0 PROVE FALSE
    BY <1>1
  <2>2. PICK p \in Nat : q = -1 - p
    <3>1. -1 - q \in Nat
      BY <2>1
    <3> QED
      BY <3>1
  <2>3. b * q = -b - b * p /\ b * p \in Nat
    BY <2>2
  <2> QED
    BY <1>3, <1>4, <2>3
<1>6. b * q = q * b
  BY <1>2
<1>7. a = q * b + r /\ q \in Nat /\ r \in Nat /\ r < b
  BY <1>3, <1>4, <1>5, <1>6
<1> QED
  BY <1>2, <1>7

\* A finite set of naturals has a greatest element: none exceeds their sum.
LEMMA MaxOfFinite ==
    ASSUME NEW S \in SUBSET Nat, IsFiniteSet(S), S # {}
    PROVE  Max(S) \in S /\ \A m \in S : Max(S) >= m
<1> DEFINE same == [x \in S |-> x]
           k == SumFunctionOnSet(same, S)
<1>1. \A x \in S : same[x] \in Nat /\ same[x] = x
  OBVIOUS
<1> HIDE DEF same
<1>2. k \in Nat /\ \A x \in S : x <= k
  BY <1>1, SumIsNat, TermIsAtMostSum
<1> HIDE DEF k
<1>3. PICK s \in S : TRUE
  OBVIOUS
<1>4. S \in SUBSET (0..k)
  BY <1>2
<1> QED
  BY <1>2, <1>3, <1>4, MaxOfNaturals

(***************************************************************************)
(* A quantity that every number of a set raises by g over what the smaller *)
(* ones come to is the sum of g.                                           *)
(***************************************************************************)
upTo(S, n) == {m \in S : m <= n}
under(S, n) == {m \in S : m < n}

GrowsByLevels(h, g, S) ==
    /\ S \subseteq Nat
    /\ h[{}] = 0
    /\ \A n \in S : h[upTo(S, n)] = g[n] + h[under(S, n)]

LEMMA SumByLevels ==
    ASSUME NEW S, IsFiniteSet(S), NEW g, \A n \in S : g[n] \in Int,
           NEW h, GrowsByLevels(h, g, S)
    PROVE  SumFunctionOnSet(g, S) = h[S]
<1> DEFINE low(s) == \A n \in s, m \in S : m < n => m \in s
           bad == {k \in Nat : \E s \in SUBSET S :
                        low(s) /\ Cardinality(s) = k /\ SumFunctionOnSet(g, s) # h[s]}
<1>1. bad = {}
  <2> SUFFICES ASSUME bad # {} PROVE FALSE
    OBVIOUS
  <2>1. PICK k \in bad : \A m \in bad : k <= m
    BY SmallestNaturalOf
  <2>2. PICK s \in SUBSET S : low(s) /\ Cardinality(s) = k /\ SumFunctionOnSet(g, s) # h[s]
    BY <2>1
  <2>3. s # {}
    BY <2>2, SumOfNone DEF GrowsByLevels
  <2>4. IsFiniteSet(s)
    BY PartFacts
  <2>5. PICK n \in s : \A m \in s : n >= m
    <3>1. s \in SUBSET Nat
      BY DEF GrowsByLevels
    <3> QED
      BY <2>3, <2>4, <3>1, MaxOfFinite
  <2> DEFINE r == s \ {n}
  <2>6. s = upTo(S, n) /\ r = under(S, n)
    <3>1. \A m \in S : m \in Int /\ (m \in s => m <= n) /\ (m < n => m \in s)
      BY <2>2, <2>5 DEF GrowsByLevels
    <3>2. n \in S /\ n \in Int
      BY DEF GrowsByLevels
    <3>3. \A m \in S : m <= n => m < n \/ m = n
      BY <3>1, <3>2
    <3>4. \A m \in S : (m \in s <=> m <= n) /\ (m \in r <=> m < n)
      BY <3>1, <3>2, <3>3
    <3> HIDE DEF r
    <3>5. r \subseteq S
      BY DEF r
    <3> QED
      BY <3>4, <3>5 DEF upTo, under
  <2>7. h[s] = g[n] + h[r]
    BY <2>6 DEF GrowsByLevels
  <2>8. SumFunctionOnSet(g, s) = g[n] + SumFunctionOnSet(g, r)
    <3>1. \A m \in s : g[m] \in Int
      OBVIOUS
    <3> QED
      BY <2>4, <3>1, SumWithout
  <2>9. SumFunctionOnSet(g, r) # h[r]
    BY <2>2, <2>7, <2>8
  <2>10. r \in SUBSET S /\ Cardinality(r) = k - 1 /\ k - 1 \in Nat
    BY <2>2, <2>3, PartFacts
  <2>11. low(r)
    <3>1. S \subseteq Int /\ n \in S
      BY DEF GrowsByLevels
    <3>2. \A a \in under(S, n), m \in S : m < a => m \in under(S, n)
      BY <3>1 DEF under
    <3> QED
      BY <2>6, <3>2
  <2>12. k - 1 \in bad
    BY <2>9, <2>10, <2>11
  <2> QED
    BY <2>1, <2>10, <2>12
<1>2. Cardinality(S) \in Nat
  BY FS_CardinalityType
<1>3. low(S)
  OBVIOUS
<1> QED
  BY <1>1, <1>2, <1>3

\* A table of numbers has one sum, by rows or by columns.
LEMMA SumsSwap ==
    ASSUME NEW S, IsFiniteSet(S), NEW T, IsFiniteSet(T),
           NEW f, \A x \in S : \A y \in T : f[x][y] \in Int
    PROVE  SumFunctionOnSet([x \in S |-> SumFunctionOnSet(f[x], T)], S)
             = SumFunctionOnSet([y \in T |-> SumFunctionOnSet([x \in S |-> f[x][y]], S)], T)
<1> DEFINE column(y) == [x \in S |-> f[x][y]]
           down(s) == [y \in T |-> SumFunctionOnSet(column(y), s)]
           h == [s \in SUBSET S |-> SumFunctionOnSet(down(s), T)]
           row == [x \in S |-> SumFunctionOnSet(f[x], T)]
<1>0. \A y \in T : \A x \in S : column(y)[x] = f[x][y] /\ column(y)[x] \in Int
  OBVIOUS
<1>00. \A s \in SUBSET S : \A y \in T : down(s)[y] = SumFunctionOnSet(column(y), s)
  OBVIOUS
<1> HIDE DEF column
<1>1. h[{}] = 0
  <2>1. \A y \in T : down({})[y] = 0
    BY <1>00, SumOfNone
  <2>2. SumFunctionOnSet(down({}), T) = 0
    <3> HIDE DEF down
    <3> QED
      BY <2>1, SumOfZeros
  <2> QED
    BY <2>2
<1>2. ASSUME NEW s \in SUBSET S, s # {}
      PROVE  \E x \in s : h[s] = row[x] + h[s \ {x}]
  <2>1. PICK x \in s : TRUE
    BY <1>2
  <2>2. IsFiniteSet(s) /\ IsFiniteSet(s \ {x}) /\ s \ {x} \in SUBSET S
    BY PartFacts, FS_RemoveElement
  <2>3. ASSUME NEW y \in T
        PROVE  /\ down(s)[y] = f[x][y] + down(s \ {x})[y]
               /\ f[x][y] \in Int /\ down(s \ {x})[y] \in Int
    <3>1. SumFunctionOnSet(column(y), s) = column(y)[x] + SumFunctionOnSet(column(y), s \ {x})
      BY <1>0, <2>2, SumWithout
    <3>2. SumFunctionOnSet(column(y), s \ {x}) \in Int
      BY <1>0, <2>2, SumIsInt
    <3> QED
      BY <1>0, <1>00, <2>2, <3>1, <3>2
  <2>4. h[s] = SumFunctionOnSet(down(s), T) /\ h[s \ {x}] = SumFunctionOnSet(down(s \ {x}), T)
    BY <2>2
  <2>5. row[x] = SumFunctionOnSet(f[x], T)
    OBVIOUS
  <2> HIDE DEF down, h, row
  <2>6. SumFunctionOnSet(down(s), T)
            = SumFunctionOnSet(f[x], T) + SumFunctionOnSet(down(s \ {x}), T)
    BY <2>3, SumOfSums
  <2> QED
    BY <2>4, <2>5, <2>6
<1>3. h[S] = SumFunctionOnSet([y \in T |-> SumFunctionOnSet([x \in S |-> f[x][y]], S)], T)
  BY DEF column
<1>4. \A x \in S : row[x] \in Int
  BY SumIsInt
<1>5. GrowsBy(h, row, S)
  BY <1>1, <1>2 DEF GrowsBy
<1> HIDE DEF h, row
<1>6. SumFunctionOnSet(row, S) = h[S]
  BY <1>4, <1>5, SumIsOnly
<1> QED
  BY <1>3, <1>6 DEF row

\* A set whose elements are all named by a finite set is finite.
LEMMA ImageIsFinite ==
    ASSUME NEW S, IsFiniteSet(S), NEW T, NEW p, \A y \in T : \E x \in S : y = p[x]
    PROVE  IsFiniteSet(T)
<1> DEFINE R == {x \in S : p[x] \in T}
           q == [x \in R |-> p[x]]
<1>1. IsFiniteSet(R)
  BY FS_Subset
<1>2. q \in Surjection(R, T)
  BY DEF Surjection
<1> QED
  BY <1>1, <1>2, FS_Surjection

LEMMA GreatestIsMax ==
    ASSUME NEW S, IsFiniteSet(S), S \subseteq Nat, NEW a \in S, \A x \in S : x <= a
    PROVE  Max(S) = a
<1>1. Max(S) \in S /\ \A m \in S : Max(S) >= m
  BY MaxOfFinite
<1>2. PICK b : b = Max(S)
  OBVIOUS
<1>3. b \in Nat /\ a \in Nat /\ b <= a /\ a <= b
  BY <1>1, <1>2
<1> QED
  BY <1>2, <1>3

LEMMA LevelMembers ==
    ASSUME NEW S, NEW n
    PROVE  \A x : (x \in upTo(S, n) <=> x \in S /\ x <= n) /\ (x \in under(S, n) <=> x \in S /\ x < n)
  BY DEF upTo, under

LEMMA GreatestOrZero ==
    ASSUME NEW S, IsFiniteSet(S), \A x \in S : x \in Nat
    PROVE  /\ Max({0} \cup S) \in Nat /\ (Max({0} \cup S) \in S \/ Max({0} \cup S) = 0)
           /\ \A x \in S : x <= Max({0} \cup S)
           /\ \A a \in Nat : (a \in S \/ a = 0) /\ (\A x \in S : x <= a) => Max({0} \cup S) = a
<1> DEFINE A == {0} \cup S
<1>1. A = S \cup {0}
  OBVIOUS
<1>2. IsFiniteSet(A)
  BY <1>1, FS_AddElement
<1>3. \A x : x \in A <=> x \in S \/ x = 0
  OBVIOUS
<1> HIDE DEF A
<1>4. A \in SUBSET Nat /\ A # {}
  BY <1>3
<1>5. Max(A) \in A /\ \A x \in A : Max(A) >= x
  BY <1>2, <1>4, MaxOfFinite
<1>6. PICK b : b = Max(A)
  OBVIOUS
<1>7. b \in Nat /\ (b \in S \/ b = 0) /\ \A x \in S : x <= b
  BY <1>3, <1>4, <1>5, <1>6
<1>8. \A a \in Nat : (a \in S \/ a = 0) /\ (\A x \in S : x <= a) => b = a
  BY <1>7
<1> QED
  BY <1>6, <1>7, <1>8 DEF A

\* The part of S that u owns.
ownedBy(S, own, u) == {i \in S : own[i] = u}

(***************************************************************************)
(* A sum over things is the sum, over their owners, of what each one has;  *)
(* what nobody of U owns must add nothing.                                 *)
(***************************************************************************)
LEMMA SumOfOwner ==
    ASSUME NEW U, IsFiniteSet(U), NEW c, NEW n \in Int, NEW f,
           \A u \in U : f[u] = IF u = c THEN n ELSE 0, c \notin U => n = 0
    PROVE  SumFunctionOnSet(f, U) = n
<1>1. CASE c \in U
  <2>1. \A u \in U : f[u] \in Int
    OBVIOUS
  <2>2. SumFunctionOnSet(f, U) = f[c] + SumFunctionOnSet(f, U \ {c})
    BY <1>1, <2>1, SumWithout
  <2>3. IsFiniteSet(U \ {c}) /\ \A u \in U \ {c} : f[u] = 0
    BY FS_Subset
  <2>4. SumFunctionOnSet(f, U \ {c}) = 0
    BY <2>3, SumOfZeros
  <2>5. f[c] = n
    BY <1>1
  <2> QED
    BY <2>2, <2>4, <2>5
<1>2. CASE c \notin U
  <2>1. \A u \in U : f[u] = 0
    BY <1>2
  <2>2. SumFunctionOnSet(f, U) = 0
    BY <2>1, SumOfZeros
  <2> QED
    BY <1>2, <2>2
<1> QED
  BY <1>1, <1>2

LEMMA SumByOwner ==
    ASSUME NEW S, IsFiniteSet(S), NEW U, IsFiniteSet(U), NEW own,
           NEW d, \A i \in S : d[i] \in Int, \A i \in S : own[i] \notin U => d[i] = 0
    PROVE  SumFunctionOnSet([u \in U |-> SumFunctionOnSet(d, ownedBy(S, own, u))], U)
             = SumFunctionOnSet(d, S)
<1> DEFINE part == [u \in U |-> [i \in S |-> IF own[i] = u THEN d[i] ELSE 0]]
           row == [u \in U |-> SumFunctionOnSet(part[u], S)]
           mine == [u \in U |-> SumFunctionOnSet(d, ownedBy(S, own, u))]
           column == [i \in S |-> SumFunctionOnSet([u \in U |-> part[u][i]], U)]
<1>1. \A u \in U : \A i \in S : part[u][i] = IF own[i] = u THEN d[i] ELSE 0
  OBVIOUS
<1>2. \A u \in U : \A i \in S : part[u][i] \in Int
  BY <1>1
<1>3. \A u \in U : row[u] = SumFunctionOnSet(part[u], S) /\ mine[u] = SumFunctionOnSet(d, ownedBy(S, own, u))
  OBVIOUS
<1>4. SumFunctionOnSet(row, U) = SumFunctionOnSet(column, S)
  <2> HIDE DEF part
  <2> QED
    BY <1>2, SumsSwap
<1>5. ASSUME NEW u \in U PROVE row[u] = mine[u]
  <2> DEFINE T == ownedBy(S, own, u)
             f == part[u]
  <2>1. T \in SUBSET S /\ \A i \in S : i \in T <=> own[i] = u
    BY DEF ownedBy
  <2>2. IsFiniteSet(T)
    BY <2>1, FS_Subset
  <2>3. \A i \in S : f[i] \in Int /\ (i \notin T => f[i] = 0) /\ (i \in T => f[i] = d[i])
    BY <1>1, <2>1
  <2> HIDE DEF T, f, part
  <2>4. SumFunctionOnSet(f, S) = SumFunctionOnSet(f, T)
    BY <2>1, <2>3, SumOfPart
  <2>5. SumFunctionOnSet(f, T) = SumFunctionOnSet(d, T)
    BY <2>1, <2>2, <2>3, SumOfEqual
  <2> QED
    BY <1>3, <2>4, <2>5 DEF f, T
<1>6. ASSUME NEW i \in S PROVE column[i] = d[i]
  <2> DEFINE g == [u \in U |-> part[u][i]]
  <2>1. \A u \in U : g[u] = IF u = own[i] THEN d[i] ELSE 0
    BY <1>1
  <2>2. column[i] = SumFunctionOnSet(g, U)
    OBVIOUS
  <2>3. d[i] \in Int /\ (own[i] \notin U => d[i] = 0)
    OBVIOUS
  <2> HIDE DEF g, column
  <2>4. SumFunctionOnSet(g, U) = d[i]
    BY <2>1, <2>3, SumOfOwner
  <2> QED
    BY <2>2, <2>4
<1> HIDE DEF row, mine, column
<1>7. SumFunctionOnSet(row, U) = SumFunctionOnSet(mine, U)
  BY <1>5, SumOfEqual
<1>8. SumFunctionOnSet(column, S) = SumFunctionOnSet(d, S)
  BY <1>6, SumOfEqual
<1> QED
  BY <1>4, <1>7, <1>8 DEF mine

\* A sum is taken in two halves.
LEMMA SumOfHalves ==
    ASSUME NEW A, IsFiniteSet(A), NEW S, NEW d, \A i \in A : d[i] \in Int
    PROVE  /\ SumFunctionOnSet(d, A) = SumFunctionOnSet(d, A \cap S) + SumFunctionOnSet(d, A \ S)
           /\ SumFunctionOnSet(d, A \cap S) \in Int /\ SumFunctionOnSet(d, A \ S) \in Int
<1> DEFINE T == A \cap S
           R == A \ S
           in == [i \in A |-> IF i \in T THEN d[i] ELSE 0]
           out == [i \in A |-> IF i \in R THEN d[i] ELSE 0]
<1>1. \A i \in A : /\ in[i] \in Int /\ out[i] \in Int /\ d[i] = in[i] + out[i]
                   /\ (i \notin T => in[i] = 0) /\ (i \notin R => out[i] = 0)
                   /\ (i \in T => in[i] = d[i]) /\ (i \in R => out[i] = d[i])
  OBVIOUS
<1>2. T \in SUBSET A /\ R \in SUBSET A
  OBVIOUS
<1>3. IsFiniteSet(T) /\ IsFiniteSet(R)
  BY <1>2, FS_Subset
<1> HIDE DEF T, R, in, out
<1>4. SumFunctionOnSet(d, A) = SumFunctionOnSet(in, A) + SumFunctionOnSet(out, A)
  BY <1>1, SumOfSums
<1>5. SumFunctionOnSet(in, A) = SumFunctionOnSet(in, T)
  BY <1>1, <1>2, SumOfPart
<1>6. SumFunctionOnSet(out, A) = SumFunctionOnSet(out, R)
  BY <1>1, <1>2, SumOfPart
<1>7. SumFunctionOnSet(in, T) = SumFunctionOnSet(d, T)
  <2>1. \A i \in T : in[i] = d[i]
    BY <1>1, <1>2
  <2> QED
    BY <1>3, <2>1, SumOfEqual
<1>8. SumFunctionOnSet(out, R) = SumFunctionOnSet(d, R)
  <2>1. \A i \in R : out[i] = d[i]
    BY <1>1, <1>2
  <2> QED
    BY <1>3, <2>1, SumOfEqual
<1>9. SumFunctionOnSet(d, T) \in Int
  <2>1. \A i \in T : d[i] \in Int
    BY <1>2
  <2> QED
    BY <1>3, <2>1, SumIsInt
<1>10. SumFunctionOnSet(d, R) \in Int
  <2>1. \A i \in R : d[i] \in Int
    BY <1>2
  <2> QED
    BY <1>3, <2>1, SumIsInt
<1> QED
  BY <1>4, <1>5, <1>6, <1>7, <1>8, <1>9, <1>10 DEF T, R

\* What is left when the elements of S no longer count.
LEMMA SumOfRest ==
    ASSUME NEW A, IsFiniteSet(A), NEW S \in SUBSET A, NEW d, NEW f,
           \A i \in A : d[i] \in Int /\ f[i] = IF i \in S THEN 0 ELSE d[i]
    PROVE  /\ SumFunctionOnSet(f, A) + SumFunctionOnSet(d, S) = SumFunctionOnSet(d, A)
           /\ SumFunctionOnSet(f, A) \in Int /\ SumFunctionOnSet(d, S) \in Int
<1>1. /\ SumFunctionOnSet(d, A) = SumFunctionOnSet(d, A \cap S) + SumFunctionOnSet(d, A \ S)
      /\ SumFunctionOnSet(d, A \cap S) \in Int /\ SumFunctionOnSet(d, A \ S) \in Int
  BY SumOfHalves
<1>2. A \cap S = S
  OBVIOUS
<1> DEFINE R == A \ S
<1>3. R \in SUBSET A /\ IsFiniteSet(R)
  BY FS_Subset
<1>4. \A i \in A : f[i] \in Int /\ (i \notin R => f[i] = 0) /\ (i \in R => f[i] = d[i])
  OBVIOUS
<1> HIDE DEF R
<1>5. SumFunctionOnSet(f, A) = SumFunctionOnSet(f, R)
  BY <1>3, <1>4, SumOfPart
<1>6. SumFunctionOnSet(f, R) = SumFunctionOnSet(d, R)
  <2>1. \A i \in R : f[i] = d[i]
    BY <1>3, <1>4
  <2> QED
    BY <1>3, <2>1, SumOfEqual
<1>7. SumFunctionOnSet(d, A \cap S) = SumFunctionOnSet(d, S)
  BY <1>2, Zenon
<1>8. SumFunctionOnSet(d, R) = SumFunctionOnSet(d, A \ S)
  BY Zenon DEF R
<1> QED
  BY <1>1, <1>5, <1>6, <1>7, <1>8
=============================================================================
