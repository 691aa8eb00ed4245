------------------------------ MODULE SetLemmas ------------------------------
(***************************************************************************)
(* Facts about sets of integers and finite sets, and about the operators   *)
(* of Rotation, that the proofs of several components rest on.             *)
(***************************************************************************)
EXTENDS Rotation, FiniteSetTheorems, TLAPS

\* A non-empty set of integers with a lower bound has a least element ...
LEMMA LeastExists ==
    ASSUME NEW S \in SUBSET Int, S # {}, NEW b \in Int, \A x \in S : b <= x
    PROVE  \E x \in S : \A y \in S : x <= y
  <1> DEFINE T == {x - b : x \in S}
             R == OpToRel(<, Nat)
  <1>1. T \subseteq Nat /\ T # {}
    <2>1. \A x \in S : x - b \in Nat
      OBVIOUS
    <2> QED  BY <2>1
  <1>2. PICK m \in T : \A y \in T : ~(<<y, m>> \in R)
    <2> HIDE DEF T, R
    <2> QED  BY <1>1, WFMin, NatLessThanWellFounded DEF R
  <1>3. \A y \in T : m <= y
    <2> TAKE y \in T
    <2>1. y \in Nat /\ m \in Nat /\ <<y, m>> \notin R
      <3> HIDE DEF T, R
      <3> QED  BY <1>1, <1>2
    <2>2. y < m => <<y, m>> \in R
      <3> HIDE DEF T
      <3> QED  BY <2>1 DEF OpToRel
    <2> HIDE DEF T, R
    <2> QED  BY <2>1, <2>2
  <1>4. PICK x \in S : m = x - b
    BY <1>2
  <1>5. \A y \in S : x <= y
    <2> TAKE y \in S
    <2>1. m <= y - b
      BY <1>3
    <2> QED  BY <1>4, <2>1
  <1> QED  BY <1>4, <1>5

\* ... and one with an upper bound a greatest.
LEMMA GreatestExists ==
    ASSUME NEW S \in SUBSET Int, S # {}, NEW b \in Int, \A x \in S : x <= b
    PROVE  \E x \in S : \A y \in S : y <= x
  <1> DEFINE T == {-x : x \in S}
  <1>1. T \in SUBSET Int /\ T # {} /\ \A z \in T : -b <= z
    <2>1. \A x \in S : -x \in Int /\ -b <= -x
      OBVIOUS
    <2> QED  BY <2>1
  <1>0. -b \in Int
    OBVIOUS
  <1>2. PICK m \in T : \A z \in T : m <= z
    <2> HIDE DEF T
    <2> QED  BY <1>0, <1>1, LeastExists
  <1>3. PICK x \in S : m = -x
    BY <1>2
  <1>4. \A y \in S : y <= x
    <2> TAKE y \in S
    <2>1. m <= -y
      BY <1>2
    <2> QED  BY <1>3, <2>1
  <1> QED  BY <1>4

\* A finite set needs no bound: of the subsets without a greatest element a
\* smallest one would have a smaller one still.
LEMMA FiniteHasGreatest ==
    ASSUME NEW S \in SUBSET Int, S # {}, IsFiniteSet(S)
    PROVE  \E x \in S : \A y \in S : y <= x
  <1> DEFINE Unbounded == {T \in SUBSET S : T # {} /\ ~\E x \in T : \A y \in T : y <= x}
             R == StrictSubsetOrdering(S)
  <1> SUFFICES ASSUME Unbounded # {}  PROVE FALSE
    OBVIOUS
  <1>1. IsWellFoundedOn(R, SUBSET S)
    BY FS_StrictSubsetOrderingWellFounded, FS_FiniteSubsetsOfFinite
  <1>2. PICK T \in Unbounded : \A U \in Unbounded : ~(<<U, T>> \in R)
    <2>1. Unbounded \subseteq SUBSET S
      OBVIOUS
    <2> HIDE DEF Unbounded, R
    <2> QED  BY <1>1, <2>1, WFMin
  <1>3. PICK x \in T : TRUE
    OBVIOUS
  <1>4. x \in Int /\ T \in SUBSET Int
    OBVIOUS
  <1>5. T \ {x} # {}
    <2> SUFFICES ASSUME T \ {x} = {}  PROVE FALSE
      OBVIOUS
    <2>1. \A y \in T : y <= x
      BY <1>4
    <2> QED  BY <1>2, <1>3, <2>1
  <1>6. T \ {x} \notin Unbounded
    <2>1. T \ {x} \in SUBSET S /\ T \in SUBSET S /\ T \ {x} \subseteq T /\ T \ {x} # T
      BY <1>3
    <2>2. <<T \ {x}, T>> \in R
      BY <2>1 DEF StrictSubsetOrdering
    <2> QED  BY <1>2, <2>2
  <1>7. PICK m \in T \ {x} : \A y \in T \ {x} : y <= m
    BY <1>5, <1>6
  <1>8. \E z \in T : \A y \in T : y <= z
    <2>1. CASE m <= x
      <3>1. \A y \in T : y <= x
        BY <1>4, <1>7, <2>1
      <3> QED  BY <1>3, <3>1
    <2>2. CASE ~(m <= x)
      <3>1. \A y \in T : y <= m
        BY <1>4, <1>7, <2>2
      <3> QED  BY <1>7, <3>1
    <2> QED  BY <2>1, <2>2
  <1> QED  BY <1>2, <1>8

\* What Max and Min of FiniteSetsExt are
LEMMA MaxIsGreatest ==
    ASSUME NEW S \in SUBSET Int, S # {}, IsFiniteSet(S)
    PROVE  Max(S) \in S /\ \A y \in S : y <= Max(S)
  <1>1. \E x \in S : \A y \in S : x >= y
    <2>1. PICK x \in S : \A y \in S : y <= x
      BY FiniteHasGreatest
    <2> QED  BY <2>1
  <1>2. Max(S) \in S /\ \A y \in S : Max(S) >= y
    BY <1>1, Zenon DEF Max
  <1> QED  BY <1>2

\* Among naturals Min needs no finiteness.
LEMMA MinIsLeast ==
    ASSUME NEW S \in SUBSET Nat, S # {}
    PROVE  Min(S) \in S /\ \A y \in S : Min(S) <= y
  <1>1. \E x \in S : \A y \in S : x <= y
    BY LeastExists, 0 \in Int, \A x \in S : 0 <= x, S \in SUBSET Int
  <1> QED  BY <1>1, Zenon DEF Min

\* An injective function keeps the number of elements.
LEMMA ImageHasSameSize ==
    ASSUME NEW S, IsFiniteSet(S), NEW f, \A x, y \in S : f[x] = f[y] => x = y
    PROVE  IsFiniteSet({f[x] : x \in S}) /\ Cardinality({f[x] : x \in S}) = Cardinality(S)
  <1> DEFINE T == {f[x] : x \in S}
             g == [x \in S |-> f[x]]
  <1>1. g \in Bijection(S, T)
    BY DEF Bijection, Injection, Surjection, IsInjective
  <1>2. ExistsBijection(S, T)
    BY <1>1 DEF ExistsBijection
  <1> QED  BY <1>2, FS_Bijection

-----------------------------------------------------------------------------
(* Versions and their numbers *)

\* findLastHighestVersionNumber: no version is above the number, and it is that of
\* a version unless it is 0.
LEMMA HighestIsReached ==
    ASSUME NEW C, NEW num \in [C -> Nat], NEW E \in SUBSET C, IsFiniteSet(E)
    PROVE  /\ HighestNumber(E, num) \in Nat
           /\ \A v \in E : num[v] <= HighestNumber(E, num)
           /\ HighestNumber(E, num) = 0 \/ \E v \in E : num[v] = HighestNumber(E, num)
  <1> DEFINE N == {num[v] : v \in E}
             S == {0} \cup N
  <1>1. IsFiniteSet(N)
    <2> DEFINE g == [v \in E |-> num[v]]
    <2>1. g \in Surjection(E, N)
      BY DEF Surjection
    <2> QED  BY <2>1, FS_Surjection
  <1>2. IsFiniteSet(S) /\ S # {} /\ S \in SUBSET Int /\ S \in SUBSET Nat
    <2>1. IsFiniteSet(N \cup {0})
      BY <1>1, FS_AddElement
    <2>2. N \in SUBSET Nat
      OBVIOUS
    <2> HIDE DEF N
    <2>3. N \cup {0} = S
      OBVIOUS
    <2> QED  BY <2>1, <2>2, <2>3
  <1>3. Max(S) \in S /\ \A y \in S : y <= Max(S)
    <2> HIDE DEF S
    <2> QED  BY <1>2, MaxIsGreatest
  <1>4. HighestNumber(E, num) = Max(S)
    BY DEF HighestNumber
  <1>5. \A v \in E : num[v] \in S
    OBVIOUS
  <1>6. \A y \in S : y = 0 \/ \E v \in E : num[v] = y
    OBVIOUS
  <1> HIDE DEF S
  <1> QED  BY <1>2, <1>3, <1>4, <1>5, <1>6

\* ... which determines it.
LEMMA HighestIsUnique ==
    ASSUME NEW C, NEW num \in [C -> Nat], NEW E \in SUBSET C, IsFiniteSet(E),
           NEW h \in Nat, \A v \in E : num[v] <= h, h = 0 \/ \E v \in E : num[v] = h
    PROVE  HighestNumber(E, num) = h
  <1> DEFINE H == HighestNumber(E, num)
  <1>1. H \in Nat /\ (\A v \in E : num[v] <= H) /\ (H = 0 \/ \E v \in E : num[v] = H)
    BY HighestIsReached
  <1>2. \A v \in E : num[v] \in Nat
    OBVIOUS
  <1> HIDE DEF H
  <1>3. H <= h
    BY <1>1
  <1>4. h <= H
    BY <1>1, <1>2
  <1>5. H = h
    BY <1>1, <1>3, <1>4
  <1> QED  BY <1>5 DEF H

\* Among any versions one has the least number.
LEMMA OldestExists ==
    ASSUME NEW C, NEW num \in [C -> Nat], NEW V \in SUBSET C, V # {}
    PROVE  \E v \in V : \A w \in V : num[v] <= num[w]
  <1> DEFINE N == {num[v] : v \in V}
  <1>1. N \in SUBSET Int /\ N # {} /\ 0 \in Int /\ \A n \in N : 0 <= n
    OBVIOUS
  <1>2. PICK n \in N : \A m \in N : n <= m
    <2> HIDE DEF N
    <2> QED  BY <1>1, LeastExists
  <1>3. PICK v \in V : num[v] = n
    BY <1>2
  <1>4. \A w \in V : num[w] \in N
    OBVIOUS
  <1> QED  BY <1>2, <1>3, <1>4

\* And among finitely many, one the greatest.
LEMMA YoungestExists ==
    ASSUME NEW C, NEW num \in [C -> Nat], NEW V \in SUBSET C, V # {}, IsFiniteSet(V)
    PROVE  \E v \in V : \A w \in V : num[w] <= num[v]
  <1> DEFINE h == HighestNumber(V, num)
  <1>1. h \in Nat /\ (\A v \in V : num[v] <= h) /\ (h = 0 \/ \E v \in V : num[v] = h)
    BY HighestIsReached
  <1>2. \A v \in V : num[v] \in Nat
    OBVIOUS
  <1> HIDE DEF h
  <1>3. \E v \in V : num[v] = h
    <2> SUFFICES ASSUME h = 0  PROVE \E v \in V : num[v] = h
      BY <1>1
    <2>1. PICK v \in V : TRUE
      OBVIOUS
    <2> QED  BY <1>1, <1>2, <2>1
  <1> QED  BY <1>1, <1>3

\* GetVersionsThatShouldBeDeletedIfThisVersionUploaded: only existing versions, none
\* of them newer than one that stays; where any is given up, a place is left free
\* for the new version and no more.
LEMMA PlanIsFifo ==
    ASSUME NEW spec, IsSpec(spec), NEW E, IsFiniteSet(E), NEW num,
           NEW doomed \in VersionsToDelete(spec, E, num)
    PROVE  /\ doomed \subseteq E
           /\ \A v \in doomed, w \in E \ doomed : num[v] <= num[w]
           /\ doomed # {} => Cardinality(E \ doomed) >= spec.maxBackupsCount - 1
           /\ spec.maxBackupsCount >= 1 => Cardinality(E \ doomed) <= spec.maxBackupsCount - 1
           /\ spec.maxBackupsCount = 0 => E \ doomed = {}
  <1> DEFINE count == Cardinality(E)
             limit == spec.maxBackupsCount
             k == Min({count, count - limit + 1})
  <1>1. count \in Nat /\ limit \in Nat
    BY FS_CardinalityType DEF IsSpec
  <1>2. CASE count < limit
    <2>1. doomed = {}
      BY <1>2 DEF VersionsToDelete
    <2>2. E \ doomed = E
      BY <2>1
    <2> QED  BY <1>1, <1>2, <2>1, <2>2
  <1>3. CASE ~(count < limit)
    <2>1. doomed \in SUBSET E /\ Cardinality(doomed) = k
          /\ \A v \in doomed, w \in E \ doomed : num[v] <= num[w]
      BY <1>3, Zenon DEF VersionsToDelete, Oldest, kSubset
    <2>2. Cardinality(E \ doomed) = count - k
      <3>1. E \cap doomed = doomed
        BY <2>1
      <3>2. Cardinality(E \ doomed) = Cardinality(E) - Cardinality(E \cap doomed)
        BY FS_Difference
      <3> HIDE DEF k
      <3> QED  BY <2>1, <3>1, <3>2
    <2>3. k \in {count, count - limit + 1} /\ k <= count /\ k <= count - limit + 1
      <3> DEFINE S == {count, count - limit + 1}
      <3>1. S \in SUBSET Nat /\ S # {} /\ count \in S /\ count - limit + 1 \in S
        BY <1>1, <1>3
      <3>2. Min(S) \in S /\ \A y \in S : Min(S) <= y
        <4> HIDE DEF S
        <4> QED  BY <3>1, MinIsLeast
      <3> QED  BY <3>1, <3>2
    <2>4. k \in Int
      BY <1>1, <2>3
    <2> HIDE DEF k, count, limit
    <2>5. count - k >= limit - 1
      BY <1>1, <2>3, <2>4
    <2>6. limit >= 1 => count - k <= limit - 1
      BY <1>1, <2>3, <2>4
    <2>7. limit = spec.maxBackupsCount
      BY DEF limit
    <2>8. limit = 0 => E \ doomed = {}
      <3>1. limit = 0 => Cardinality(E \ doomed) = 0
        BY <1>1, <2>2, <2>3, <2>4
      <3>2. IsFiniteSet(E \ doomed)
        BY FS_Difference
      <3> QED  BY <3>1, <3>2, FS_EmptySet
    <2> QED  BY <2>1, <2>2, <2>5, <2>6, <2>7, <2>8
  <1> QED  BY <1>2, <1>3

\* The versions with fewer than L newer ones are L, or all where there are fewer.
LEMMA NewestAreMany ==
    ASSUME NEW C, NEW num \in [C -> Nat], NEW A \in SUBSET C, IsFiniteSet(A), NEW L \in Nat
    PROVE  LET top == {v \in A : Cardinality({w \in A : num[w] > num[v]}) < L}
           IN  Cardinality(top) >= L \/ top = A
  <1> DEFINE Newer(v) == {w \in A : num[w] > num[v]}
             top == {v \in A : Cardinality(Newer(v)) < L}
  <1> SUFFICES ASSUME top # A  PROVE Cardinality(top) >= L
    OBVIOUS
  <1>1. A \ top # {} /\ A \ top \in SUBSET C /\ IsFiniteSet(A \ top)
    BY FS_Difference
  <1>2. PICK v \in A \ top : \A w \in A \ top : num[w] <= num[v]
    <2> HIDE DEF top
    <2> QED  BY <1>1, YoungestExists
  <1>3. Newer(v) \subseteq top
    <2> SUFFICES ASSUME NEW w \in A, num[w] > num[v], w \notin top  PROVE FALSE
      OBVIOUS
    <2>1. num[w] <= num[v] /\ num[w] \in Nat /\ num[v] \in Nat
      BY <1>2
    <2> QED  BY <2>1
  <1>4. IsFiniteSet(top) /\ IsFiniteSet(Newer(v))
    BY FS_Subset, top \in SUBSET A, Newer(v) \in SUBSET A
  <1>5. Cardinality(Newer(v)) <= Cardinality(top)
    BY <1>3, <1>4, FS_Subset
  <1>6. Cardinality(Newer(v)) \in Nat /\ Cardinality(top) \in Nat
    BY <1>4, FS_CardinalityType
  <1>7. ~(Cardinality(Newer(v)) < L)
    BY <1>2
  <1> HIDE DEF Newer, top
  <1> QED  BY <1>5, <1>6, <1>7

\* Where the numbers are distinct they are not more than L.
LEMMA NewestAreFew ==
    ASSUME NEW C, NEW num \in [C -> Nat], NEW A \in SUBSET C, IsFiniteSet(A), NEW L \in Nat,
           \A v, w \in A : num[v] = num[w] => v = w
    PROVE  Cardinality({v \in A : Cardinality({w \in A : num[w] > num[v]}) < L}) <= L
  <1> DEFINE Newer(v) == {w \in A : num[w] > num[v]}
             top == {v \in A : Cardinality(Newer(v)) < L}
  <1>0. top \in SUBSET C /\ IsFiniteSet(top) /\ Cardinality(top) \in Nat
    <2>1. top \in SUBSET A
      OBVIOUS
    <2> QED  BY <2>1, FS_Subset, FS_CardinalityType
  <1>1. CASE top = {}
    <2>1. Cardinality(top) = 0
      BY <1>1, FS_EmptySet, Zenon
    <2>2. Cardinality(top) <= L
      <3> HIDE DEF top
      <3> QED  BY <2>1
    <2> QED  BY <2>2
  <1>2. CASE top # {}
    <2>1. PICK v \in top : \A w \in top : num[v] <= num[w]
      <3> HIDE DEF top
      <3> QED  BY <1>0, <1>2, OldestExists
    <2>2. top \ {v} \subseteq Newer(v)
      <3> SUFFICES ASSUME NEW w \in top, w # v  PROVE num[w] > num[v]
        OBVIOUS
      <3>1. num[v] <= num[w] /\ num[v] # num[w] /\ num[v] \in Nat /\ num[w] \in Nat
        BY <2>1
      <3> QED  BY <3>1
    <2>3. IsFiniteSet(Newer(v)) /\ Cardinality(Newer(v)) \in Nat /\ Cardinality(Newer(v)) < L
      <3>1. IsFiniteSet(Newer(v))
        BY FS_Subset, Newer(v) \in SUBSET A
      <3> QED  BY <2>1, <3>1, FS_CardinalityType
    <2> HIDE DEF Newer, top
    <2>4. Cardinality(top \ {v}) = Cardinality(top) - 1
      BY <1>0, <2>1, FS_RemoveElement
    <2>5. Cardinality(top \ {v}) <= Cardinality(Newer(v))
      BY <2>2, <2>3, FS_Subset
    <2>6. Cardinality(top) <= L
      BY <1>0, <2>3, <2>4, <2>5
    <2> QED  BY <2>6 DEF top, Newer
  <1> QED  BY <1>1, <1>2

-----------------------------------------------------------------------------
(* Sums *)

\* Of the subsets of a finite set that have some property one is minimal: the form
\* in which the lemmas below use induction over finite sets.
LEMMA MinimalSet ==
    ASSUME NEW S, IsFiniteSet(S), NEW B \in SUBSET SUBSET S, B # {}
    PROVE  \E T \in B : \A U \in B : U \subseteq T => U = T
  <1> DEFINE R == StrictSubsetOrdering(S)
  <1>1. IsWellFoundedOn(R, SUBSET S)
    BY FS_StrictSubsetOrderingWellFounded, FS_FiniteSubsetsOfFinite
  <1>2. PICK T \in B : \A U \in B : ~(<<U, T>> \in R)
    <2> HIDE DEF R
    <2> QED  BY <1>1, WFMin
  <1>3. \A U \in B : U \subseteq T => U = T
    BY <1>2 DEF StrictSubsetOrdering
  <1> QED  BY <1>3

\* The recursion that MapThenSumSet goes by: an arbitrary element and the rest
Pick(s) == CHOOSE x \in s : TRUE
IsSum(g, f, S) ==
    g = [s \in SUBSET S |-> IF s = {} THEN 0 ELSE f[Pick(s)] + g[s \ {Pick(s)}]]

\* What is picked is an element.
LEMMA PickIsElement == ASSUME NEW s, s # {} PROVE Pick(s) \in s
  BY DEF Pick

\* What IsSum says of each subset
LEMMA SumAt ==
    ASSUME NEW S, NEW f, NEW g, IsSum(g, f, S), NEW s \in SUBSET S
    PROVE  g[s] = IF s = {} THEN 0 ELSE f[Pick(s)] + g[s \ {Pick(s)}]
  BY DEF IsSum

\* Two sums agree wherever both are defined.
LEMMA SumsAgree ==
    ASSUME NEW S, IsFiniteSet(S), NEW T, S \subseteq T, NEW f, NEW g, NEW h,
           IsSum(g, f, S), IsSum(h, f, T)
    PROVE  g[S] = h[S]
  <1> DEFINE B == {s \in SUBSET S : g[s] # h[s]}
  <1> SUFFICES ASSUME B # {}  PROVE FALSE
    OBVIOUS
  <1>1. PICK s \in B : \A u \in B : u \subseteq s => u = s
    <2>1. B \in SUBSET SUBSET S
      OBVIOUS
    <2> HIDE DEF B
    <2> QED  BY <2>1, MinimalSet
  <1>2. s \in SUBSET S /\ s \in SUBSET T /\ g[s] # h[s]
    BY <1>1
  <1>3. s # {}
    BY <1>2, SumAt
  <1>4. Pick(s) \in s
    BY <1>3, PickIsElement
  <1>5. g[s \ {Pick(s)}] = h[s \ {Pick(s)}]
    <2>1. s \ {Pick(s)} \in SUBSET S /\ s \ {Pick(s)} # s
      BY <1>2, <1>4
    <2> QED  BY <1>1, <2>1
  <1>6. g[s] = h[s]
    BY <1>2, <1>3, <1>5, SumAt
  <1> QED  BY <1>2, <1>6

\* A finite set has a sum.
LEMMA SumExists ==
    ASSUME NEW S, IsFiniteSet(S), NEW f
    PROVE  \E g : IsSum(g, f, S)
  <1> DEFINE B == {s \in SUBSET S : ~\E g : IsSum(g, f, s)}
  <1> SUFFICES ASSUME B # {}  PROVE FALSE
    OBVIOUS
  <1>1. PICK T \in B : \A u \in B : u \subseteq T => u = T
    <2>1. B \in SUBSET SUBSET S
      OBVIOUS
    <2> HIDE DEF B
    <2> QED  BY <2>1, MinimalSet
  <1> DEFINE Of(s) == CHOOSE g : IsSum(g, f, s)
             P == (SUBSET T) \ {T}
  <1>2. \A s \in P : IsSum(Of(s), f, s)
    <2> TAKE s \in P
    <2>1. \E g : IsSum(g, f, s)
      BY <1>1
    <2> QED  BY <2>1, Zenon
  <1>3. \A s \in P : s # {} =>
           /\ s \ {Pick(s)} \in P
           /\ Of(s)[s] = f[Pick(s)] + Of(s \ {Pick(s)})[s \ {Pick(s)}]
    <2> SUFFICES ASSUME NEW s \in P, s # {}
                 PROVE /\ s \ {Pick(s)} \in P
                       /\ Of(s)[s] = f[Pick(s)] + Of(s \ {Pick(s)})[s \ {Pick(s)}]
      OBVIOUS
    <2> DEFINE u == s \ {Pick(s)}
    <2>0. Pick(s) \in s
      BY PickIsElement
    <2>1. u \in P /\ IsFiniteSet(u) /\ u \subseteq s
      <3>1. u \in P /\ u \in SUBSET S
        BY <1>1, <2>0
      <3> QED  BY <3>1, FS_Subset
    <2>2. IsSum(Of(u), f, u) /\ IsSum(Of(s), f, s)
      BY <1>2, <2>1
    <2> HIDE DEF Of, u
    <2>3. Of(u)[u] = Of(s)[u]
      BY <2>1, <2>2, SumsAgree
    <2>4. s \in SUBSET s
      OBVIOUS
    <2>5. Of(s)[s] = f[Pick(s)] + Of(s)[s \ {Pick(s)}]
      BY <2>2, <2>4, SumAt
    <2> QED  BY <2>1, <2>3, <2>5 DEF u
  <1>4. {} \in P => Of({})[{}] = 0
    <2> SUFFICES ASSUME {} \in P  PROVE Of({})[{}] = 0
      OBVIOUS
    <2>1. IsSum(Of({}), f, {})
      BY <1>2
    <2> HIDE DEF Of
    <2> QED  BY <2>1, SumAt, {} \in SUBSET {}
  <1> DEFINE x == Pick(T)
             h == [s \in SUBSET T |->
                     IF s = {} THEN 0
                     ELSE IF s = T THEN f[x] + Of(T \ {x})[T \ {x}] ELSE Of(s)[s]]
  <1>5. \A s \in SUBSET T : h[s] = IF s = {} THEN 0 ELSE f[Pick(s)] + h[s \ {Pick(s)}]
    <2> TAKE s \in SUBSET T
    <2>9. s = {} => h[s] = 0
      OBVIOUS
    <2> SUFFICES ASSUME s # {}
                 PROVE  h[s] = f[Pick(s)] + h[s \ {Pick(s)}]
      <3> HIDE DEF h
      <3> QED  BY <2>9
    <2>0. Pick(s) \in s
      BY PickIsElement
    <2> DEFINE u == s \ {Pick(s)}
    <2>1. u \in P
      BY <2>0
    <2>2. h[u] = Of(u)[u]
      <3> HIDE DEF Of, u
      <3>1. CASE u = {}
        BY <1>4, <2>1, <3>1
      <3>2. CASE u # {}
        BY <2>1, <3>2
      <3> QED  BY <3>1, <3>2
    <2>3. h[s] = f[Pick(s)] + Of(u)[u]
      <3> HIDE DEF Of
      <3>1. CASE s = T
        BY <3>1
      <3>2. CASE s # T
        <4>1. s \in P
          BY <3>2
        <4>2. Of(s)[s] = f[Pick(s)] + Of(u)[u]
          BY <1>3, <4>1
        <4> QED  BY <4>2, <3>2
      <3> QED  BY <3>1, <3>2
    <2> HIDE DEF h, Of
    <2> QED  BY <2>2, <2>3
  <1>6. h = [s \in SUBSET T |-> h[s]]
    OBVIOUS
  <1>7. IsSum(h, f, T)
    <2> HIDE DEF h, Of, B, P
    <2> QED  BY <1>5, <1>6 DEF IsSum
  <1>8. ~\E g : IsSum(g, f, T)
    BY <1>1
  <1> QED  BY <1>7, <1>8

\* MapThenSumSet is that sum.
LEMMA TotalIsSum ==
    ASSUME NEW S, IsFiniteSet(S), NEW f
    PROVE  \E g : IsSum(g, f, S) /\ Total(f, S) = g[S]
  <1> DEFINE g == CHOOSE g : IsSum(g, f, S)
  <1>0. \E h : IsSum(h, f, S)
    BY SumExists
  <1>1. IsSum(g, f, S)
    BY <1>0, Zenon
  <1>2. Total(f, S) = g[S]
    BY DEF Total, MapThenSumSet, MapThenFoldSet, IsSum, Pick
  <1> QED BY <1>1, <1>2

\* Nothing adds up to 0.
LEMMA TotalOfNone == ASSUME NEW f PROVE Total(f, {}) = 0
  <1>1. PICK g : IsSum(g, f, {}) /\ Total(f, {}) = g[{}]
    BY TotalIsSum, FS_EmptySet
  <1> QED  BY <1>1, SumAt, {} \in SUBSET {}

\* The recursion, for the element that MapThenSumSet picks
LEMMA TotalPicks ==
    ASSUME NEW S, IsFiniteSet(S), S # {}, NEW f
    PROVE  Total(f, S) = f[Pick(S)] + Total(f, S \ {Pick(S)})
  <1> DEFINE U == S \ {Pick(S)}
  <1>1. IsFiniteSet(U) /\ U \subseteq S
    BY FS_RemoveElement
  <1> HIDE DEF U
  <1>2. PICK g : IsSum(g, f, S) /\ Total(f, S) = g[S]
    BY TotalIsSum
  <1>3. PICK h : IsSum(h, f, U) /\ Total(f, U) = h[U]
    BY <1>1, TotalIsSum
  <1>4. h[U] = g[U]
    BY <1>1, <1>2, <1>3, SumsAgree
  <1>5. g[S] = f[Pick(S)] + g[S \ {Pick(S)}]
    BY <1>2, SumAt, S \in SUBSET S
  <1> QED  BY <1>2, <1>3, <1>4, <1>5 DEF U

\* The sum of integers is one, and any element can be taken out of it.
LEMMA TotalTakesOut ==
    ASSUME NEW S, IsFiniteSet(S), NEW f, \A x \in S : f[x] \in Int
    PROVE  /\ Total(f, S) \in Int
           /\ \A x \in S : Total(f, S) = f[x] + Total(f, S \ {x})
  <1> DEFINE Good(T) == /\ Total(f, T) \in Int
                        /\ \A x \in T : Total(f, T) = f[x] + Total(f, T \ {x})
             B == {T \in SUBSET S : ~Good(T)}
  <1> SUFFICES ASSUME B # {}  PROVE FALSE
    <2>1. S \in SUBSET S
      OBVIOUS
    <2> QED  BY <2>1
  <1>1. PICK T \in B : \A U \in B : U \subseteq T => U = T
    <2>1. B \in SUBSET SUBSET S
      OBVIOUS
    <2> HIDE DEF B
    <2> QED  BY <2>1, MinimalSet
  <1>2. T \in SUBSET S /\ ~Good(T) /\ IsFiniteSet(T)
    <2>1. T \in SUBSET S /\ ~Good(T)
      BY <1>1
    <2> QED  BY <2>1, FS_Subset
  <1>3. \A x \in T : Good(T \ {x})
    <2> TAKE x \in T
    <2>1. T \ {x} \in SUBSET S /\ T \ {x} # T
      BY <1>2
    <2> HIDE DEF Good
    <2> QED  BY <1>1, <2>1
  <1>4. T # {}
    <2> SUFFICES ASSUME T = {}  PROVE FALSE
      OBVIOUS
    <2>1. Total(f, T) = 0
      BY TotalOfNone
    <2> QED  BY <1>2, <2>1
  <1> DEFINE y == Pick(T)
  <1>5. y \in T /\ Total(f, T) = f[y] + Total(f, T \ {y})
    BY <1>2, <1>4, PickIsElement, TotalPicks
  <1> HIDE DEF y, B
  <1>6. Total(f, T \ {y}) \in Int /\ f[y] \in Int
    BY <1>2, <1>3, <1>5
  <1>7. ASSUME NEW x \in T  PROVE Total(f, T) = f[x] + Total(f, T \ {x})
    <2>1. CASE x = y
      BY <1>5, <2>1
    <2>2. CASE x # y
      <3>1. x \in T \ {y} /\ y \in T \ {x} /\ (T \ {y}) \ {x} = (T \ {x}) \ {y}
        BY <1>5, <2>2
      <3>2. Total(f, T \ {y}) = f[x] + Total(f, (T \ {y}) \ {x})
        BY <1>3, <1>5, <3>1
      <3>3. Total(f, T \ {x}) = f[y] + Total(f, (T \ {x}) \ {y})
        BY <1>3, <3>1
      <3>4. Total(f, (T \ {x}) \ {y}) \in Int
        <4> DEFINE V == (T \ {x}) \ {y}
        <4>1. V \in SUBSET S /\ V \subseteq T /\ V # T
          BY <1>2, <1>5
        <4>2. Good(V)
          <5> HIDE DEF Good, V
          <5> QED  BY <1>1, <4>1 DEF B
        <4> QED  BY <4>2
      <3>5. f[x] \in Int
        BY <1>2
      <3>6. Total(f, T) = f[y] + (f[x] + Total(f, (T \ {x}) \ {y}))
        BY <1>5, <3>1, <3>2
      <3> QED  BY <1>6, <3>3, <3>4, <3>5, <3>6
    <2> QED  BY <2>1, <2>2
  <1>8. Good(T)
    BY <1>5, <1>6, <1>7
  <1> QED  BY <1>2, <1>8

\* A sum over more, of larger and non-negative terms, is not less.
LEMMA TotalIsMonotonic ==
    ASSUME NEW S, IsFiniteSet(S), NEW A \in SUBSET S, NEW f, NEW g,
           \A x \in S : f[x] \in Int /\ g[x] \in Int,
           \A x \in A : f[x] <= g[x],
           \A x \in S \ A : 0 <= g[x]
    PROVE  Total(f, A) <= Total(g, S)
  <1> DEFINE B == {T \in SUBSET S : ~(Total(f, A \cap T) <= Total(g, T))}
  <1> SUFFICES ASSUME B # {}  PROVE FALSE
    <2>1. S \in SUBSET S /\ A \cap S = A
      OBVIOUS
    <2> QED  BY <2>1
  <1>1. PICK T \in B : \A U \in B : U \subseteq T => U = T
    <2>1. B \in SUBSET SUBSET S
      OBVIOUS
    <2> HIDE DEF B
    <2> QED  BY <2>1, MinimalSet
  <1>2. T \in SUBSET S /\ ~(Total(f, A \cap T) <= Total(g, T))
    BY <1>1
  <1>3. IsFiniteSet(T) /\ IsFiniteSet(A \cap T)
    BY <1>2, FS_Subset
  <1>4. T # {}
    <2> SUFFICES ASSUME T = {}  PROVE FALSE
      OBVIOUS
    <2>1. A \cap T = {}
      OBVIOUS
    <2>2. Total(f, {}) = 0 /\ Total(g, {}) = 0
      BY TotalOfNone
    <2>3. Total(f, A \cap T) = 0 /\ Total(g, T) = 0
      BY <2>1, <2>2
    <2>4. Total(f, A \cap T) <= Total(g, T)
      BY <2>3
    <2> QED  BY <1>2, <2>4
  <1>5. PICK x \in T : TRUE
    BY <1>4
  <1>6. Total(f, A \cap (T \ {x})) <= Total(g, T \ {x})
    <2>1. T \ {x} \in SUBSET S /\ T \ {x} # T
      BY <1>2, <1>5
    <2> QED  BY <1>1, <2>1
  <1>7. IsFiniteSet(T \ {x}) /\ IsFiniteSet(A \cap (T \ {x}))
    <2>1. T \ {x} \subseteq T /\ A \cap (T \ {x}) \subseteq T
      OBVIOUS
    <2> QED  BY <1>3, <2>1, FS_Subset
  <1>8. /\ Total(g, T) = g[x] + Total(g, T \ {x}) /\ Total(g, T \ {x}) \in Int
        /\ Total(f, A \cap (T \ {x})) \in Int
    BY <1>2, <1>3, <1>5, <1>7, TotalTakesOut
  <1>9. Total(f, A \cap T) <= Total(g, T)
    <2>1. CASE x \in A
      <3>1. x \in A \cap T /\ (A \cap T) \ {x} = A \cap (T \ {x})
        BY <1>5, <2>1
      <3>2. Total(f, A \cap T) = f[x] + Total(f, (A \cap T) \ {x})
        BY <1>2, <1>3, <3>1, TotalTakesOut
      <3>3. f[x] \in Int /\ g[x] \in Int /\ f[x] <= g[x]
        BY <2>1
      <3>4. Total(f, A \cap T) = f[x] + Total(f, A \cap (T \ {x}))
        BY <3>1, <3>2
      <3> HIDE DEF B
      <3> QED  BY <1>6, <1>8, <3>3, <3>4
    <2>2. CASE x \notin A
      <3>1. A \cap T = A \cap (T \ {x})
        BY <2>2
      <3>2. g[x] \in Int /\ 0 <= g[x]
        BY <1>2, <1>5, <2>2
      <3> QED  BY <1>6, <1>8, <3>1, <3>2
    <2> QED  BY <2>1, <2>2
  <1> QED  BY <1>2, <1>9

\* Non-negative terms: so is their sum.
LEMMA TotalIsNat ==
    ASSUME NEW S, IsFiniteSet(S), NEW f, \A x \in S : f[x] \in Nat
    PROVE  Total(f, S) \in Nat
  <1>0. \A x \in S : f[x] \in Int /\ 0 <= f[x]
    OBVIOUS
  <1>1. Total(f, S) \in Int
    BY <1>0, TotalTakesOut
  <1>2. Total(f, {}) <= Total(f, S)
    BY <1>0, TotalIsMonotonic
  <1> QED  BY <1>1, <1>2, TotalOfNone

\* Only the terms of the set's own elements count.
LEMMA TotalAgrees ==
    ASSUME NEW S, IsFiniteSet(S), NEW f, NEW g, \A x \in S : f[x] \in Int /\ g[x] = f[x]
    PROVE  Total(f, S) = Total(g, S)
  <1>1. \A x \in S : f[x] \in Int /\ g[x] \in Int /\ f[x] <= g[x] /\ g[x] <= f[x]
    OBVIOUS
  <1>2. Total(f, S) \in Int /\ Total(g, S) \in Int
    BY <1>1, TotalTakesOut
  <1>3. Total(f, S) <= Total(g, S)
    BY <1>1, TotalIsMonotonic
  <1>4. Total(g, S) <= Total(f, S)
    BY <1>1, TotalIsMonotonic
  <1> QED  BY <1>2, <1>3, <1>4

\* A new element adds its term.
LEMMA TotalAdds ==
    ASSUME NEW S, IsFiniteSet(S), NEW f, NEW x, x \notin S, \A y \in S \cup {x} : f[y] \in Int
    PROVE  Total(f, S \cup {x}) = f[x] + Total(f, S)
  <1> DEFINE T == S \cup {x}
  <1>1. IsFiniteSet(T) /\ x \in T /\ T \ {x} = S /\ \A y \in T : f[y] \in Int
    BY FS_AddElement
  <1> HIDE DEF T
  <1>2. Total(f, T) = f[x] + Total(f, T \ {x})
    BY <1>1, TotalTakesOut
  <1> QED  BY <1>1, <1>2 DEF T

\* Terms that are larger by c at most: the sum is larger by c for each of them at most.
LEMMA TotalIsBounded ==
    ASSUME NEW S, IsFiniteSet(S), NEW f, NEW g, NEW c \in Nat,
           \A x \in S : f[x] \in Int /\ g[x] \in Int /\ f[x] <= c + g[x]
    PROVE  Total(f, S) <= c * Cardinality(S) + Total(g, S)
  <1> DEFINE Good(T) == Total(f, T) <= c * Cardinality(T) + Total(g, T)
             B == {T \in SUBSET S : ~Good(T)}
  <1> SUFFICES ASSUME B # {}  PROVE FALSE
    <2>1. S \in SUBSET S
      OBVIOUS
    <2> QED  BY <2>1
  <1>1. PICK T \in B : \A U \in B : U \subseteq T => U = T
    <2>1. B \in SUBSET SUBSET S
      OBVIOUS
    <2> HIDE DEF B
    <2> QED  BY <2>1, MinimalSet
  <1>2. T \in SUBSET S /\ ~Good(T) /\ IsFiniteSet(T)
    <2>1. T \in SUBSET S /\ ~Good(T)
      BY <1>1
    <2> QED  BY <2>1, FS_Subset
  <1>3. T # {}
    <2> SUFFICES ASSUME T = {}  PROVE FALSE
      OBVIOUS
    <2>1. Total(f, T) = 0 /\ Total(g, T) = 0 /\ Cardinality(T) = 0
      BY TotalOfNone, FS_EmptySet
    <2> QED  BY <1>2, <2>1
  <1>4. PICK x \in T : TRUE
    BY <1>3
  <1>5. Good(T \ {x})
    <2>1. T \ {x} \in SUBSET S /\ T \ {x} # T
      BY <1>2, <1>4
    <2> HIDE DEF Good
    <2> QED  BY <1>1, <2>1
  <1>6. IsFiniteSet(T \ {x}) /\ Cardinality(T \ {x}) = Cardinality(T) - 1
        /\ Cardinality(T) \in Nat
    BY <1>2, <1>4, FS_RemoveElement, FS_CardinalityType
  <1>7. /\ Total(f, T) = f[x] + Total(f, T \ {x}) /\ Total(g, T) = g[x] + Total(g, T \ {x})
        /\ Total(f, T \ {x}) \in Int /\ Total(g, T \ {x}) \in Int
    BY <1>2, <1>4, <1>6, TotalTakesOut
  <1>8. f[x] \in Int /\ g[x] \in Int /\ f[x] <= c + g[x]
    BY <1>2, <1>4
  <1>9. c * Cardinality(T) = c * (Cardinality(T) - 1) + c /\ c * (Cardinality(T) - 1) \in Int
    <2> DEFINE n == Cardinality(T)
    <2>1. n \in Nat
      BY <1>6
    <2> HIDE DEF n
    <2>2. c * n = c * (n - 1) + c /\ c * (n - 1) \in Int
      BY <2>1
    <2> QED  BY <2>2 DEF n
  <1> DEFINE m == c * (Cardinality(T) - 1)
             a == Total(f, T \ {x})
             b == Total(g, T \ {x})
  <1>10. a <= m + b
    BY <1>5, <1>6
  <1>11. /\ a \in Int /\ b \in Int /\ m \in Int /\ Total(f, T) = f[x] + a
         /\ Total(g, T) = g[x] + b /\ c * Cardinality(T) = m + c
    BY <1>7, <1>9
  <1> HIDE DEF m, a, b
  <1>12. Total(f, T) <= (m + c) + Total(g, T)
    BY <1>8, <1>10, <1>11
  <1> QED  BY <1>2, <1>11, <1>12

\* Zeros add up to 0.
LEMMA TotalOfZeros ==
    ASSUME NEW S, IsFiniteSet(S), NEW f, \A x \in S : f[x] = 0
    PROVE  Total(f, S) = 0
  <1> DEFINE B == {T \in SUBSET S : Total(f, T) # 0}
  <1> SUFFICES ASSUME B # {}  PROVE FALSE
    OBVIOUS
  <1>1. PICK T \in B : \A U \in B : U \subseteq T => U = T
    <2>1. B \in SUBSET SUBSET S
      OBVIOUS
    <2> HIDE DEF B
    <2> QED  BY <2>1, MinimalSet
  <1>2. T \in SUBSET S /\ Total(f, T) # 0 /\ IsFiniteSet(T)
    BY <1>1, FS_Subset
  <1>3. PICK x \in T : TRUE
    BY <1>2, TotalOfNone
  <1>4. T \ {x} \in SUBSET S /\ T \ {x} # T /\ T \ {x} \subseteq T
    BY <1>2, <1>3
  <1>5. Total(f, T \ {x}) = 0
    BY <1>1, <1>4
  <1>6. \A y \in T : f[y] \in Int /\ f[y] = 0
    BY <1>2
  <1> HIDE DEF B
  <1>7. Total(f, T) = f[x] + Total(f, T \ {x})
    BY <1>2, <1>3, <1>6, TotalTakesOut
  <1> QED  BY <1>2, <1>3, <1>5, <1>6, <1>7

\* CalculateAllocatedSpaceAboveSingleVersionLimit is not negative, and
\* CalculateMaximumAllowedUploadFilesize not below the limit of one version unless
\* it reports a corrupted collection.
LEMMA AllowedIsAtLeastOne ==
    ASSUME NEW spec, IsSpec(spec), NEW E, IsFiniteSet(E), NEW D,
           NEW size, \A v \in E : size[v] \in Nat
    PROVE  /\ SpaceAboveLimit(spec, E \ D, size) \in Nat
           /\ ExtraSpace(spec) \in Int
           /\ ~IsCorrupted(spec, E, D, size) =>
                 /\ MaximumAllowedFilesize(spec, E, D, size) \in Nat
                 /\ MaximumAllowedFilesize(spec, E, D, size) >= spec.maxOneVersionSize
  <1> DEFINE one == spec.maxOneVersionSize
             above == [v \in E \ D |-> IF size[v] > one THEN size[v] - one ELSE 0]
  <1>1. one \in Nat /\ spec.maxBackupsCount \in Nat /\ spec.maxCollectionSize \in Nat
    BY DEF IsSpec
  <1>2. ExtraSpace(spec) \in Int
    BY <1>1 DEF ExtraSpace
  <1>3. \A v \in E \ D : above[v] \in Nat
    <2> HIDE DEF one
    <2> QED  BY <1>1
  <1>4. IsFiniteSet(E \ D)
    BY FS_Difference
  <1>5. Total(above, E \ D) \in Nat
    <2> HIDE DEF above
    <2> QED  BY <1>3, <1>4, TotalIsNat
  <1>6. SpaceAboveLimit(spec, E \ D, size) \in Nat
    BY <1>5 DEF SpaceAboveLimit
  <1> HIDE DEF above, one
  <1>7. RemainedExtraSpace(spec, E, D, size) \in Int
    BY <1>2, <1>6 DEF RemainedExtraSpace
  <1>8. MaximumAllowedFilesize(spec, E, D, size) =
           IF ExtraSpace(spec) = 0 THEN one ELSE RemainedExtraSpace(spec, E, D, size) + one
    BY DEF MaximumAllowedFilesize, one
  <1>9. ~IsCorrupted(spec, E, D, size) =>
           ExtraSpace(spec) = 0 \/ RemainedExtraSpace(spec, E, D, size) >= 0
    BY <1>7 DEF IsCorrupted
  <1> QED  BY <1>1, <1>2, <1>6, <1>7, <1>8, <1>9 DEF one
=============================================================================
