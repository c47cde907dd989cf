---------------- MODULE BlockingSetCandidateGeneratorProofs ----------------
(***************************************************************************)
(* Proofs about BlockingSetCandidateGenerator, for clauses of every length *)
(* and every size restriction: what the generator keeps twice agrees, and  *)
(* it implements CandidateEnumeration, so that no candidate is left out or *)
(* handed out again.                                                       *)
(*                                                                         *)
(* The candidates of one size are sets of positions.  The heart of the     *)
(* proof is that advancing the last position that can be advanced leads to *)
(* the next of these sets, in the order of Precedes.                       *)
(***************************************************************************)
EXTENDS BlockingSetCandidateGenerator, FiniteSetTheorems, FunctionTheorems,
        WellFoundedInduction, TLAPS
-----------------------------------------------------------------------------
(* Sets of positions.                                                      *)

\* A non-empty set of numbers has a least element.
LEMMA LeastNatural ==
  ASSUME NEW S \in SUBSET Nat, S # {}
  PROVE  \E m \in S : \A k \in S : m <= k
<1> DEFINE R == OpToRel(<, Nat)
<1>1. IsWellFoundedOn(R, Nat)
  BY NatLessThanWellFounded
<1>2. \A k, m \in S : k < m => <<k, m>> \in R
  BY DEF OpToRel
<1> HIDE DEF R
<1>3. PICK m \in S : \A k \in S : ~(<<k, m>> \in R)
  BY <1>1, WFMin
<1>4. ASSUME NEW k \in S
      PROVE  m <= k
  <2>1. m \in Nat /\ k \in Nat /\ ~(k < m)
    BY <1>2, <1>3
  <2> QED BY <2>1
<1> QED BY <1>4

\* Of two sets of positions of the same size, none is part of the other.
LEMMA SameSizeNotPart ==
  ASSUME NEW n \in Nat, NEW s \in SUBSET (1 .. n), NEW t \in SUBSET (1 .. n),
         Cardinality(s) = Cardinality(t), s \subseteq t
  PROVE  s = t
<1>1. IsFiniteSet(t)
  <2>1. IsFiniteSet(1 .. n)
    BY FS_Interval
  <2> QED BY <2>1, FS_Subset
<1>2. s \in SUBSET t
  OBVIOUS
<1>3. Cardinality(t) = Cardinality(s) => t = s
  BY <1>1, <1>2, FS_Subset
<1> QED BY <1>3

LEMMA PositionsFinite ==
  ASSUME NEW n \in Nat, NEW s \in SUBSET (1 .. n)
  PROVE  Cardinality(s) \in 0 .. n
<1>1. IsFiniteSet(1 .. n) /\ Cardinality(1 .. n) = n
  BY FS_Interval
<1>2. IsFiniteSet(s) /\ Cardinality(s) <= n
  BY <1>1, FS_Subset
<1> QED BY <1>2, FS_CardinalityType

\* The order in which the generator reaches sets of positions is transitive.
LEMMA PrecedesTransitive ==
  ASSUME NEW s \in SUBSET Nat, NEW t \in SUBSET Nat, NEW u \in SUBSET Nat,
         Precedes(s, t), Precedes(t, u)
  PROVE  Precedes(s, u)
<1>1. PICK i \in s \ t : \A j \in (s \ t) \cup (t \ s) : i <= j
  BY DEF Precedes
<1>2. PICK j \in t \ u : \A h \in (t \ u) \cup (u \ t) : j <= h
  BY DEF Precedes
<1>3. i \in Nat /\ j \in Nat /\ i # j
  BY <1>1, <1>2
<1>4. \A h \in (s \ u) \cup (u \ s) : h \in Nat /\ (i <= h \/ j <= h)
  BY <1>1, <1>2
<1>5. CASE i < j
  <2>1. i \in s \ u
    BY <1>1, <1>2, <1>3, <1>5
  <2>2. \A h \in (s \ u) \cup (u \ s) : i <= h
    BY <1>3, <1>4, <1>5
  <2> QED BY <2>1, <2>2 DEF Precedes
<1>6. CASE j < i
  <2>1. j \in s \ u
    BY <1>1, <1>2, <1>3, <1>6
  <2>2. \A h \in (s \ u) \cup (u \ s) : j <= h
    BY <1>3, <1>4, <1>6
  <2> QED BY <2>1, <2>2 DEF Precedes
<1> QED BY <1>3, <1>5, <1>6

\* A set that holds, beyond b, only the last positions comes after all sets of its size
\* that agree with it up to b.
LEMMA LastPositionsComeLast ==
  ASSUME NEW n \in Nat, NEW b \in Nat, NEW s \in SUBSET (1 .. n), NEW t \in SUBSET (1 .. n),
         Cardinality(s) = Cardinality(t), s # t,
         \A i \in 1 .. n : i <= b => (i \in s <=> i \in t),
         \A i, j \in 1 .. n : (i \in t /\ i > b /\ j >= i) => j \in t
  PROVE  Precedes(s, t)
<1> DEFINE D == (s \ t) \cup (t \ s)
<1>1. D \in SUBSET Nat /\ D # {}
  OBVIOUS
<1>2. PICK m \in D : \A k \in D : m <= k
  BY <1>1, LeastNatural
<1>3. CASE m \in s
  BY <1>2, <1>3 DEF Precedes
<1>4. CASE m \notin s
  <2>1. m \in t /\ m \in 1 .. n /\ m > b
    BY <1>2, <1>4
  <2>2. ASSUME NEW k \in s
        PROVE  k \in t
    <3>1. k \in 1 .. n
      OBVIOUS
    <3>2. CASE k < m
      BY <1>2, <2>1, <3>1, <3>2
    <3>3. CASE k >= m
      BY <2>1, <3>1, <3>3
    <3> QED BY <2>1, <3>1, <3>2, <3>3
  <2> QED BY <2>2, SameSizeNotPart
<1> QED BY <1>3, <1>4

\* No set of k positions precedes that of the first k.
LEMMA FirstPositionsComeFirst ==
  ASSUME NEW n \in Nat, NEW k \in 0 .. n, NEW s \in SUBSET (1 .. n), Cardinality(s) = k
  PROVE  ~Precedes(s, 1 .. k)
<1> SUFFICES ASSUME NEW i \in s \ (1 .. k), \A j \in (1 .. k) \ s : i <= j
             PROVE  FALSE
  BY DEF Precedes
<1>1. i \in 1 .. n /\ i > k
  OBVIOUS
<1>2. 1 .. k \subseteq s
  BY <1>1
<1>3. Cardinality(1 .. k) = k
  BY FS_Interval
<1>4. 1 .. k \in SUBSET (1 .. n)
  OBVIOUS
<1>5. s = 1 .. k
  BY <1>2, <1>3, <1>4, SameSizeNotPart
<1> QED BY <1>5

\* Increasing positions: f[p] is the p-th of k positions among n.
Increasing(f, k, n) ==
  /\ \A p \in 1 .. k : f[p] \in p .. n - k + p
  /\ \A p \in 1 .. k - 1 : f[p] < f[p + 1]

Named(f, k) == {f[p] : p \in 1 .. k}

LEMMA IncreasingIsStrict ==
  ASSUME NEW n \in Nat, NEW k \in 0 .. n, NEW f, Increasing(f, k, n),
         NEW p \in 1 .. k, NEW q \in 1 .. k, p < q
  PROVE  f[p] < f[q]
<1>1. \A i \in 1 .. k : f[i] \in Nat
  BY DEF Increasing
<1>2. SUFFICES ASSUME ~(f[p] < f[q]) PROVE FALSE
  OBVIOUS
<1> DEFINE Out == {i \in 1 .. k : p < i /\ ~(f[p] < f[i])}
<1>3. PICK m \in Out : \A i \in Out : m <= i
  <2>1. Out \in SUBSET Nat /\ q \in Out
    BY <1>2
  <2> QED BY <2>1, LeastNatural
<1>4. f[m - 1] < f[m]
  BY <1>3 DEF Increasing
<1>5. m - 1 = p \/ (m - 1 \in 1 .. k /\ p < m - 1 /\ m - 1 \notin Out)
  BY <1>3
<1> QED BY <1>1, <1>3, <1>4, <1>5

\* k increasing positions make a set of k positions.
LEMMA IncreasingPositions ==
  ASSUME NEW n \in Nat, NEW k \in 0 .. n, NEW f, Increasing(f, k, n)
  PROVE  Named(f, k) \in SUBSET (1 .. n) /\ Cardinality(Named(f, k)) = k
<1>1. \A p \in 1 .. k : f[p] \in 1 .. n
  BY DEF Increasing
<1> DEFINE g == [p \in 1 .. k |-> f[p]]
<1>2. g \in [1 .. k -> Named(f, k)] /\ \A i \in Named(f, k) : \E p \in 1 .. k : g[p] = i
  BY DEF Named
<1>3. ASSUME NEW p \in 1 .. k, NEW q \in 1 .. k, g[p] = g[q]
      PROVE  p = q
  <2>1. f[p] = f[q] /\ f[p] \in Nat
    BY <1>1, <1>3
  <2>2. ~(p < q) /\ ~(q < p)
    BY <2>1, IncreasingIsStrict
  <2> QED BY <2>2
<1>4. g \in Bijection(1 .. k, Named(f, k))
  BY <1>2, <1>3 DEF Bijection, Injection, Surjection, IsInjective
<1>5. ExistsBijection(1 .. k, Named(f, k))
  BY <1>4 DEF ExistsBijection
<1>6. IsFiniteSet(1 .. k) /\ Cardinality(1 .. k) = k
  BY FS_Interval
<1>7. Cardinality(Named(f, k)) = k
  BY <1>5, <1>6, FS_Bijection
<1> QED BY <1>1, <1>7 DEF Named

\* AdvancedFrom, of the positions f and the place p to be advanced.
Advanced(f, k, p) == [q \in 1 .. k |-> IF q < p THEN f[q] ELSE f[p] + 1 + (q - p)]

LEMMA AdvancedIncreasing ==
  ASSUME NEW n \in Nat, NEW k \in 0 .. n, NEW f, Increasing(f, k, n),
         NEW p \in 1 .. k, f[p] < n - k + p
  PROVE  Increasing(Advanced(f, k, p), k, n)
<1> DEFINE g == Advanced(f, k, p)
<1>1. f[p] \in Nat /\ p <= f[p]
  BY DEF Increasing
<1>2. ASSUME NEW q \in 1 .. k
      PROVE  g[q] \in q .. n - k + q
  BY <1>1 DEF Increasing, Advanced
<1>3. ASSUME NEW q \in 1 .. k - 1
      PROVE  g[q] < g[q + 1]
  <2>1. f[q] \in Nat /\ f[q] < f[q + 1] /\ q \in 1 .. k /\ q + 1 \in 1 .. k
    BY DEF Increasing
  <2>2. CASE q + 1 < p
    BY <2>1, <2>2 DEF Advanced
  <2>3. CASE q + 1 = p
    BY <1>1, <2>1, <2>3 DEF Advanced
  <2>4. CASE q >= p
    BY <1>1, <2>1, <2>4 DEF Advanced
  <2> QED BY <2>2, <2>3, <2>4
<1> HIDE DEF g
<1>4. Increasing(g, k, n)
  BY <1>2, <1>3 DEF Increasing
<1> QED BY <1>4 DEF g

\* The heart of the matter: when the places behind p can not be advanced, the positions
\* advanced from p are the next ones.
LEMMA AdvancedIsNext ==
  ASSUME NEW n \in Nat, NEW k \in 0 .. n, NEW f, Increasing(f, k, n),
         NEW p \in 1 .. k, f[p] < n - k + p, \A q \in p + 1 .. k : f[q] = n - k + q,
         NEW s \in SUBSET (1 .. n), Cardinality(s) = k
  PROVE  Precedes(s, Named(Advanced(f, k, p), k)) <=>
           Precedes(s, Named(f, k)) \/ s = Named(f, k)
<1> DEFINE t == Named(f, k)
           u == Named(Advanced(f, k, p), k)
           a == f[p]
<1>1. /\ t \in SUBSET (1 .. n) /\ Cardinality(t) = k
      /\ u \in SUBSET (1 .. n) /\ Cardinality(u) = k
  BY IncreasingPositions, AdvancedIncreasing
<1>2. /\ a \in 1 .. n /\ a < n - k + p
      /\ \A q \in 1 .. p - 1 : f[q] \in 1 .. n /\ f[q] < a
  <2>1. \A q \in 1 .. k : f[q] \in q .. n - k + q
    BY DEF Increasing
  <2>2. \A q \in 1 .. p - 1 : q \in 1 .. k /\ q < p /\ f[q] < a
    BY IncreasingIsStrict
  <2> QED BY <2>1, <2>2
<1>3. \A i \in 1 .. n : i \in t <=> (\E q \in 1 .. p - 1 : i = f[q]) \/ i = a \/ i > n - k + p
  <2>1. ASSUME NEW i \in 1 .. n, i \in t
        PROVE  (\E q \in 1 .. p - 1 : i = f[q]) \/ i = a \/ i > n - k + p
    <3>1. PICK q \in 1 .. k : i = f[q]
      BY <2>1 DEF Named
    <3>2. q \in 1 .. p - 1 \/ q = p \/ q \in p + 1 .. k
      OBVIOUS
    <3>3. CASE q \in p + 1 .. k
      BY <3>1, <3>3
    <3> QED BY <3>1, <3>2, <3>3
  <2>2. ASSUME NEW i \in 1 .. n, i > n - k + p
        PROVE  i \in t
    <3>1. i - (n - k) \in p + 1 .. k
      BY <2>2
    <3>2. f[i - (n - k)] = i
      BY <3>1
    <3> QED BY <3>1, <3>2 DEF Named
  <2>3. a \in t /\ \A q \in 1 .. p - 1 : f[q] \in t
    BY DEF Named
  <2> QED BY <2>1, <2>2, <2>3
<1>4. \A i \in 1 .. n :
        i \in u <=> (\E q \in 1 .. p - 1 : i = f[q]) \/ i \in a + 1 .. a + 1 + (k - p)
  <2>1. ASSUME NEW i \in 1 .. n, i \in u
        PROVE  (\E q \in 1 .. p - 1 : i = f[q]) \/ i \in a + 1 .. a + 1 + (k - p)
    <3>1. PICK q \in 1 .. k : i = IF q < p THEN f[q] ELSE a + 1 + (q - p)
      BY <2>1 DEF Named, Advanced
    <3> QED BY <1>2, <3>1
  <2>2. ASSUME NEW i \in a + 1 .. a + 1 + (k - p)
        PROVE  i \in u
    <3>1. i - (a + 1) + p \in 1 .. k /\ ~(i - (a + 1) + p < p)
      BY <1>2, <2>2
    <3>2. Advanced(f, k, p)[i - (a + 1) + p] = a + 1 + ((i - (a + 1) + p) - p)
      BY <3>1 DEF Advanced
    <3>3. a + 1 + ((i - (a + 1) + p) - p) = i
      BY <1>2, <2>2
    <3> QED BY <3>1, <3>2, <3>3 DEF Named
  <2>3. ASSUME NEW q \in 1 .. p - 1
        PROVE  f[q] \in u
    <3>1. q \in 1 .. k /\ Advanced(f, k, p)[q] = f[q]
      BY DEF Advanced
    <3> QED BY <3>1 DEF Named
  <2> QED BY <2>1, <2>2, <2>3
<1> HIDE DEF t, u
<1>5. /\ \A i \in 1 .. n : i < a => (i \in t <=> i \in u)
      /\ a \in t /\ a \notin u
  BY <1>2, <1>3, <1>4
<1>6. Precedes(t, u)
  <2>1. \A j \in (t \ u) \cup (u \ t) : a <= j
    BY <1>1, <1>2, <1>5
  <2> QED BY <1>5, <2>1 DEF Precedes
<1>7. ASSUME Precedes(s, t) PROVE Precedes(s, u)
  <2>1. s \in SUBSET Nat /\ t \in SUBSET Nat /\ u \in SUBSET Nat
    BY <1>1
  <2> QED BY <1>6, <1>7, <2>1, PrecedesTransitive
<1>8. ASSUME Precedes(s, u), s # t PROVE Precedes(s, t)
  <2>1. PICK i \in s \ u : \A j \in (s \ u) \cup (u \ s) : i <= j
    BY <1>8 DEF Precedes
  <2>2. i \in 1 .. n /\ \A j \in 1 .. n : j < i => (j \in s <=> j \in u)
    BY <1>1, <2>1
  <2>3. CASE i < a
    <3>1. i \in s \ t
      BY <1>5, <2>1, <2>2, <2>3
    <3>2. \A j \in (s \ t) \cup (t \ s) : i <= j
      BY <1>1, <1>2, <1>5, <2>2, <2>3
    <3> QED BY <3>1, <3>2 DEF Precedes
  <2>4. CASE i = a
    <3>1. \A j \in 1 .. n : j <= a => (j \in s <=> j \in t)
      BY <1>2, <1>5, <2>1, <2>2, <2>4
    <3>2. \A j, h \in 1 .. n : (j \in t /\ j > a /\ h >= j) => h \in t
      BY <1>2, <1>3
    <3>3. a \in Nat /\ Cardinality(s) = Cardinality(t) /\ t \in SUBSET (1 .. n) /\ s # t
      BY <1>1, <1>2, <1>8
    <3> HIDE DEF a
    <3> QED BY <3>1, <3>2, <3>3, LastPositionsComeLast
  <2>5. CASE i > a
    <3>1. i > a + 1 + (k - p)
      BY <1>2, <1>4, <2>1, <2>2, <2>5
    <3>2. \A j \in u : j \in 1 .. n /\ j < i
      BY <1>1, <1>2, <1>4, <3>1, <2>2
    <3>3. u \subseteq s
      BY <2>2, <3>2
    <3>4. u = s
      BY <1>1, <3>3, SameSizeNotPart
    <3> QED BY <2>1, <3>4
  <2> QED BY <1>2, <2>2, <2>3, <2>4, <2>5
<1> QED BY <1>6, <1>7, <1>8 DEF t, u
-----------------------------------------------------------------------------
(* The inductive invariant.                                                *)

GeneratorTypeOK ==
  /\ heuristic \in AllHeuristics
  /\ literals \in Seq(Int)
  /\ minSize \in Nat /\ maxSize \in Nat
  /\ indices \in Seq(Nat) /\ wrapArounds \in Seq(Nat)
  /\ Len(wrapArounds) = Len(indices)
  /\ candidate \subseteq ToSet(literals)
  /\ firstPending \in BOOLEAN
  /\ position \in 0 .. Len(indices)
  /\ answer \notin {NoCandidate, NotAsked} => answer = candidate

\* No literal stands twice in the clause, and the sizes fit it.
ClauseInv ==
  /\ \A p, q \in 1 .. Len(literals) : literals[p] = literals[q] => p = q
  /\ literals # <<>> =>
       /\ 1 <= minSize /\ minSize <= maxSize /\ maxSize <= Len(literals)
       /\ minSize <= Size /\ Size <= Len(literals)

\* What is kept about the positions agrees.
PositionsInv ==
  /\ Increasing(indices, Size, Len(literals))
  /\ candidate = {literals[indices[p]] : p \in 1 .. Size}
  /\ \A p \in 1 .. Size : wrapArounds[p] = LastPosition(p) - indices[p]

\* Before the first position: no candidate of one literal has been made yet.
UnstartedInv == minSize = 1 /\ candidate = {}

\* The first candidate is pending until it is handed out; a search runs only in a
\* generator that may generate, and has left exhausted positions behind it.
PendingInv == firstPending => indices = FirstIndices(minSize) /\ position = 0
SearchInv ==
  position > 0 => MayGenerate /\ ~firstPending /\ \A q \in position + 1 .. Size : Exhausted(q)

GeneratorInv ==
  /\ GeneratorTypeOK
  /\ ClauseInv
  /\ MayGenerate => IF indices = <<0>> THEN UnstartedInv ELSE PositionsInv
  /\ literals # <<>> => PendingInv
  /\ SearchInv
-----------------------------------------------------------------------------
(* init.                                                                   *)

\* The literals of a request, as a set, are not more than those of the clause.
LEMMA OverlappingFacts ==
  ASSUME NEW r \in Requests
  PROVE  /\ Overlapping(r) \subseteq Int
         /\ Len(r.literals) \in Nat
         /\ Cardinality(Overlapping(r)) \in 0 .. Len(r.literals)
<1>1. r.literals \in Seq(Int) /\ Len(r.literals) = Cardinality(ToSet(r.literals))
  BY GeneratorAssumption
<1> DEFINE n == Len(r.literals)
           g == [p \in 1 .. n |-> r.literals[p]]
<1>2. n \in Nat /\ DOMAIN r.literals = 1 .. n /\ \A p \in 1 .. n : r.literals[p] \in Int
  BY <1>1
<1>3. g \in [1 .. n -> ToSet(r.literals)] /\ \A l \in ToSet(r.literals) : \E p \in 1 .. n : g[p] = l
  BY <1>2 DEF ToSet
<1>4. g \in Surjection(1 .. n, ToSet(r.literals))
  BY <1>3 DEF Surjection
<1>5. IsFiniteSet(1 .. n)
  BY <1>2, FS_Interval
<1>6. IsFiniteSet(ToSet(r.literals))
  BY <1>4, <1>5, FS_Surjection
<1>7. Overlapping(r) \in SUBSET ToSet(r.literals)
  BY DEF Overlapping
<1>8. IsFiniteSet(Overlapping(r)) /\ Cardinality(Overlapping(r)) <= n
  BY <1>1, <1>6, <1>7, FS_Subset
<1>9. Overlapping(r) \subseteq Int
  BY <1>2, <1>7 DEF ToSet
<1> QED BY <1>2, <1>8, <1>9, FS_CardinalityType

\* Every heuristic keeps each of the overlapping literals once.
LEMMA OrderedFacts ==
  ASSUME NEW r \in Requests, NEW h, NEW seq \in Ordered(h, r)
  PROVE  /\ seq \in Seq(Int) /\ Len(seq) = Cardinality(Overlapping(r))
         /\ \A p, q \in 1 .. Len(seq) : seq[p] = seq[q] => p = q
<1> DEFINE n == Cardinality(Overlapping(r))
<1>1. n \in Nat /\ Overlapping(r) \subseteq Int
  BY OverlappingFacts
<1>2. seq \in [1 .. n -> Overlapping(r)] /\ \A p, q \in 1 .. n : p # q => seq[p] # seq[q]
  BY DEF Ordered, SetToSeqs
<1> HIDE DEF n
<1>3. seq \in [1 .. n -> Int]
  BY <1>1, <1>2
<1>4. seq \in Seq(Int) /\ Len(seq) = n
  BY <1>1, <1>3
<1> QED BY <1>2, <1>4 DEF n

\* What init makes of the size restriction.
LEMMA RequestedSizes ==
  ASSUME NEW r \in Requests, Acceptable(r)
  PROVE  /\ RequestedMin(r) \in Nat /\ 1 <= RequestedMin(r)
         /\ RequestedMin(r) <= Min2(RequestedMax(r), Cardinality(Overlapping(r)))
         /\ Min2(RequestedMax(r), Cardinality(Overlapping(r))) \in Nat
         /\ Min2(RequestedMax(r), Cardinality(Overlapping(r))) <= Cardinality(Overlapping(r))
<1>1. /\ r.restricted \in BOOLEAN
      /\ r.minAllowedSize \in Nat /\ r.maxAllowedSize \in Nat /\ r.minAllowedSize <= r.maxAllowedSize
  BY GeneratorAssumption
<1>2. Len(r.literals) \in Nat /\ Cardinality(Overlapping(r)) \in 0 .. Len(r.literals)
  BY OverlappingFacts
<1>3. RequestedMin(r) \in 1 .. Cardinality(Overlapping(r))
  BY DEF Acceptable
<1>4. RequestedMax(r) \in Nat /\ RequestedMin(r) <= RequestedMax(r)
  BY <1>1, <1>2, <1>3 DEF RequestedMax, RequestedMin, Min2
<1> QED BY <1>2, <1>3, <1>4 DEF Min2

LEMMA GeneratorInvInitially == GeneratorInit => GeneratorInv
<1> SUFFICES ASSUME GeneratorInit PROVE GeneratorInv
  OBVIOUS
<1>1. literals = <<>> /\ indices = <<>> /\ wrapArounds = <<>> /\ candidate = {} /\ position = 0
  BY DEF GeneratorInit
<1>2. Len(literals) = 0 /\ Len(indices) = 0 /\ Len(wrapArounds) = 0
  BY <1>1
<1>3. heuristic \in AllHeuristics
  BY GeneratorAssumption DEF GeneratorInit
<1>4. <<>> \in Seq(Int) /\ <<>> \in Seq(Nat)
  OBVIOUS
<1>5. GeneratorTypeOK
  <2>1. literals \in Seq(Int) /\ indices \in Seq(Nat) /\ wrapArounds \in Seq(Nat)
    BY <1>1, <1>4
  <2>2. minSize \in Nat /\ maxSize \in Nat /\ position \in 0 .. Len(indices) /\ firstPending = FALSE
    BY <1>2 DEF GeneratorInit
  <2>3. Len(wrapArounds) = Len(indices) /\ candidate \subseteq ToSet(literals) /\ answer = NotAsked
    BY <1>1, <1>2 DEF GeneratorInit
  <2> QED BY <1>3, <2>1, <2>2, <2>3 DEF GeneratorTypeOK
<1> QED BY <1>1, <1>2, <1>5 DEF GeneratorInv, ClauseInv, MayGenerate, SearchInv

LEMMA RefuseInv ==
  ASSUME GeneratorInv, NEW r \in Requests, Refuse(r)
  PROVE  GeneratorInv'
<1>1. /\ literals' = <<>> /\ indices' = <<>> /\ wrapArounds' = <<>> /\ candidate' = {}
      /\ position = 0 /\ answer' = NotAsked /\ UNCHANGED <<heuristic, firstPending, position>>
      /\ minSize' = RequestedMin(r) /\ maxSize' = RequestedMax(r)
  BY DEF Refuse
<1>2. minSize' \in Nat /\ maxSize' \in Nat
  <2>1. r.minAllowedSize \in Nat /\ r.maxAllowedSize \in Nat
    BY GeneratorAssumption
  <2>2. Len(r.literals) \in Nat
    BY OverlappingFacts
  <2> QED BY <1>1, <2>1, <2>2 DEF RequestedMin, RequestedMax, Min2
<1>3. Len(literals') = 0 /\ Len(indices') = 0 /\ Len(wrapArounds') = 0
  BY <1>1
<1>4. GeneratorTypeOK'
  BY <1>1, <1>2, <1>3 DEF GeneratorInv, GeneratorTypeOK
<1> QED BY <1>1, <1>3, <1>4 DEF GeneratorInv, ClauseInv, MayGenerate, SearchInv

\* The first candidate of a size.
LEMMA FirstOfSize ==
  ASSUME NEW n \in Nat, NEW k \in 1 .. n
  PROVE  /\ FirstIndices(k) \in Seq(Nat) /\ Len(FirstIndices(k)) = k
         /\ FirstIndices(k)[1] = 1 /\ FirstIndices(k) # <<0>>
         /\ FirstWrapArounds(k, n) \in Seq(Nat) /\ Len(FirstWrapArounds(k, n)) = k
         /\ Increasing(FirstIndices(k), k, n)
         /\ Named(FirstIndices(k), k) = 1 .. k
         /\ \A p \in 1 .. k : FirstWrapArounds(k, n)[p] = (n - k + p) - FirstIndices(k)[p]
<1>1. FirstIndices(k) \in [1 .. k -> Nat] /\ FirstWrapArounds(k, n) \in [1 .. k -> Nat]
  BY DEF FirstIndices, FirstWrapArounds
<1>2. /\ FirstIndices(k) \in Seq(Nat) /\ Len(FirstIndices(k)) = k
      /\ FirstWrapArounds(k, n) \in Seq(Nat) /\ Len(FirstWrapArounds(k, n)) = k
  BY <1>1
<1>3. \A p \in 1 .. k : FirstIndices(k)[p] = p /\ FirstWrapArounds(k, n)[p] = n - k
  BY DEF FirstIndices, FirstWrapArounds
<1>4. FirstIndices(k)[1] = 1 /\ FirstIndices(k) # <<0>>
  BY <1>3
<1>5. Increasing(FirstIndices(k), k, n)
  BY <1>3 DEF Increasing
<1>6. Named(FirstIndices(k), k) = 1 .. k
  BY <1>3 DEF Named
<1>7. \A p \in 1 .. k : FirstWrapArounds(k, n)[p] = (n - k + p) - FirstIndices(k)[p]
  BY <1>3
<1> QED BY <1>2, <1>4, <1>5, <1>6, <1>7

\* The state after the candidates have been set to the first ones of a size.
LEMMA FirstCandidateInv ==
  ASSUME NEW seq \in Seq(Int), seq # <<>>, NEW k \in 1 .. Len(seq),
         literals' = seq, indices' = FirstIndices(k), wrapArounds' = FirstWrapArounds(k, Len(seq)),
         candidate' = FirstCandidate(seq, k)
  PROVE  /\ PositionsInv' /\ indices' # <<0>> /\ Size' = k
         /\ indices' \in Seq(Nat) /\ wrapArounds' \in Seq(Nat) /\ Len(wrapArounds') = Len(indices')
         /\ candidate' \subseteq ToSet(literals')
         /\ ToSet(indices') = 1 .. k
<1>1. Len(seq) \in Nat /\ DOMAIN seq = 1 .. Len(seq)
  OBVIOUS
<1>2. /\ indices' \in Seq(Nat) /\ Len(indices') = k /\ indices' # <<0>>
      /\ wrapArounds' \in Seq(Nat) /\ Len(wrapArounds') = k
      /\ Increasing(indices', k, Len(seq)) /\ Named(indices', k) = 1 .. k
      /\ \A p \in 1 .. k : wrapArounds'[p] = (Len(seq) - k + p) - indices'[p]
  BY <1>1, FirstOfSize
<1>3. \A p \in 1 .. k : indices'[p] = p
  BY DEF FirstIndices
<1>4. candidate' = {literals'[indices'[p]] : p \in 1 .. k}
  BY <1>3 DEF FirstCandidate
<1>5. candidate' \subseteq ToSet(literals')
  BY <1>1 DEF FirstCandidate, ToSet
<1>6. ToSet(indices') = 1 .. k
  <2>1. DOMAIN indices' = 1 .. k
    BY <1>2
  <2> QED BY <1>2, <2>1 DEF ToSet, Named
<1>7. PositionsInv'
  <2>1. Size' = k
    BY <1>2 DEF Size
  <2>2. \A p \in 1 .. Size' : wrapArounds'[p] = LastPosition(p)' - indices'[p]
    BY <1>2, <2>1 DEF LastPosition
  <2>3. candidate' = {literals'[indices'[p]] : p \in 1 .. Size'}
    BY <1>4, <2>1
  <2>4. Increasing(indices', Size', Len(literals'))
    BY <1>2, <2>1
  <2> QED BY <2>2, <2>3, <2>4 DEF PositionsInv
<1> QED BY <1>2, <1>5, <1>6, <1>7 DEF Size

LEMMA AcceptInv ==
  ASSUME GeneratorInv, NEW r \in Requests, Accept(r)
  PROVE  GeneratorInv'
<1>1. /\ position = 0 /\ Acceptable(r) /\ minSize' = RequestedMin(r)
      /\ maxSize' = Min2(RequestedMax(r), Cardinality(Overlapping(r)))
      /\ literals' \in Ordered(heuristic, r)
      /\ indices' = IF minSize' > 1 THEN FirstIndices(minSize') ELSE <<0>>
      /\ wrapArounds' = FirstWrapArounds(minSize', Len(literals'))
      /\ candidate' = IF minSize' > 1 THEN FirstCandidate(literals', minSize') ELSE {}
      /\ firstPending' = (r.restricted /\ r.minAllowedSize > 1)
      /\ answer' = NotAsked
      /\ UNCHANGED <<heuristic, position>>
  BY DEF Accept
<1>2. /\ literals' \in Seq(Int) /\ Len(literals') = Cardinality(Overlapping(r))
      /\ \A p, q \in 1 .. Len(literals') : literals'[p] = literals'[q] => p = q
  BY <1>1, OrderedFacts
<1>3. /\ minSize' \in Nat /\ maxSize' \in Nat
      /\ 1 <= minSize' /\ minSize' <= maxSize' /\ maxSize' <= Len(literals')
  BY <1>1, <1>2, RequestedSizes
<1>4. firstPending' \in BOOLEAN /\ (firstPending' => minSize' > 1)
  BY <1>1, GeneratorAssumption DEF RequestedMin
<1>5. Len(literals') \in Nat /\ minSize' \in 1 .. Len(literals') /\ literals' # <<>>
  BY <1>2, <1>3
<1>6. CASE minSize' > 1
  <2>1. /\ PositionsInv' /\ indices' # <<0>> /\ Size' = minSize'
        /\ indices' \in Seq(Nat) /\ wrapArounds' \in Seq(Nat) /\ Len(wrapArounds') = Len(indices')
        /\ candidate' \subseteq ToSet(literals')
    BY <1>1, <1>2, <1>5, <1>6, FirstCandidateInv
  <2>2. GeneratorTypeOK'
    BY <1>1, <1>2, <1>3, <1>4, <2>1 DEF GeneratorInv, GeneratorTypeOK
  <2>3. ClauseInv'
    BY <1>2, <1>3, <2>1 DEF ClauseInv
  <2> QED BY <1>1, <1>6, <2>1, <2>2, <2>3 DEF GeneratorInv, PendingInv, SearchInv
<1>7. CASE ~(minSize' > 1)
  <2>1. minSize' = 1 /\ indices' = <<0>> /\ candidate' = {} /\ ~firstPending'
    BY <1>1, <1>3, <1>4, <1>7
  <2>2. indices' \in Seq(Nat) /\ Len(indices') = 1
    BY <2>1
  <2>3. wrapArounds' \in Seq(Nat) /\ Len(wrapArounds') = 1
    BY <1>1, <1>5, <2>1, FirstOfSize
  <2>4. GeneratorTypeOK'
    BY <1>1, <1>2, <1>3, <2>1, <2>2, <2>3 DEF GeneratorInv, GeneratorTypeOK
  <2>5. ClauseInv'
    BY <1>2, <1>3, <2>1, <2>2 DEF ClauseInv, Size
  <2> QED BY <1>1, <2>1, <2>4, <2>5 DEF GeneratorInv, PendingInv, SearchInv, UnstartedInv
<1> QED BY <1>6, <1>7
-----------------------------------------------------------------------------
(* generateNextCandidate.                                                  *)

\* Steps that leave the positions alone.
LEMMA PositionsUnchanged ==
  ASSUME GeneratorInv,
         UNCHANGED <<heuristic, literals, minSize, maxSize, indices, wrapArounds, candidate>>
  PROVE  /\ ClauseInv' /\ (MayGenerate' <=> MayGenerate) /\ Size' = Size
         /\ PositionsInv' <=> PositionsInv
         /\ UnstartedInv' <=> UnstartedInv
         /\ \A p : Exhausted(p)' <=> Exhausted(p)
         /\ (MayGenerate => IF indices = <<0>> THEN UnstartedInv ELSE PositionsInv)'
  BY DEF GeneratorInv, ClauseInv, MayGenerate, Size, PositionsInv, UnstartedInv, Exhausted,
    LastPosition, Increasing

LEMMA AnswerNothingInv ==
  ASSUME GeneratorInv, AnswerNothing
  PROVE  GeneratorInv'
<1>1. /\ UNCHANGED <<heuristic, literals, minSize, maxSize, indices, wrapArounds, candidate>>
      /\ UNCHANGED <<firstPending, position>> /\ position = 0 /\ answer' = NoCandidate
  BY DEF AnswerNothing
<1>2. GeneratorTypeOK'
  BY <1>1 DEF GeneratorInv, GeneratorTypeOK
<1>3. (literals # <<>> => PendingInv)' /\ SearchInv'
  BY <1>1 DEF GeneratorInv, PendingInv, SearchInv
<1> QED BY <1>1, <1>2, <1>3, PositionsUnchanged DEF GeneratorInv

LEMMA AnswerFirstInv ==
  ASSUME GeneratorInv, AnswerFirst
  PROVE  GeneratorInv'
<1>1. /\ UNCHANGED <<heuristic, literals, minSize, maxSize, indices, wrapArounds, candidate>>
      /\ UNCHANGED position /\ position = 0 /\ answer' = candidate /\ firstPending' = FALSE
  BY DEF AnswerFirst
<1>2. GeneratorTypeOK'
  BY <1>1 DEF GeneratorInv, GeneratorTypeOK
<1>3. (literals # <<>> => PendingInv)' /\ SearchInv'
  BY <1>1 DEF PendingInv, SearchInv
<1> QED BY <1>1, <1>2, <1>3, PositionsUnchanged DEF GeneratorInv

LEMMA BeginSearchInv ==
  ASSUME GeneratorInv, BeginSearch
  PROVE  GeneratorInv'
<1>1. /\ UNCHANGED <<heuristic, literals, minSize, maxSize, indices, wrapArounds, candidate>>
      /\ UNCHANGED <<firstPending, answer>> /\ position' = Size /\ MayGenerate /\ ~firstPending
  BY DEF BeginSearch
<1>2. indices \in Seq(Nat)
  BY DEF GeneratorInv, GeneratorTypeOK
<1>3. Size \in 0 .. Len(indices) /\ Size + 1 .. Size = {}
  BY <1>2 DEF Size
<1>4. GeneratorTypeOK'
  BY <1>1, <1>3 DEF GeneratorInv, GeneratorTypeOK
<1>5. (literals # <<>> => PendingInv)' /\ SearchInv'
  BY <1>1, <1>3, PositionsUnchanged DEF PendingInv, SearchInv
<1> QED BY <1>1, <1>4, <1>5, PositionsUnchanged DEF GeneratorInv

\* What a running search knows.
LEMMA SearchFacts ==
  ASSUME GeneratorInv, Searching
  PROVE  /\ literals # <<>> /\ literals \in Seq(Int) /\ Len(literals) \in Nat
         /\ minSize \in Nat /\ maxSize \in Nat
         /\ 1 <= minSize /\ minSize <= Size /\ Size <= maxSize /\ maxSize <= Len(literals)
         /\ Size \in 1 .. Len(literals) /\ position \in 1 .. Size /\ ~firstPending
         /\ indices \in Seq(Nat) /\ Len(indices) = Size
         /\ wrapArounds \in Seq(Nat) /\ Len(wrapArounds) = Size
         /\ \A q \in position + 1 .. Size : indices[q] = (Len(literals) - Size) + q
         /\ IF indices = <<0>> THEN UnstartedInv ELSE PositionsInv
<1>1. position > 0 /\ MayGenerate /\ ~firstPending /\ \A q \in position + 1 .. Size : Exhausted(q)
  BY DEF Searching, GeneratorInv, SearchInv
<1>2. /\ literals \in Seq(Int) /\ indices \in Seq(Nat) /\ wrapArounds \in Seq(Nat)
      /\ Len(wrapArounds) = Len(indices) /\ position \in 0 .. Len(indices)
      /\ minSize \in Nat /\ maxSize \in Nat
  BY DEF GeneratorInv, GeneratorTypeOK
<1>3. Len(literals) \in Nat /\ Len(indices) \in Nat /\ Size = Len(indices)
  BY <1>2 DEF Size
<1>4. /\ literals # <<>> /\ 1 <= minSize /\ minSize <= Size /\ Size <= maxSize
      /\ maxSize <= Len(literals)
  BY <1>1 DEF MayGenerate, GeneratorInv, ClauseInv
<1>5. \A q \in position + 1 .. Size : indices[q] = (Len(literals) - Size) + q
  BY <1>1 DEF Exhausted, LastPosition
<1>6. IF indices = <<0>> THEN UnstartedInv ELSE PositionsInv
  BY <1>1 DEF GeneratorInv
<1> QED BY <1>1, <1>2, <1>3, <1>4, <1>5, <1>6

\* At an exhausted position there is nothing to count down.
LEMMA ExhaustedFacts ==
  ASSUME GeneratorInv, Searching, Exhausted(position)
  PROVE  /\ indices # <<0>> /\ PositionsInv
         /\ indices[position] = (Len(literals) - Size) + position
         /\ CountedDown = wrapArounds /\ wrapArounds[position] = 0
<1>1. indices[position] = (Len(literals) - Size) + position
  BY DEF Exhausted, LastPosition
<1>2. indices # <<0>>
  BY <1>1, SearchFacts
<1>3. PositionsInv
  BY <1>2, SearchFacts
<1>4. wrapArounds[position] = 0
  <2>1. wrapArounds[position] = ((Len(literals) - Size) + position) - indices[position]
    BY <1>3, SearchFacts DEF PositionsInv, LastPosition
  <2> QED BY <1>1, <2>1, SearchFacts
<1>5. CountedDown = wrapArounds
  BY <1>4, SearchFacts DEF CountedDown
<1> QED BY <1>1, <1>2, <1>3, <1>4, <1>5

\* The search ends without a candidate of the size only if every position is exhausted.
LEMMA AllExhaustedFacts ==
  ASSUME GeneratorInv, Searching, Exhausted(position), AllExhausted
  PROVE  \A q \in 1 .. Size : indices[q] = (Len(literals) - Size) + q
<1>1. position \in {1, 2} /\ wrapArounds[1] = 0
  BY SearchFacts, ExhaustedFacts DEF AllExhausted, Back
<1>2. 1 \in 1 .. Size /\ indices[1] \in Nat /\ Len(literals) \in Nat /\ Size \in Nat
  BY SearchFacts
<1>3. indices[1] = (Len(literals) - Size) + 1
  <2>1. \A p \in 1 .. Size : wrapArounds[p] = ((Len(literals) - Size) + p) - indices[p]
    BY ExhaustedFacts DEF PositionsInv, LastPosition
  <2>2. wrapArounds[1] = ((Len(literals) - Size) + 1) - indices[1]
    BY <1>2, <2>1
  <2> QED BY <1>1, <1>2, <2>2
<1>4. ASSUME NEW q \in 1 .. Size
      PROVE  q = 1 \/ q = position \/ q \in position + 1 .. Size
  BY <1>1, <1>4, SearchFacts
<1> QED BY <1>3, <1>4, SearchFacts, ExhaustedFacts

LEMMA BacktrackInv ==
  ASSUME GeneratorInv, Backtrack
  PROVE  GeneratorInv'
<1>1. Searching /\ Exhausted(position) /\ ~AllExhausted
  BY DEF Backtrack
<1>2. position > 1 /\ position' = position - 1
  BY <1>1, SearchFacts, ExhaustedFacts DEF Backtrack, Back, AllExhausted
<1>3. /\ UNCHANGED <<heuristic, literals, minSize, maxSize, indices, wrapArounds, candidate>>
      /\ UNCHANGED <<firstPending, answer>>
  BY <1>1, ExhaustedFacts DEF Backtrack
<1>4. GeneratorTypeOK'
  BY <1>1, <1>2, <1>3, SearchFacts DEF GeneratorInv, GeneratorTypeOK
<1>5. SearchInv'
  <2>1. \A q \in position' + 1 .. Size : Exhausted(q)
    BY <1>1, <1>2, SearchFacts DEF GeneratorInv, SearchInv, Searching
  <2>2. MayGenerate /\ ~firstPending
    BY <1>1 DEF GeneratorInv, SearchInv, Searching
  <2> QED BY <1>3, <2>1, <2>2, PositionsUnchanged DEF SearchInv
<1>6. (literals # <<>> => PendingInv)'
  BY <1>1, <1>3, SearchFacts DEF PendingInv
<1> QED BY <1>3, <1>4, <1>5, <1>6, PositionsUnchanged DEF GeneratorInv

LEMMA StopAtFullSizeInv ==
  ASSUME GeneratorInv, StopAtFullSize
  PROVE  GeneratorInv'
<1>1. Searching /\ Exhausted(position) /\ position' = 0 /\ answer' = NoCandidate
  BY DEF StopAtFullSize
<1>2. /\ UNCHANGED <<heuristic, literals, minSize, maxSize, indices, wrapArounds, candidate>>
      /\ UNCHANGED firstPending
  BY <1>1, ExhaustedFacts DEF StopAtFullSize
<1>3. GeneratorTypeOK'
  BY <1>1, <1>2, SearchFacts DEF GeneratorInv, GeneratorTypeOK
<1>4. SearchInv' /\ (literals # <<>> => PendingInv)'
  BY <1>1, <1>2, SearchFacts DEF SearchInv, PendingInv
<1> QED BY <1>2, <1>3, <1>4, PositionsUnchanged DEF GeneratorInv

LEMMA StopAtMaxSizeInv ==
  ASSUME GeneratorInv, StopAtMaxSize
  PROVE  GeneratorInv'
<1>1. /\ Searching /\ Exhausted(position) /\ Size < Len(literals) /\ Size >= maxSize
      /\ indices' = Append([indices EXCEPT ![1] = 1], 0)
      /\ position' = 0 /\ answer' = NoCandidate
      /\ UNCHANGED <<heuristic, literals, minSize, maxSize, candidate, firstPending>>
  BY DEF StopAtMaxSize
<1>2. wrapArounds' = Append(wrapArounds, 0)
  BY <1>1, ExhaustedFacts DEF StopAtMaxSize
<1>3. [indices EXCEPT ![1] = 1] \in Seq(Nat) /\ Len([indices EXCEPT ![1] = 1]) = Size
  <2>1. indices \in [1 .. Size -> Nat]
    BY <1>1, SearchFacts
  <2>2. [indices EXCEPT ![1] = 1] \in [1 .. Size -> Nat]
    BY <2>1
  <2> QED BY <1>1, <2>2, SearchFacts
<1>4. indices' \in Seq(Nat) /\ Len(indices') = Size + 1
  BY <1>1, <1>3
<1>5. wrapArounds' \in Seq(Nat) /\ Len(wrapArounds') = Size + 1
  BY <1>1, <1>2, SearchFacts
<1>6. GeneratorTypeOK'
  BY <1>1, <1>4, <1>5, SearchFacts DEF GeneratorInv, GeneratorTypeOK
<1>7. Size' = Size + 1
  BY <1>4 DEF Size
<1>8. ClauseInv' /\ ~MayGenerate'
  BY <1>1, <1>7, SearchFacts DEF GeneratorInv, ClauseInv, MayGenerate
<1>9. SearchInv' /\ (literals # <<>> => PendingInv)'
  BY <1>1, SearchFacts DEF SearchInv, PendingInv
<1> QED BY <1>6, <1>8, <1>9 DEF GeneratorInv

LEMMA EnlargeInv ==
  ASSUME GeneratorInv, Enlarge
  PROVE  GeneratorInv'
<1>1. /\ Searching /\ Size < Len(literals) /\ Size < maxSize
      /\ indices' = FirstIndices(Size + 1) /\ wrapArounds' = FirstWrapArounds(Size + 1, Len(literals))
      /\ candidate' = FirstCandidate(literals, Size + 1)
      /\ position' = 0 /\ answer' = candidate'
      /\ UNCHANGED <<heuristic, literals, minSize, maxSize, firstPending>>
  BY DEF Enlarge
<1>2. Size + 1 \in 1 .. Len(literals)
  BY <1>1, SearchFacts
<1>3. /\ PositionsInv' /\ indices' # <<0>> /\ Size' = Size + 1
      /\ indices' \in Seq(Nat) /\ wrapArounds' \in Seq(Nat) /\ Len(wrapArounds') = Len(indices')
      /\ candidate' \subseteq ToSet(literals')
  BY <1>1, <1>2, SearchFacts, FirstCandidateInv
<1>4. GeneratorTypeOK'
  BY <1>1, <1>3, SearchFacts DEF GeneratorInv, GeneratorTypeOK
<1>5. ClauseInv'
  BY <1>1, <1>3, SearchFacts DEF GeneratorInv, ClauseInv
<1>6. SearchInv' /\ (literals # <<>> => PendingInv)'
  BY <1>1, SearchFacts DEF SearchInv, PendingInv
<1> QED BY <1>3, <1>4, <1>5, <1>6 DEF GeneratorInv

\* What an advance makes of the positions.
LEMMA AdvanceFacts ==
  ASSUME GeneratorInv, Advance
  PROVE  /\ Searching /\ position' = 0 /\ answer' = candidate'
         /\ UNCHANGED <<heuristic, literals, minSize, maxSize, firstPending>>
         /\ indices' = Advanced(indices, Size, position)
         /\ indices' \in Seq(Nat) /\ Len(indices') = Size /\ Size' = Size
         /\ Increasing(indices', Size, Len(literals)) /\ indices' # <<0>>
         /\ indices = <<0>> => Size = 1 /\ indices' = <<1>>
         /\ indices # <<0>> => PositionsInv /\ indices[position] < (Len(literals) - Size) + position
<1>1. /\ Searching /\ position' = 0 /\ answer' = candidate' /\ ~Exhausted(position)
      /\ UNCHANGED <<heuristic, literals, minSize, maxSize, firstPending>>
      /\ indices' = AdvancedFrom(position)
  BY DEF Advance
<1>2. indices' = Advanced(indices, Size, position)
  BY <1>1 DEF AdvancedFrom, Advanced
<1>3. /\ Size \in 1 .. Len(literals) /\ Len(literals) \in Nat /\ position \in 1 .. Size
      /\ indices \in Seq(Nat) /\ Len(indices) = Size /\ indices[position] \in Nat
  BY <1>1, SearchFacts
<1>4. indices' \in Seq(Nat) /\ Len(indices') = Size
  <2>1. \A q \in 1 .. Size : indices[q] \in Nat
    BY <1>3
  <2>2. indices' \in [1 .. Size -> Nat]
    BY <1>2, <1>3, <2>1 DEF Advanced
  <2> QED BY <1>3, <2>2
<1>5. CASE indices = <<0>>
  <2>1. Size = 1 /\ position = 1 /\ indices[1] = 0
    BY <1>3, <1>5
  <2>2. indices'[1] = 1
    BY <1>2, <2>1 DEF Advanced
  <2>3. indices' = <<1>>
    BY <1>4, <2>1, <2>2
  <2>4. Increasing(indices', Size, Len(literals))
    BY <1>3, <2>1, <2>2 DEF Increasing
  <2>5. indices' # <<0>>
    BY <2>2
  <2> QED BY <1>1, <1>2, <1>4, <1>5, <2>1, <2>3, <2>4, <2>5 DEF Size
<1>6. CASE indices # <<0>>
  <2>1. PositionsInv
    BY <1>1, <1>6, SearchFacts
  <2>2. Increasing(indices, Size, Len(literals))
    BY <2>1 DEF PositionsInv
  <2>3. indices[position] < (Len(literals) - Size) + position
    <3>1. indices[position] \in position .. (Len(literals) - Size) + position
      BY <1>3, <2>2 DEF Increasing
    <3>2. indices[position] # (Len(literals) - Size) + position
      BY <1>1 DEF Exhausted, LastPosition
    <3> QED BY <1>3, <3>1, <3>2
  <2>4. Increasing(indices', Size, Len(literals))
    <3>1. Size \in 0 .. Len(literals)
      BY <1>3
    <3> QED BY <1>2, <1>3, <2>2, <2>3, <3>1, AdvancedIncreasing
  <2>5. indices' # <<0>>
    <3>1. indices'[1] \in 1 .. (Len(literals) - Size) + 1
      BY <1>3, <2>4 DEF Increasing
    <3> QED BY <3>1
  <2> QED BY <1>1, <1>2, <1>4, <1>6, <2>1, <2>3, <2>4, <2>5 DEF Size
<1> QED BY <1>5, <1>6

\* The candidate is edited into what the advanced positions name.
LEMMA AdvancedCandidate ==
  ASSUME GeneratorInv, Advance
  PROVE  candidate' = {literals[indices'[q]] : q \in 1 .. Size}
<1>1. candidate' = Kept(position) \cup {literals[indices'[q]] : q \in position .. Size}
  BY DEF Advance
<1>2. /\ Size \in 1 .. Len(literals) /\ Len(literals) \in Nat /\ position \in 1 .. Size
      /\ indices' = Advanced(indices, Size, position)
  BY AdvanceFacts, SearchFacts
<1>3. CASE indices = <<0>>
  <2>1. candidate = {} /\ Size = 1 /\ position = 1
    BY <1>2, <1>3, AdvanceFacts, SearchFacts DEF UnstartedInv
  <2> QED BY <1>1, <2>1 DEF Kept
<1>4. CASE indices # <<0>>
  <2>1. PositionsInv
    BY <1>4, AdvanceFacts
  <2>2. /\ Increasing(indices, Size, Len(literals))
        /\ candidate = {literals[indices[q]] : q \in 1 .. Size}
    BY <2>1 DEF PositionsInv
  <2>3. \A q \in 1 .. Size : indices[q] \in 1 .. Len(literals)
    BY <1>2, <2>2 DEF Increasing
  <2>4. \A p, q \in 1 .. Size : p < q => indices[p] < indices[q]
    <3>1. Size \in 0 .. Len(literals)
      BY <1>2
    <3> QED BY <1>2, <2>2, <3>1, IncreasingIsStrict
  <2>5. \A p, q \in 1 .. Size : indices[p] = indices[q] => p = q
    BY <1>2, <2>3, <2>4
  <2>6. \A p, q \in 1 .. Size : literals[indices[p]] = literals[indices[q]] => p = q
    BY <2>3, <2>5 DEF GeneratorInv, ClauseInv
  <2>7. Kept(position) = {literals[indices[q]] : q \in 1 .. position - 1}
    <3>1. {r \in position .. Size : indices[r] > 0} = position .. Size
      BY <1>2, <2>3
    <3>2. ASSUME NEW q \in 1 .. Size
          PROVE  literals[indices[q]] \in Kept(position) <=> q < position
      <4>1. literals[indices[q]] \in {literals[indices[r]] : r \in position .. Size} <=> q >= position
        BY <1>2, <2>6
      <4> QED BY <1>2, <2>2, <3>1, <4>1 DEF Kept
    <3>3. Kept(position) \subseteq candidate
      BY DEF Kept
    <3> QED BY <1>2, <2>2, <3>2, <3>3
  <2>8. \A q \in 1 .. position - 1 : indices'[q] = indices[q]
    BY <1>2 DEF Advanced
  <2>9. Kept(position) = {literals[indices'[q]] : q \in 1 .. position - 1}
    BY <2>7, <2>8
  <2> QED BY <1>1, <1>2, <2>9
<1> QED BY <1>3, <1>4

LEMMA AdvanceInv ==
  ASSUME GeneratorInv, Advance
  PROVE  GeneratorInv'
<1>1. /\ Searching /\ position' = 0 /\ answer' = candidate'
      /\ UNCHANGED <<heuristic, literals, minSize, maxSize, firstPending>>
      /\ indices' \in Seq(Nat) /\ Len(indices') = Size /\ Size' = Size
      /\ Increasing(indices', Size, Len(literals)) /\ indices' # <<0>>
  BY AdvanceFacts
<1>2. Size \in 1 .. Len(literals) /\ Len(literals) \in Nat /\ position \in 1 .. Size
  BY <1>1, SearchFacts
<1>3. \A q \in 1 .. Size : indices'[q] \in q .. (Len(literals) - Size) + q
  BY <1>1 DEF Increasing
<1>4. \A q \in 1 .. Size : wrapArounds'[q] = LastPosition(q) - indices'[q]
  <2>1. wrapArounds' =
          [q \in 1 .. Size |->
             IF q < position THEN wrapArounds[q] ELSE LastPosition(q) - indices'[q]]
    BY DEF Advance
  <2>2. ASSUME NEW q \in 1 .. Size, q < position
        PROVE  wrapArounds[q] = LastPosition(q) - indices'[q]
    <3>1. indices # <<0>>
      BY <1>2, <2>2, AdvanceFacts
    <3>2. wrapArounds[q] = LastPosition(q) - indices[q]
      BY <2>2, <3>1, AdvanceFacts DEF PositionsInv
    <3>3. indices'[q] = indices[q]
      BY <2>2, AdvanceFacts DEF Advanced
    <3> QED BY <3>2, <3>3
  <2> QED BY <2>1, <2>2
<1>5. wrapArounds' \in Seq(Nat) /\ Len(wrapArounds') = Size
  <2>1. \A q \in 1 .. Size : wrapArounds'[q] \in Nat
    BY <1>2, <1>3, <1>4 DEF LastPosition
  <2>2. wrapArounds' = [q \in 1 .. Size |-> wrapArounds'[q]]
    BY DEF Advance
  <2>3. wrapArounds' \in [1 .. Size -> Nat]
    BY <2>1, <2>2
  <2> QED BY <1>2, <2>3
<1>6. candidate' = {literals[indices'[q]] : q \in 1 .. Size}
  BY AdvancedCandidate
<1>7. candidate' \subseteq ToSet(literals')
  <2>1. DOMAIN literals = 1 .. Len(literals)
    BY <1>1, SearchFacts
  <2>2. \A q \in 1 .. Size : indices'[q] \in 1 .. Len(literals)
    BY <1>2, <1>3
  <2> QED BY <1>1, <1>6, <2>1, <2>2 DEF ToSet
<1>8. GeneratorTypeOK'
  BY <1>1, <1>5, <1>7 DEF GeneratorInv, GeneratorTypeOK
<1>9. ClauseInv'
  BY <1>1 DEF GeneratorInv, ClauseInv
<1>10. PositionsInv'
  BY <1>1, <1>4, <1>6 DEF PositionsInv, LastPosition
<1>11. SearchInv' /\ (literals # <<>> => PendingInv)'
  BY <1>1, SearchFacts DEF SearchInv, PendingInv
<1> QED BY <1>1, <1>8, <1>9, <1>10, <1>11 DEF GeneratorInv

LEMMA GeneratorInvInductive == GeneratorInv /\ [GeneratorNext]_generatorVars => GeneratorInv'
<1> SUFFICES ASSUME GeneratorInv, [GeneratorNext]_generatorVars PROVE GeneratorInv'
  OBVIOUS
<1>1. CASE \E r \in Requests : Refuse(r) \/ Accept(r)
  BY <1>1, RefuseInv, AcceptInv
<1>2. CASE AnswerNothing
  BY <1>2, AnswerNothingInv
<1>3. CASE AnswerFirst
  BY <1>3, AnswerFirstInv
<1>4. CASE BeginSearch
  BY <1>4, BeginSearchInv
<1>5. CASE SearchStep
  BY <1>5, BacktrackInv, StopAtFullSizeInv, StopAtMaxSizeInv, EnlargeInv, AdvanceInv DEF SearchStep
<1>6. CASE UNCHANGED generatorVars
  <2>1. /\ UNCHANGED <<heuristic, literals, minSize, maxSize, indices, wrapArounds, candidate>>
        /\ UNCHANGED <<firstPending, position, answer>>
    BY <1>6 DEF generatorVars
  <2>2. GeneratorTypeOK' /\ (literals # <<>> => PendingInv)'
    BY <2>1 DEF GeneratorInv, GeneratorTypeOK, PendingInv
  <2>3. SearchInv'
    BY <2>1, PositionsUnchanged DEF GeneratorInv, SearchInv
  <2> QED BY <2>1, <2>2, <2>3, PositionsUnchanged DEF GeneratorInv
<1> QED BY <1>1, <1>2, <1>3, <1>4, <1>5, <1>6 DEF GeneratorNext

LEMMA InvariantAgrees == GeneratorInv => BookkeepingAgrees
<1> SUFFICES ASSUME GeneratorInv PROVE BookkeepingAgrees
  OBVIOUS
<1>1. GeneratorTypeOK
  BY DEF GeneratorInv
<1>2. ASSUME literals # <<>>, Size <= maxSize, indices # << 0 >>
      PROVE  /\ \A p \in 1 .. Size : indices[p] \in p .. LastPosition(p)
             /\ \A p \in 1 .. Size - 1 : indices[p] < indices[p + 1]
             /\ candidate = {literals[indices[p]] : p \in 1 .. Size}
             /\ \A p \in 1 .. Size : wrapArounds[p] = LastPosition(p) - indices[p]
  <2>1. PositionsInv
    BY <1>2 DEF GeneratorInv, MayGenerate
  <2> QED BY <2>1 DEF PositionsInv, Increasing, LastPosition
<1> QED BY <1>1, <1>2 DEF GeneratorTypeOK, BookkeepingAgrees

\* Whatever the clause, the size restriction and the heuristic: what the generator keeps
\* twice agrees between any two calls.
THEOREM BookkeepingAgreesAlways == GeneratorSpec => []BookkeepingAgrees
<1>1. GeneratorSpec => []GeneratorInv
  BY GeneratorInvInitially, GeneratorInvInductive, PTL DEF GeneratorSpec
<1> QED BY <1>1, InvariantAgrees, PTL
-----------------------------------------------------------------------------
(* The generator implements CandidateEnumeration.                          *)

\* The candidate that a set of positions stands for.
Image(s) == {literals[i] : i \in s}

AllowedPositions ==
  {s \in SUBSET (1 .. Len(literals)) : Cardinality(s) \in minSize .. maxSize}

\* The instance of the specification counts as this module does.
LEMMA EnumerationCardinality ==
  ASSUME NEW S
  PROVE  Enumeration!Cardinality(S) = Cardinality(S)
  BY Zenon DEF Enumeration!Cardinality, Cardinality, Enumeration!IsFiniteSet, IsFiniteSet

\* Sets of positions and subsets of the clause correspond.
LEMMA ImageFacts ==
  ASSUME GeneratorInv
  PROVE  /\ \A s \in SUBSET (1 .. Len(literals)) :
              Image(s) \in SUBSET ToSet(literals) /\ Cardinality(Image(s)) = Cardinality(s)
         /\ \A s, t \in SUBSET (1 .. Len(literals)) : Image(s) = Image(t) => s = t
         /\ \A c \in SUBSET ToSet(literals) :
              \E s \in SUBSET (1 .. Len(literals)) : c = Image(s)
<1>1. /\ Len(literals) \in Nat /\ DOMAIN literals = 1 .. Len(literals)
      /\ \A p, q \in 1 .. Len(literals) : literals[p] = literals[q] => p = q
  <2>1. literals \in Seq(Int)
    BY DEF GeneratorInv, GeneratorTypeOK
  <2> QED BY <2>1 DEF GeneratorInv, ClauseInv
<1>2. ASSUME NEW s \in SUBSET (1 .. Len(literals))
      PROVE  Image(s) \in SUBSET ToSet(literals) /\ Cardinality(Image(s)) = Cardinality(s)
  <2> DEFINE g == [i \in s |-> literals[i]]
  <2>1. g \in [s -> Image(s)] /\ \A l \in Image(s) : \E i \in s : g[i] = l
    BY DEF Image
  <2>2. \A i, j \in s : g[i] = g[j] => i = j
    BY <1>1
  <2>3. g \in Bijection(s, Image(s))
    BY <2>1, <2>2 DEF Bijection, Injection, Surjection, IsInjective
  <2>4. ExistsBijection(s, Image(s))
    BY <2>3 DEF ExistsBijection
  <2>5. IsFiniteSet(1 .. Len(literals))
    BY <1>1, FS_Interval
  <2>6. IsFiniteSet(s)
    BY <2>5, FS_Subset
  <2>7. Cardinality(Image(s)) = Cardinality(s)
    BY <2>4, <2>6, FS_Bijection
  <2> QED BY <1>1, <2>7 DEF Image, ToSet
<1>3. ASSUME NEW s \in SUBSET (1 .. Len(literals)), NEW t \in SUBSET (1 .. Len(literals)),
             Image(s) = Image(t)
      PROVE  s = t
  <2>1. \A i \in 1 .. Len(literals) : i \in s <=> literals[i] \in Image(s)
    BY <1>1 DEF Image
  <2>2. \A i \in 1 .. Len(literals) : i \in t <=> literals[i] \in Image(t)
    BY <1>1 DEF Image
  <2> QED BY <1>3, <2>1, <2>2
<1>4. ASSUME NEW c \in SUBSET ToSet(literals)
      PROVE  \E s \in SUBSET (1 .. Len(literals)) : c = Image(s)
  <2> DEFINE s == {i \in 1 .. Len(literals) : literals[i] \in c}
  <2>1. c = Image(s)
    BY <1>1 DEF Image, ToSet
  <2> QED BY <2>1
<1> QED BY <1>2, <1>3, <1>4

LEMMA OutstandingAreAllowed ==
  ASSUME GeneratorInv, literals # <<>>
  PROVE  Enumeration!Outstanding = {Image(s) : s \in AllowedPositions \ EmittedPositions}
<1>1. Enumeration!Outstanding =
        {c \in SUBSET ToSet(literals) : Cardinality(c) \in minSize .. maxSize}
          \ {Image(s) : s \in EmittedPositions}
  BY EnumerationCardinality DEF Enumeration!Outstanding, Image
<1>2. EmittedPositions \subseteq SUBSET (1 .. Len(literals))
  BY DEF EmittedPositions
<1>3. {c \in SUBSET ToSet(literals) : Cardinality(c) \in minSize .. maxSize} =
        {Image(s) : s \in AllowedPositions}
  <2>1. ASSUME NEW c \in SUBSET ToSet(literals), Cardinality(c) \in minSize .. maxSize
        PROVE  c \in {Image(s) : s \in AllowedPositions}
    <3>1. PICK s \in SUBSET (1 .. Len(literals)) : c = Image(s)
      BY ImageFacts
    <3>2. s \in AllowedPositions
      BY <2>1, <3>1, ImageFacts DEF AllowedPositions
    <3> QED BY <3>1, <3>2
  <2>2. ASSUME NEW s \in AllowedPositions
        PROVE  Image(s) \in SUBSET ToSet(literals) /\ Cardinality(Image(s)) \in minSize .. maxSize
    BY ImageFacts DEF AllowedPositions
  <2> QED BY <2>1, <2>2
<1>4. AllowedPositions \subseteq SUBSET (1 .. Len(literals))
  BY DEF AllowedPositions
<1>5. \A s \in AllowedPositions : Image(s) \in {Image(t) : t \in EmittedPositions} => s \in EmittedPositions
  BY <1>2, <1>4, ImageFacts
<1> QED BY <1>1, <1>3, <1>5

\* An answer that stands for a smallest set of positions still to come.
LEMMA EmitStep ==
  ASSUME GeneratorInv, literals # <<>>, UNCHANGED <<literals, minSize, maxSize>>,
         NEW u \in AllowedPositions \ EmittedPositions,
         \A s \in AllowedPositions \ EmittedPositions : Cardinality(u) <= Cardinality(s),
         answer' = Image(u), EmittedPositions' = EmittedPositions \cup {u}
  PROVE  Enumeration!Emit
<1>1. Image(u) \in Enumeration!Outstanding
  BY OutstandingAreAllowed
<1>2. ASSUME NEW d \in Enumeration!Outstanding
      PROVE  Cardinality(Image(u)) <= Cardinality(d)
  <2>1. PICK s \in AllowedPositions \ EmittedPositions : d = Image(s)
    BY OutstandingAreAllowed
  <2>2. u \in SUBSET (1 .. Len(literals)) /\ s \in SUBSET (1 .. Len(literals))
    BY DEF AllowedPositions
  <2> QED BY <2>1, <2>2, ImageFacts
<1>3. {{literals'[i] : i \in s} : s \in EmittedPositions'} =
        {{literals[i] : i \in s} : s \in EmittedPositions} \cup {Image(u)}
  BY DEF Image
<1>4. literals' # <<>> /\ ToSet(literals') = ToSet(literals)
  OBVIOUS
<1> QED BY <1>1, <1>2, <1>3, <1>4, EnumerationCardinality DEF Enumeration!Emit

\* The answer that there is no candidate any more.
LEMMA ExhaustStep ==
  ASSUME GeneratorInv, UNCHANGED <<literals, minSize, maxSize>>, answer' = NoCandidate,
         literals # <<>> => AllowedPositions = EmittedPositions /\ EmittedPositions' = EmittedPositions
  PROVE  Enumeration!Exhausted
<1>1. CASE literals = <<>>
  <2>1. ToSet(literals) = {} /\ literals' = <<>>
    BY <1>1 DEF ToSet
  <2>2. Cardinality({}) = 0
    BY FS_EmptySet
  <2>3. \A c \in SUBSET {} : ~(Cardinality(c) \in 1 .. maxSize)
    BY <2>2
  <2>4. Enumeration!Outstanding = {}
    BY <1>1, <2>1, <2>3, EnumerationCardinality DEF Enumeration!Outstanding
  <2> QED BY <1>1, <2>1, <2>4 DEF Enumeration!Exhausted
<1>2. CASE literals # <<>>
  <2>1. Enumeration!Outstanding = {}
    BY <1>2, OutstandingAreAllowed
  <2>2. literals' # <<>> /\ EmittedPositions' = EmittedPositions
    BY <1>2
  <2> QED BY <1>2, <2>1, <2>2 DEF Enumeration!Exhausted
<1> QED BY <1>1, <1>2

\* A new clause: nothing of it has been handed out.
LEMMA RestartStep ==
  ASSUME answer' = NotAsked, literals' # <<>> => EmittedPositions' = {}
  PROVE  Enumeration!Restart
  BY DEF Enumeration!Restart

LEMMA QuietStep ==
  ASSUME UNCHANGED <<literals, minSize, maxSize, indices, firstPending, answer>>
  PROVE  UNCHANGED Enumeration!enumerationVars
<1>1. EmittedPositions' = EmittedPositions /\ ToSet(literals') = ToSet(literals)
  BY DEF EmittedPositions, Size
<1> QED BY <1>1 DEF Enumeration!enumerationVars

LEMMA NothingEmittedInitially == GeneratorInit => Enumeration!EnumerationInit
  BY DEF GeneratorInit, Enumeration!EnumerationInit

\* The positions named by the indices, when they are the first ones of the smallest size
\* or stand before them: no candidate precedes them.
LEMMA NoneBeforeTheFirst ==
  ASSUME NEW n \in Nat, NEW k \in 1 .. n, NEW f \in Seq(Nat), Len(f) = k,
         f = FirstIndices(k) \/ f = << 0 >>,
         NEW s \in SUBSET (1 .. n), Cardinality(s) = k
  PROVE  ~Precedes(s, ToSet(f)) /\ (f = <<0>> => s # ToSet(f))
<1>1. DOMAIN f = 1 .. k
  OBVIOUS
<1>2. CASE f = FirstIndices(k)
  <2>1. ToSet(f) = 1 .. k /\ f # <<0>>
    <3>1. Named(f, k) = 1 .. k /\ f # <<0>>
      BY <1>2, FirstOfSize
    <3> QED BY <1>1, <3>1 DEF ToSet, Named
  <2>2. k \in 0 .. n
    OBVIOUS
  <2> QED BY <2>1, <2>2, FirstPositionsComeFirst
<1>3. CASE f = <<0>>
  <2>1. ToSet(f) = {0}
    BY <1>3 DEF ToSet
  <2>2. 0 \notin s
    OBVIOUS
  <2>3. ~Precedes(s, {0})
    <3> SUFFICES ASSUME NEW i \in s \ {0}, \A j \in (s \ {0}) \cup ({0} \ s) : i <= j
                 PROVE  FALSE
      BY DEF Precedes
    <3>1. i <= 0 /\ i \in 1 .. n
      BY <2>2
    <3> QED BY <3>1
  <2> QED BY <2>1, <2>2, <2>3
<1> QED BY <1>2, <1>3

LEMMA RefuseRestarts ==
  ASSUME NEW r \in Requests, Refuse(r)
  PROVE  Enumeration!Restart
  BY RestartStep DEF Refuse

LEMMA AcceptRestarts ==
  ASSUME GeneratorInv, NEW r \in Requests, Accept(r)
  PROVE  Enumeration!Restart
<1>1. GeneratorInv'
  BY AcceptInv
<1>2. /\ literals' \in Ordered(heuristic, r) /\ answer' = NotAsked /\ Acceptable(r)
      /\ minSize' = RequestedMin(r)
      /\ indices' = IF minSize' > 1 THEN FirstIndices(minSize') ELSE <<0>>
      /\ firstPending' = (r.restricted /\ r.minAllowedSize > 1)
  BY DEF Accept
<1>3. minSize' \in 1 .. Len(literals') /\ Len(literals') \in Nat
  BY <1>2, OrderedFacts, OverlappingFacts DEF Acceptable
<1>4. ASSUME minSize' > 1
      PROVE  firstPending'
  <2>1. RequestedMin(r) > 1
    BY <1>2, <1>4
  <2>2. r.restricted /\ r.minAllowedSize > 1
    BY <2>1 DEF RequestedMin
  <2> QED BY <1>2, <2>2
<1>5. indices' \in Seq(Nat) /\ Len(indices') = minSize'
  <2>1. CASE minSize' > 1
    BY <1>2, <1>3, <2>1, FirstOfSize
  <2>2. CASE ~(minSize' > 1)
    <3>1. minSize' = 1 /\ indices' = <<0>>
      BY <1>2, <1>3, <2>2
    <3> QED BY <3>1
  <2> QED BY <2>1, <2>2
<1>6. ASSUME NEW s \in EmittedPositions'
      PROVE  FALSE
  <2>1. /\ s \in SUBSET (1 .. Len(literals')) /\ Cardinality(s) \in minSize' .. maxSize'
        /\ \/ Cardinality(s) < Len(indices')
           \/ /\ Cardinality(s) = Len(indices')
              /\ Precedes(s, ToSet(indices')) \/ (s = ToSet(indices') /\ ~firstPending')
    BY <1>6 DEF EmittedPositions, Size
  <2>2. Cardinality(s) = minSize'
    BY <1>3, <1>5, <2>1
  <2>3. indices' = FirstIndices(minSize') \/ indices' = <<0>>
    BY <1>2
  <2>4. ~Precedes(s, ToSet(indices')) /\ (indices' = <<0>> => s # ToSet(indices'))
    BY <1>3, <1>5, <2>1, <2>2, <2>3, NoneBeforeTheFirst
  <2>5. s = ToSet(indices') /\ ~firstPending'
    BY <1>3, <1>5, <2>1, <2>2, <2>4
  <2> QED BY <1>2, <1>4, <2>4, <2>5
<1> QED BY <1>2, <1>6, RestartStep

\* Whether a set of positions has been handed out, when the sizes are known to be numbers.
LEMMA EmittedFacts ==
  ASSUME GeneratorInv
  PROVE  /\ EmittedPositions \subseteq AllowedPositions
         /\ \A s \in AllowedPositions :
              /\ s \in SUBSET (1 .. Len(literals)) /\ Cardinality(s) \in Nat
              /\ minSize <= Cardinality(s) /\ Cardinality(s) <= maxSize
              /\ s \in EmittedPositions <=>
                   \/ Cardinality(s) < Size
                   \/ /\ Cardinality(s) = Size
                      /\ Precedes(s, ToSet(indices)) \/ (s = ToSet(indices) /\ ~firstPending)
<1>1. minSize \in Nat /\ maxSize \in Nat
  BY DEF GeneratorInv, GeneratorTypeOK
<1> QED BY <1>1 DEF EmittedPositions, AllowedPositions

LEMMA AnswerNothingExhausts ==
  ASSUME GeneratorInv, AnswerNothing
  PROVE  Enumeration!Exhausted
<1>1. /\ UNCHANGED <<literals, minSize, maxSize, indices, firstPending>>
      /\ answer' = NoCandidate /\ ~MayGenerate
  BY DEF AnswerNothing
<1>2. EmittedPositions' = EmittedPositions
  BY <1>1 DEF EmittedPositions, Size
<1>3. ASSUME literals # <<>>, NEW s \in AllowedPositions
      PROVE  s \in EmittedPositions
  <2>1. Size \in Nat /\ maxSize \in Nat /\ maxSize < Size
    <3>1. indices \in Seq(Nat) /\ maxSize \in Nat
      BY DEF GeneratorInv, GeneratorTypeOK
    <3> QED BY <1>1, <1>3, <3>1 DEF MayGenerate, Size
  <2> QED BY <2>1, EmittedFacts
<1>4. literals # <<>> => AllowedPositions = EmittedPositions
  BY <1>3, EmittedFacts
<1> QED BY <1>1, <1>2, <1>4, ExhaustStep

LEMMA AnswerFirstEmits ==
  ASSUME GeneratorInv, AnswerFirst
  PROVE  Enumeration!Emit
<1>1. /\ UNCHANGED <<literals, minSize, maxSize, indices>> /\ answer' = candidate
      /\ MayGenerate /\ firstPending /\ firstPending' = FALSE
  BY DEF AnswerFirst
<1>2. GeneratorInv'
  BY AnswerFirstInv
<1>3. /\ literals # <<>> /\ minSize \in 1 .. Len(literals) /\ Len(literals) \in Nat
      /\ minSize \in Nat /\ maxSize \in Nat /\ minSize <= maxSize
      /\ indices = FirstIndices(minSize) /\ indices \in Seq(Nat)
  <2>1. literals \in Seq(Int) /\ minSize \in Nat /\ maxSize \in Nat /\ indices \in Seq(Nat)
    BY DEF GeneratorInv, GeneratorTypeOK
  <2>2. /\ literals # <<>> /\ 1 <= minSize /\ minSize <= maxSize /\ maxSize <= Len(literals)
        /\ indices = FirstIndices(minSize)
    BY <1>1 DEF MayGenerate, GeneratorInv, ClauseInv, PendingInv
  <2> QED BY <2>1, <2>2
<1>4. /\ Len(indices) = minSize /\ indices # <<0>> /\ Named(indices, minSize) = 1 .. minSize
      /\ Size = minSize
  BY <1>3, FirstOfSize DEF Size
<1>5. ToSet(indices) = 1 .. minSize
  <2>1. DOMAIN indices = 1 .. minSize
    BY <1>3, <1>4
  <2> QED BY <1>4, <2>1 DEF ToSet, Named
<1> DEFINE u == 1 .. minSize
<1>6. answer' = Image(u)
  <2>1. candidate = {literals[indices[p]] : p \in 1 .. Size}
    BY <1>1, <1>4 DEF GeneratorInv, PositionsInv
  <2>2. \A p \in 1 .. minSize : indices[p] = p
    BY <1>3 DEF FirstIndices
  <2> QED BY <1>1, <1>4, <2>1, <2>2 DEF Image
<1>7. u \in AllowedPositions /\ Cardinality(u) = minSize
  <2>1. Cardinality(u) = minSize
    BY <1>3, FS_Interval
  <2> QED BY <1>3, <2>1 DEF AllowedPositions
<1>8. \A s \in AllowedPositions : Cardinality(s) = minSize => ~Precedes(s, u)
  <2>1. minSize \in 0 .. Len(literals)
    BY <1>3
  <2> QED BY <1>3, <2>1, FirstPositionsComeFirst, EmittedFacts
<1> HIDE DEF u
<1>9. EmittedPositions = {}
  BY <1>1, <1>3, <1>4, <1>5, <1>8, EmittedFacts DEF u
<1>10. EmittedPositions' = {u}
  <2>1. AllowedPositions' = AllowedPositions
    BY <1>1 DEF AllowedPositions
  <2>2. Size' = minSize /\ ToSet(indices') = u
    BY <1>1, <1>4, <1>5 DEF Size, u
  <2>3. \A s \in AllowedPositions :
          s \in EmittedPositions' <=>
             \/ Cardinality(s) < minSize
             \/ Cardinality(s) = minSize /\ (Precedes(s, u) \/ s = u)
    BY <1>1, <2>1, <2>2 DEF EmittedPositions, AllowedPositions
  <2>4. EmittedPositions' \subseteq AllowedPositions
    BY <1>1 DEF EmittedPositions, AllowedPositions
  <2>5. \A s \in AllowedPositions : minSize <= Cardinality(s) /\ Cardinality(s) \in Nat
    BY EmittedFacts
  <2>6. \A s \in AllowedPositions : s \in EmittedPositions' <=> s = u
    BY <1>3, <1>7, <1>8, <2>3, <2>5
  <2> QED BY <1>7, <2>4, <2>6
<1>11. \A s \in AllowedPositions : Cardinality(u) <= Cardinality(s)
  BY <1>7, EmittedFacts
<1> QED BY <1>1, <1>3, <1>6, <1>7, <1>9, <1>10, <1>11, EmitStep

\* When every position is exhausted, all candidates of the size have been handed out.
LEMMA LastOfItsSize ==
  ASSUME GeneratorInv, Searching, Exhausted(position), AllExhausted
  PROVE  \A s \in AllowedPositions : s \in EmittedPositions <=> Cardinality(s) <= Size
<1>1. \A q \in 1 .. Size : indices[q] = (Len(literals) - Size) + q
  BY AllExhaustedFacts
<1>2. /\ Size \in 1 .. Len(literals) /\ Len(literals) \in Nat /\ ~firstPending
      /\ indices \in Seq(Nat) /\ Len(indices) = Size
  BY SearchFacts
<1> DEFINE t == ToSet(indices)
<1>3. t \in SUBSET (1 .. Len(literals)) /\ Cardinality(t) = Size
  <2>1. Increasing(indices, Size, Len(literals))
    BY ExhaustedFacts DEF PositionsInv
  <2>2. Size \in 0 .. Len(literals)
    BY <1>2
  <2>3. /\ Named(indices, Size) \in SUBSET (1 .. Len(literals))
        /\ Cardinality(Named(indices, Size)) = Size
    BY <1>2, <2>1, <2>2, IncreasingPositions
  <2>4. DOMAIN indices = 1 .. Size
    BY <1>2
  <2> QED BY <2>3, <2>4 DEF ToSet, Named
<1>4. \A i \in 1 .. Len(literals) : i \in t <=> i > Len(literals) - Size
  <2>1. DOMAIN indices = 1 .. Size
    BY <1>2
  <2>2. ASSUME NEW i \in 1 .. Len(literals), i > Len(literals) - Size
        PROVE  i \in t
    <3>1. i - (Len(literals) - Size) \in 1 .. Size
      BY <1>2, <2>2
    <3>2. indices[i - (Len(literals) - Size)] = i
      BY <1>1, <1>2, <3>1
    <3> QED BY <2>1, <3>1, <3>2 DEF ToSet
  <2>3. ASSUME NEW i \in 1 .. Len(literals), i \in t
        PROVE  i > Len(literals) - Size
    <3>1. PICK q \in 1 .. Size : i = indices[q]
      BY <2>1, <2>3 DEF ToSet
    <3> QED BY <1>1, <1>2, <3>1
  <2> QED BY <2>2, <2>3
<1> HIDE DEF t
<1>5. ASSUME NEW s \in AllowedPositions, Cardinality(s) = Size, s # t
      PROVE  Precedes(s, t)
  <2>1. s \in SUBSET (1 .. Len(literals)) /\ Cardinality(s) = Cardinality(t)
    BY <1>3, <1>5 DEF AllowedPositions
  <2>2. \A i, j \in 1 .. Len(literals) : (i \in t /\ i > 0 /\ j >= i) => j \in t
    BY <1>2, <1>4
  <2>3. \A i \in 1 .. Len(literals) : i <= 0 => (i \in s <=> i \in t)
    BY <1>2
  <2> QED BY <1>2, <1>3, <1>5, <2>1, <2>2, <2>3, LastPositionsComeLast
<1>6. ASSUME NEW s \in AllowedPositions
      PROVE  s \in EmittedPositions <=> Cardinality(s) <= Size
  <2>1. Cardinality(s) \in Nat
    BY EmittedFacts
  <2>2. s \in EmittedPositions <=>
           Cardinality(s) < Size \/ (Cardinality(s) = Size /\ (Precedes(s, t) \/ s = t))
    BY <1>2, EmittedFacts DEF t
  <2> QED BY <1>2, <1>5, <2>1, <2>2
<1> QED BY <1>6

LEMMA StopAtFullSizeExhausts ==
  ASSUME GeneratorInv, StopAtFullSize
  PROVE  Enumeration!Exhausted
<1>1. /\ Searching /\ Exhausted(position) /\ AllExhausted /\ Size = Len(literals)
      /\ answer' = NoCandidate /\ UNCHANGED <<literals, minSize, maxSize, indices, firstPending>>
  BY DEF StopAtFullSize
<1>2. EmittedPositions' = EmittedPositions
  BY <1>1 DEF EmittedPositions, Size
<1>3. Size \in Nat /\ maxSize \in Nat /\ maxSize <= Size
  BY <1>1, SearchFacts
<1>4. \A s \in AllowedPositions : s \in EmittedPositions
  <2>1. \A s \in AllowedPositions : Cardinality(s) \in Nat /\ Cardinality(s) <= maxSize
    BY EmittedFacts
  <2> QED BY <1>1, <1>3, <2>1, LastOfItsSize
<1>5. AllowedPositions = EmittedPositions
  BY <1>4, EmittedFacts
<1> QED BY <1>1, <1>2, <1>5, ExhaustStep

LEMMA StopAtMaxSizeExhausts ==
  ASSUME GeneratorInv, StopAtMaxSize
  PROVE  Enumeration!Exhausted
<1>1. /\ Searching /\ Exhausted(position) /\ AllExhausted /\ Size >= maxSize
      /\ answer' = NoCandidate /\ UNCHANGED <<literals, minSize, maxSize, firstPending>>
      /\ indices' = Append([indices EXCEPT ![1] = 1], 0)
  BY DEF StopAtMaxSize
<1>2. Size \in Nat /\ maxSize \in Nat /\ maxSize <= Size
  BY <1>1, SearchFacts
<1>3. \A s \in AllowedPositions : Cardinality(s) \in Nat /\ Cardinality(s) <= maxSize
  BY EmittedFacts
<1>4. AllowedPositions = EmittedPositions
  <2>1. \A s \in AllowedPositions : s \in EmittedPositions
    BY <1>1, <1>2, <1>3, LastOfItsSize
  <2> QED BY <2>1, EmittedFacts
<1>5. Size' = Size + 1
  <2>1. indices \in [1 .. Size -> Nat] /\ indices \in Seq(Nat) /\ Len(indices) = Size
    BY <1>1, SearchFacts
  <2>2. [indices EXCEPT ![1] = 1] \in [1 .. Size -> Nat]
    BY <2>1
  <2>3. [indices EXCEPT ![1] = 1] \in Seq(Nat) /\ Len([indices EXCEPT ![1] = 1]) = Size
    BY <1>1, <2>2, SearchFacts
  <2> QED BY <1>1, <2>3 DEF Size
<1>6. \A s \in AllowedPositions : Cardinality(s) < Size'
  BY <1>2, <1>3, <1>5
<1>7. EmittedPositions' = AllowedPositions
  BY <1>1, <1>6 DEF EmittedPositions, AllowedPositions
<1> QED BY <1>1, <1>4, <1>7, ExhaustStep

LEMMA EnlargeEmits ==
  ASSUME GeneratorInv, Enlarge
  PROVE  Enumeration!Emit
<1>1. /\ Searching /\ Exhausted(position) /\ AllExhausted /\ Size < Len(literals) /\ Size < maxSize
      /\ indices' = FirstIndices(Size + 1) /\ candidate' = FirstCandidate(literals, Size + 1)
      /\ wrapArounds' = FirstWrapArounds(Size + 1, Len(literals))
      /\ answer' = candidate' /\ UNCHANGED <<literals, minSize, maxSize, firstPending>>
  BY DEF Enlarge
<1>2. /\ literals # <<>> /\ literals \in Seq(Int) /\ Len(literals) \in Nat
      /\ minSize \in Nat /\ maxSize \in Nat /\ minSize <= Size
      /\ Size \in Nat /\ Size + 1 \in 1 .. Len(literals) /\ ~firstPending
  BY <1>1, SearchFacts
<1> DEFINE u == 1 .. Size + 1
<1>3. Size' = Size + 1 /\ ToSet(indices') = u /\ indices' \in Seq(Nat)
  BY <1>1, <1>2, FirstCandidateInv
<1>4. answer' = Image(u)
  BY <1>1 DEF FirstCandidate, Image
<1>5. u \in AllowedPositions /\ Cardinality(u) = Size + 1
  <2>1. Cardinality(u) = Size + 1
    BY <1>2, FS_Interval
  <2> QED BY <1>1, <1>2, <2>1 DEF AllowedPositions
<1>6. \A s \in AllowedPositions : Cardinality(s) = Size + 1 => ~Precedes(s, u)
  <2>1. \A s \in AllowedPositions : s \in SUBSET (1 .. Len(literals))
    BY EmittedFacts
  <2>2. Size + 1 \in 0 .. Len(literals)
    BY <1>2
  <2> QED BY <1>2, <2>1, <2>2, FirstPositionsComeFirst
<1> HIDE DEF u
<1>7. \A s \in AllowedPositions : s \in EmittedPositions <=> Cardinality(s) <= Size
  BY <1>1, LastOfItsSize
<1>8. \A s \in AllowedPositions : Cardinality(s) \in Nat
  BY EmittedFacts
<1>9. EmittedPositions' = EmittedPositions \cup {u}
  <2>1. \A s \in AllowedPositions :
          s \in EmittedPositions' <=>
             \/ Cardinality(s) < Size + 1
             \/ Cardinality(s) = Size + 1 /\ (Precedes(s, u) \/ s = u)
    BY <1>1, <1>2, <1>3 DEF EmittedPositions, AllowedPositions
  <2>2. EmittedPositions' \subseteq AllowedPositions
    BY <1>1 DEF EmittedPositions, AllowedPositions
  <2>3. \A s \in AllowedPositions : s \in EmittedPositions' <=> (Cardinality(s) <= Size \/ s = u)
    BY <1>2, <1>5, <1>6, <1>8, <2>1
  <2> QED BY <1>5, <1>7, <2>2, <2>3, EmittedFacts
<1>10. \A s \in AllowedPositions \ EmittedPositions : Cardinality(u) <= Cardinality(s)
  BY <1>2, <1>5, <1>7, <1>8
<1>11. u \notin EmittedPositions
  BY <1>2, <1>5, <1>7
<1> QED BY <1>1, <1>2, <1>4, <1>5, <1>9, <1>10, <1>11, EmitStep

LEMMA AdvanceEmits ==
  ASSUME GeneratorInv, Advance
  PROVE  Enumeration!Emit
<1>1. /\ Searching /\ answer' = candidate' /\ UNCHANGED <<literals, minSize, maxSize, firstPending>>
      /\ indices' = Advanced(indices, Size, position)
      /\ indices' \in Seq(Nat) /\ Len(indices') = Size /\ Size' = Size
      /\ Increasing(indices', Size, Len(literals))
  BY AdvanceFacts
<1>2. /\ literals # <<>> /\ Len(literals) \in Nat /\ minSize \in Nat /\ maxSize \in Nat
      /\ minSize <= Size /\ Size <= maxSize /\ Size \in 1 .. Len(literals) /\ ~firstPending
      /\ indices \in Seq(Nat) /\ Len(indices) = Size /\ position \in 1 .. Size
      /\ Size \in 0 .. Len(literals)
  BY <1>1, SearchFacts
<1> DEFINE t == ToSet(indices)
           u == ToSet(indices')
<1>3. t = Named(indices, Size) /\ u = Named(indices', Size)
  <2>1. DOMAIN indices = 1 .. Size /\ DOMAIN indices' = 1 .. Size
    BY <1>1, <1>2
  <2> QED BY <2>1 DEF ToSet, Named
<1>4. answer' = Image(u)
  BY <1>1, <1>3, AdvancedCandidate DEF Image, Named
<1>5. u \in SUBSET (1 .. Len(literals)) /\ Cardinality(u) = Size
  BY <1>1, <1>2, <1>3, IncreasingPositions
<1>6. u \in AllowedPositions
  BY <1>2, <1>5 DEF AllowedPositions
<1> HIDE DEF t, u
<1>7. ASSUME NEW s \in AllowedPositions, Cardinality(s) = Size
      PROVE  Precedes(s, u) <=> Precedes(s, t) \/ s = t
  <2>1. s \in SUBSET (1 .. Len(literals))
    BY EmittedFacts
  <2>2. CASE indices = <<0>>
    <3>1. Size = 1 /\ indices' = <<1>>
      BY <2>2, AdvanceFacts
    <3>2. indices' = FirstIndices(1)
      BY <3>1, FirstOfSize DEF FirstIndices
    <3>3. ~Precedes(s, u)
      BY <1>1, <1>2, <1>7, <2>1, <3>1, <3>2, NoneBeforeTheFirst DEF u
    <3>4. ~Precedes(s, t) /\ s # t
      BY <1>2, <1>7, <2>1, <2>2, NoneBeforeTheFirst DEF t
    <3> QED BY <3>3, <3>4
  <2>3. CASE indices # <<0>>
    <3>1. /\ Increasing(indices, Size, Len(literals))
          /\ indices[position] < (Len(literals) - Size) + position
      BY <2>3, AdvanceFacts DEF PositionsInv
    <3>2. \A q \in position + 1 .. Size : indices[q] = (Len(literals) - Size) + q
      BY <1>1, SearchFacts
    <3>3. Precedes(s, Named(Advanced(indices, Size, position), Size)) <=>
            Precedes(s, Named(indices, Size)) \/ s = Named(indices, Size)
      <4>1. Len(literals) \in Nat /\ Size \in 0 .. Len(literals) /\ position \in 1 .. Size
        BY <1>2
      <4>2. Cardinality(s) = Size
        BY <1>7
      <4> QED BY <4>1, <4>2, <2>1, <3>1, <3>2, AdvancedIsNext, SMTT(60)
    <3> QED BY <1>1, <1>3, <3>3
  <2> QED BY <2>2, <2>3
<1>8. ASSUME NEW s \in AllowedPositions
      PROVE  /\ Cardinality(s) \in Nat
             /\ s \in EmittedPositions <=>
                  Cardinality(s) < Size \/ (Cardinality(s) = Size /\ Precedes(s, u))
  BY <1>2, <1>7, EmittedFacts DEF t
<1>9. ~Precedes(u, u)
  BY DEF Precedes
<1>10. EmittedPositions' = EmittedPositions \cup {u}
  <2>1. \A s \in AllowedPositions :
          s \in EmittedPositions' <=>
             \/ Cardinality(s) < Size
             \/ Cardinality(s) = Size /\ (Precedes(s, u) \/ s = u)
    BY <1>1, <1>2 DEF EmittedPositions, AllowedPositions, u
  <2>2. EmittedPositions' \subseteq AllowedPositions
    BY <1>1 DEF EmittedPositions, AllowedPositions
  <2>3. \A s \in AllowedPositions : s \in EmittedPositions' <=> (s \in EmittedPositions \/ s = u)
    BY <1>5, <1>8, <2>1
  <2> QED BY <1>6, <2>2, <2>3, EmittedFacts
<1>11. \A s \in AllowedPositions \ EmittedPositions : Cardinality(u) <= Cardinality(s)
  BY <1>2, <1>5, <1>8
<1>12. u \notin EmittedPositions
  BY <1>2, <1>5, <1>6, <1>8, <1>9
<1> QED BY <1>1, <1>2, <1>4, <1>6, <1>10, <1>11, <1>12, EmitStep

LEMMA StepEnumerates ==
  GeneratorInv /\ [GeneratorNext]_generatorVars =>
    [Enumeration!EnumerationNext]_(Enumeration!enumerationVars)
<1> SUFFICES ASSUME GeneratorInv, [GeneratorNext]_generatorVars
             PROVE  [Enumeration!EnumerationNext]_(Enumeration!enumerationVars)
  OBVIOUS
<1>1. CASE \E r \in Requests : Refuse(r) \/ Accept(r)
  BY <1>1, RefuseRestarts, AcceptRestarts DEF Enumeration!EnumerationNext
<1>2. CASE AnswerNothing
  BY <1>2, AnswerNothingExhausts DEF Enumeration!EnumerationNext
<1>3. CASE AnswerFirst
  BY <1>3, AnswerFirstEmits DEF Enumeration!EnumerationNext
<1>4. CASE BeginSearch
  BY <1>4, QuietStep DEF BeginSearch
<1>5. CASE SearchStep
  <2>1. CASE Backtrack
    BY <2>1, QuietStep DEF Backtrack
  <2>2. CASE StopAtFullSize
    BY <2>2, StopAtFullSizeExhausts DEF Enumeration!EnumerationNext
  <2>3. CASE StopAtMaxSize
    BY <2>3, StopAtMaxSizeExhausts DEF Enumeration!EnumerationNext
  <2>4. CASE Enlarge
    BY <2>4, EnlargeEmits DEF Enumeration!EnumerationNext
  <2>5. CASE Advance
    BY <2>5, AdvanceEmits DEF Enumeration!EnumerationNext
  <2> QED BY <1>5, <2>1, <2>2, <2>3, <2>4, <2>5 DEF SearchStep
<1>6. CASE UNCHANGED generatorVars
  BY <1>6, QuietStep DEF generatorVars
<1> QED BY <1>1, <1>2, <1>3, <1>4, <1>5, <1>6 DEF GeneratorNext

\* Whatever the clause, the size restriction and the heuristic: the generator hands out
\* every subset of its literals of an allowed size, each exactly once and the smaller ones
\* first, and says that there are no more only when that is so.
THEOREM GeneratorEnumerates == GeneratorSpec => EnumeratesAllCandidates
<1>1. GeneratorSpec => []GeneratorInv
  BY GeneratorInvInitially, GeneratorInvInductive, PTL DEF GeneratorSpec
<1> QED BY <1>1, NothingEmittedInitially, StepEnumerates, PTL
  DEF GeneratorSpec, EnumeratesAllCandidates, Enumeration!EnumerationSpec
=============================================================================
