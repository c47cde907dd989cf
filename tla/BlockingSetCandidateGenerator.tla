------------------- MODULE BlockingSetCandidateGenerator -------------------
(***************************************************************************)
(* LiteralOccurrenceBlockingSetCandidateGenerator: enumerates the subsets  *)
(* of a clause's literals that may be a blocking set.  A candidate is      *)
(* given by an increasing vector of positions; the next one is found by    *)
(* searching backwards for a position that can still be advanced, and when *)
(* there is none the candidates get one literal larger.                    *)
(*                                                                         *)
(* Positions count from 1 here and from 0 in the code; 0 stands for        *)
(* INITIAL_INDEX_VALUE, which the first increment wraps to the first       *)
(* position.  The search loop of generateNextCandidate takes one step per  *)
(* iteration.                                                              *)
(***************************************************************************)
EXTENDS Integers, Sequences, FiniteSets, SequencesExt

CONSTANTS
  Requests,      \* the arguments init may be called with
  Heuristics,    \* the literal selection heuristics in use
  NoCandidate,   \* std::nullopt
  NotAsked       \* what stands for the answer until the first call after init

AllHeuristics == {"Sequential", "Random", "MinimalClauseOverlap", "MaximumClauseOverlap"}

\* A restriction with minAllowedSize > maxAllowedSize makes init throw.  The clauses
\* are taken to hold no literal twice.
ASSUME GeneratorAssumption ==
  /\ Heuristics \subseteq AllHeuristics
  /\ \A r \in Requests :
       /\ r.literals \in Seq(Int) /\ Len(r.literals) = Cardinality(ToSet(r.literals))
       /\ \A p \in DOMAIN r.literals : r.overlaps[r.literals[p]] \in Nat
       /\ r.restricted \in BOOLEAN
       /\ r.minAllowedSize \in Nat /\ r.maxAllowedSize \in Nat
       /\ r.minAllowedSize <= r.maxAllowedSize

VARIABLES
  heuristic,      \* literalSelectionHeuristic
  literals,       \* clauseLiterals, filtered and ordered
  minSize,        \* candidateSizeRestriction
  maxSize,
  indices,        \* candidateLiteralIndices
  wrapArounds,    \* requiredWrapAroundBeforeCandidateResize
  candidate,      \* lastGeneratedCandidate
  firstPending,   \* usingNoneDefaultInitialCandidateSizeOneTimeFlag
  position,       \* lastModifiedIdx of a running search, 0 when none runs
  answer          \* what generateNextCandidate returned last, if it was called since init

generatorVars == <<heuristic, literals, minSize, maxSize, indices, wrapArounds,
                   candidate, firstPending, position, answer>>
-----------------------------------------------------------------------------
(* Initialisation.                                                         *)

Min2(a, b) == IF a <= b THEN a ELSE b

\* The literals whose negation occurs in some clause.
Overlapping(r) == {l \in ToSet(r.literals) : r.overlaps[l] # 0}

\* Literal k may stand before literal l: the filter keeps the order of the clause,
\* std::shuffle yields any order, std::sort leaves that of equal counts open.
MayPrecede(h, r, k, l) ==
  CASE h = "Sequential" ->
         \E i, j \in DOMAIN r.literals : i < j /\ r.literals[i] = k /\ r.literals[j] = l
    [] h = "Random" -> TRUE
    [] h = "MinimalClauseOverlap" -> r.overlaps[k] <= r.overlaps[l]
    [] h = "MaximumClauseOverlap" -> r.overlaps[k] >= r.overlaps[l]

\* What the heuristic may make of the literals.
Ordered(h, r) ==
  {s \in SetToSeqs(Overlapping(r)) :
     \A p, q \in DOMAIN s : p < q => MayPrecede(h, r, s[p], s[q])}

FirstIndices(size) == [p \in 1 .. size |-> p]

FirstWrapArounds(size, n) == [p \in 1 .. size |-> n - size]
FirstCandidate(seq, size) == {seq[p] : p \in 1 .. size}

GeneratorInit ==
  /\ heuristic \in Heuristics
  /\ literals = <<>>
  /\ minSize = 0 /\ maxSize = 0
  /\ indices = <<>>
  /\ wrapArounds = <<>>
  /\ candidate = {}
  /\ firstPending = FALSE
  /\ position = 0
  /\ answer = NotAsked

RequestedMin(r) == IF r.restricted THEN r.minAllowedSize ELSE 1
RequestedMax(r) ==
  IF r.restricted THEN Min2(r.maxAllowedSize, Len(r.literals)) ELSE Len(r.literals)

Acceptable(r) == RequestedMin(r) \in 1 .. Cardinality(Overlapping(r))

\* init of a clause no candidate can be made of.
Refuse(r) ==
  /\ position = 0
  /\ ~Acceptable(r)
  /\ literals' = <<>> /\ indices' = <<>> /\ wrapArounds' = <<>> /\ candidate' = {}
  /\ minSize' = RequestedMin(r) /\ maxSize' = RequestedMax(r)
  /\ answer' = NotAsked
  /\ UNCHANGED <<heuristic, firstPending, position>>

\* init: candidates of one literal start before the first position; larger ones are
\* set up at once and handed out by the first call.
Accept(r) ==
  /\ position = 0
  /\ Acceptable(r)
  /\ minSize' = RequestedMin(r)
  /\ maxSize' = Min2(RequestedMax(r), Cardinality(Overlapping(r)))
  /\ literals' \in Ordered(heuristic, r)
  /\ indices' = IF minSize' > 1 THEN FirstIndices(minSize') ELSE <<0>>
  /\ wrapArounds' = FirstWrapArounds(minSize', Len(literals'))
  /\ candidate' = IF minSize' > 1 THEN FirstCandidate(literals', minSize') ELSE {}
  /\ firstPending' = (r.restricted /\ r.minAllowedSize > 1)
  /\ answer' = NotAsked
  /\ UNCHANGED <<heuristic, position>>
-----------------------------------------------------------------------------
(* generateNextCandidate.                                                  *)

Size == Len(indices)

\* Variant: the largest allowed size is taken for a bound not to be reached.
MayGenerateSmaller == literals # <<>> /\ Size < maxSize

MayGenerate == literals # <<>> /\ Size <= maxSize

\* getLastIncrementableIndexForPosition
LastPosition(p) == Len(literals) - Size + p

AnswerNothing ==
  /\ position = 0
  /\ ~MayGenerate
  /\ answer' = NoCandidate
  /\ UNCHANGED <<heuristic, literals, minSize, maxSize, indices, wrapArounds, candidate,
                 firstPending, position>>

AnswerFirst ==
  /\ position = 0
  /\ MayGenerate
  /\ firstPending
  /\ firstPending' = FALSE
  /\ answer' = candidate
  /\ UNCHANGED <<heuristic, literals, minSize, maxSize, indices, wrapArounds, candidate,
                 position>>

BeginSearch ==
  /\ position = 0
  /\ MayGenerate
  /\ ~firstPending
  /\ position' = Size
  /\ UNCHANGED <<heuristic, literals, minSize, maxSize, indices, wrapArounds, candidate,
                 firstPending, answer>>

Searching == position > 0
Exhausted(p) == indices[p] = LastPosition(p)

\* The wrap-arounds after an exhausted position has been counted down.
CountedDown == [wrapArounds EXCEPT ![position] = IF @ > 0 THEN @ - 1 ELSE 0]

\* Variant: the search does not leave its position.
BackNowhere == position

\* Where the search goes from an exhausted position.
Back == IF CountedDown[position] = 0 /\ position > 1 THEN position - 1 ELSE position

\* Every position is exhausted: the first one has been reached with nothing to count.
AllExhausted == CountedDown[position] = 0 /\ Back = 1 /\ CountedDown[1] = 0

Backtrack ==
  /\ Searching
  /\ Exhausted(position)
  /\ ~AllExhausted
  /\ wrapArounds' = CountedDown
  /\ position' = Back
  /\ UNCHANGED <<heuristic, literals, minSize, maxSize, indices, candidate, firstPending,
                 answer>>

\* The candidate of all literals was the last one.
StopAtFullSize ==
  /\ Searching
  /\ Exhausted(position) /\ AllExhausted
  /\ Size = Len(literals)
  /\ wrapArounds' = CountedDown
  /\ position' = 0
  /\ answer' = NoCandidate
  /\ UNCHANGED <<heuristic, literals, minSize, maxSize, indices, candidate, firstPending>>

\* incrementCandidateSize beyond the largest allowed size: no call generates after it.
StopAtMaxSize ==
  /\ Searching
  /\ Exhausted(position) /\ AllExhausted
  /\ Size < Len(literals) /\ Size >= maxSize
  /\ indices' = Append([indices EXCEPT ![1] = 1], 0)
  /\ wrapArounds' = Append(CountedDown, 0)
  /\ position' = 0
  /\ answer' = NoCandidate
  /\ UNCHANGED <<heuristic, literals, minSize, maxSize, candidate, firstPending>>

\* incrementCandidateSize
Enlarge ==
  /\ Searching
  /\ Exhausted(position) /\ AllExhausted
  /\ Size < Len(literals) /\ Size < maxSize
  /\ indices' = FirstIndices(Size + 1)
  /\ wrapArounds' = FirstWrapArounds(Size + 1, Len(literals))
  /\ candidate' = FirstCandidate(literals, Size + 1)
  /\ position' = 0
  /\ answer' = candidate'
  /\ UNCHANGED <<heuristic, literals, minSize, maxSize, firstPending>>

\* Variant: the literals to be replaced stay in the candidate.
KeptAll(p) == candidate

\* The candidate without the literals of the positions from p on.
Kept(p) == candidate \ {literals[indices[q]] : q \in {r \in p .. Size : indices[r] > 0}}

AdvancedFrom(p) ==
  [q \in 1 .. Size |-> IF q < p THEN indices[q] ELSE indices[p] + 1 + (q - p)]

\* A position that can be advanced: those behind it follow it without a gap.
Advance ==
  /\ Searching
  /\ ~Exhausted(position)
  /\ indices' = AdvancedFrom(position)
  /\ wrapArounds' =
       [q \in 1 .. Size |-> IF q < position THEN wrapArounds[q] ELSE LastPosition(q) - indices'[q]]
  /\ candidate' = Kept(position) \cup {literals[indices'[q]] : q \in position .. Size}
  /\ position' = 0
  /\ answer' = candidate'
  /\ UNCHANGED <<heuristic, literals, minSize, maxSize, firstPending>>

SearchStep == Backtrack \/ StopAtFullSize \/ StopAtMaxSize \/ Enlarge \/ Advance

GeneratorNext ==
  \/ \E r \in Requests : Refuse(r) \/ Accept(r)
  \/ AnswerNothing
  \/ AnswerFirst
  \/ BeginSearch
  \/ SearchStep

\* A started search runs to its end.
GeneratorSpec == GeneratorInit /\ [][GeneratorNext]_generatorVars /\ WF_generatorVars(SearchStep)
-----------------------------------------------------------------------------
(* Properties.                                                             *)

\* The state has the shape the code's types give it, and what is kept twice agrees:
\* between two calls the positions increase and stay within the clause, the candidate,
\* which each call only edits, is the set of the literals they name, and the wrap-around
\* counter of a position says how often it may still be advanced.
BookkeepingAgrees ==
  /\ heuristic \in AllHeuristics
  /\ literals \in Seq(Int)
  /\ minSize \in Nat /\ maxSize \in Nat
  /\ indices \in Seq(Nat) /\ wrapArounds \in Seq(Nat)
  /\ Len(wrapArounds) = Len(indices)
  /\ candidate \subseteq ToSet(literals)
  /\ firstPending \in BOOLEAN
  /\ position \in 0 .. Len(indices)
  /\ answer \notin {NoCandidate, NotAsked} => answer = candidate
  /\ (literals # <<>> /\ Size <= maxSize /\ indices # <<0>>) =>
       /\ \A p \in 1 .. Size : indices[p] \in p .. LastPosition(p)
       /\ \A p \in 1 .. Size - 1 : indices[p] < indices[p + 1]
       /\ candidate = {literals[indices[p]] : p \in 1 .. Size}
       /\ \A p \in 1 .. Size : wrapArounds[p] = LastPosition(p) - indices[p]

\* Every call of generateNextCandidate returns.
SearchTerminates == Searching ~> ~Searching

\* Of two sets of positions of one size, the one the generator reaches first.
Precedes(s, t) ==
  LET differing == (s \ t) \cup (t \ s) IN
  \E i \in differing : i \in s /\ \A j \in differing : i <= j

\* The candidates handed out since init, as the indices tell.
EmittedPositions ==
  {s \in SUBSET (1 .. Len(literals)) :
     /\ Cardinality(s) \in minSize .. maxSize
     /\ \/ Cardinality(s) < Size
        \/ /\ Cardinality(s) = Size
           /\ \/ Precedes(s, ToSet(indices))
              \/ s = ToSet(indices) /\ ~firstPending}

Enumeration == INSTANCE CandidateEnumeration WITH
  pool <- ToSet(literals),
  smallest <- IF literals = <<>> THEN 1 ELSE minSize,
  largest <- maxSize,
  emitted <- IF literals = <<>> THEN {} ELSE {{literals[i] : i \in s} : s \in EmittedPositions},
  answer <- answer

\* The generator enumerates the allowed subsets of its literals completely, without
\* repetition and by size, for every heuristic and however often it is initialised
\* anew in the middle of an enumeration.
EnumeratesAllCandidates == Enumeration!EnumerationSpec
=============================================================================
