----------------------- MODULE ClauseCandidateSelector -----------------------
(***************************************************************************)
(* ClauseCandidateSelector: a queue of clause indices in the order of a    *)
(* heuristic, from which a client takes candidates one by one.             *)
(*                                                                         *)
(* The queue is made from the number of clauses, not from their indices:   *)
(* in a formula whose indices have gaps some of its entries belong to no   *)
(* clause, and the clauses behind are not in it.                           *)
(***************************************************************************)
EXTENDS BlockingConditions, InsertionOrder

CONSTANT NotGiven   \* std::nullopt: no length restriction

SelectionHeuristics == {"Sequential", "Random", "MinimumClauseOverlap", "MaximumClauseOverlap",
                        "MinimumClauseLength", "MaximumClauseLength"}

VARIABLES
  queue,            \* candidateClauseIndexQueue
  numGeneratable,   \* numGeneratableCandidates
  taken             \* lastChosenCandidateIndexInQueue: how many have been selected

selectorVars == <<queue, numGeneratable, taken>>

\* getNumClausesAfterOptimizations
NumClauses == Cardinality(DOMAIN clauses)
-----------------------------------------------------------------------------
(* The values clauses are ordered by.                                      *)

\* literals.size(), where a repeated literal counts again.
LengthOf(i) == Cardinality(UNION {{l} \X (1 .. clauses[i].literals[l]) : l \in LiteralsOf(i)})

\* The clause counts itself only if it is a tautology.
OverlapOf(i) == Cardinality(UNION {occurrences[-l] : l \in LiteralsOf(i)})

SortedDescendingly(h) == h \in {"MaximumClauseOverlap", "MaximumClauseLength"}

\* Variant: an index without a clause counts as the smallest value.
HeuristicValueOrZero(h, i) ==
  IF i \notin DOMAIN clauses THEN 0
  ELSE IF h \in {"MinimumClauseOverlap", "MaximumClauseOverlap"} THEN OverlapOf(i) ELSE LengthOf(i)

\* An index without a clause goes to the end.
HeuristicValue(h, i) ==
  IF i \notin DOMAIN clauses THEN IF SortedDescendingly(h) THEN 0 ELSE SizeMax
  ELSE IF h \in {"MinimumClauseOverlap", "MaximumClauseOverlap"} THEN OverlapOf(i) ELSE LengthOf(i)

\* Whether index i may stand before j: std::shuffle yields any order, and the index
\* decides between equal values.
QueuedBefore(h, i, j) ==
  LET v == HeuristicValue(h, i)
      w == HeuristicValue(h, j)
  IN CASE h = "Sequential" -> i < j
       [] h = "Random" -> TRUE
       [] OTHER -> IF v = w THEN i < j ELSE IF SortedDescendingly(h) THEN v > w ELSE v < w
-----------------------------------------------------------------------------
(* The operations.                                                         *)

SelectorInit ==
  /\ queue = <<>>
  /\ numGeneratable = 0
  /\ taken = 0

\* generateIndexSequence.  An index without a clause passes any restriction.
IndexSequence(h, requested, maxLength) ==
  {i \in 0 .. (IF h = "Sequential" THEN requested ELSE NumClauses) - 1 :
     maxLength = NotGiven \/ i \notin DOMAIN clauses \/ LengthOf(i) <= maxLength}

\* Variant: the indices the restriction filters are counted.
GeneratableUnfiltered(ids, requested) == requested

Generatable(ids, requested) == Min({Cardinality(ids), requested})

\* initializeCandidateSequence.  All indices are queued, those beyond the ones that
\* were requested too.
InitializeCandidateSequence(h, requested, maxLength) ==
  LET ids == IndexSequence(h, requested, maxLength) IN
  /\ queue' \in {s \in SetToSeqs(ids) : \A p, q \in DOMAIN s : p < q => QueuedBefore(h, s[p], s[q])}
  /\ numGeneratable' = Generatable(ids, requested)
  /\ taken' = 0

\* selectNextCandidate answers the next index in the queue.
SelectNextCandidate ==
  /\ taken < Len(queue)
  /\ taken' = taken + 1
  /\ UNCHANGED <<queue, numGeneratable>>
=============================================================================
