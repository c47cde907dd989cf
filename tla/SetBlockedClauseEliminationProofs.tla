----------------- MODULE SetBlockedClauseEliminationProofs -----------------
(***************************************************************************)
(* Proofs about SetBlockedClauseElimination, for every number of           *)
(* variables, every set of clauses clients offer and every restriction:    *)
(* what is found blocks its clause, the clause may be removed, and no set  *)
(* that blocks a clause is overlooked.                                     *)
(***************************************************************************)
EXTENDS SetBlockedClauseElimination, ProblemDefinitionProofs, FiniteSetTheorems, TLAPS

\* What a search knows: all candidates are non-empty sets of literals of the subject.
SearchInv ==
  phase # "Idle" =>
    subject \in DOMAIN clauses /\ pool \subseteq LiteralsOf(subject) /\ smallest >= 1

\* What a check knows: the clauses it has checked fulfil the condition, and those of
\* the environment it has met are checked or still to be visited.
CheckInv ==
  phase = "Check" =>
    /\ candidate # {}
    /\ \A j \in alreadyChecked : j \in DOMAIN clauses /\ IsClauseSetBlocked(j)
    /\ \A l \in candidate \ literalsLeft : occurrences[-l] \subseteq alreadyChecked \cup clausesLeft

\* The inductive invariant.
SystemInv == StoreInv /\ EliminatorTypeOK /\ SearchInv /\ CheckInv
-----------------------------------------------------------------------------
(* The operations.                                                         *)

\* There are finitely many literals, so candidate sizes are numbers.
LEMMA LiteralSetsFinite ==
  ASSUME NEW S \in SUBSET Literals
  PROVE  Cardinality(S) \in Nat
<1>1. IsFiniteSet(-NumVariables .. NumVariables)
  BY FS_Interval, ProblemDefinitionAssumption
<1>2. S \subseteq -NumVariables .. NumVariables
  BY DEF Literals
<1>3. IsFiniteSet(S)
  BY <1>1, <1>2, FS_Subset
<1> QED BY <1>3, FS_CardinalityType

\* The instance of the generator counts as this module does.
LEMMA GeneratorCardinality ==
  ASSUME NEW S
  PROVE  Generator!Cardinality(S) = Cardinality(S)
  BY Zenon DEF Generator!Cardinality, Cardinality, Generator!IsFiniteSet, IsFiniteSet

LEMMA SystemInvInitially == SystemInit => SystemInv
<1> SUFFICES ASSUME SystemInit PROVE SystemInv
  OBVIOUS
<1>1. StoreInv
  BY InvInitially DEF SystemInit, Inv
<1> QED BY <1>1 DEF SystemInit, EliminatorInit, Generator!EnumerationInit, SystemInv,
  EliminatorTypeOK, SearchInv, CheckInv

\* What clients do between two searches keeps the lookup complete.
LEMMA UseFormulaInv ==
  ASSUME SystemInv, UseFormula
  PROVE  SystemInv'
<1>1. StoreInv'
  <2>1. ASSUME NEW i \in ClauseIds, NEW bag \in OfferedClauses, AddClause(i, bag)
        PROVE  StoreInv'
    BY <2>1, StoreClauseInv, ProblemDefinitionAssumption DEF AddClause, SystemInv
  <2>2. ASSUME NEW i \in ClauseIds, RemoveClause(i)
        PROVE  StoreInv'
    BY <2>2, DropClausesInv DEF RemoveClause, SystemInv
  <2>3. ASSUME NEW l \in Literals, RemoveLiteralFromClauses(l)
        PROVE  StoreInv'
    BY <2>3, EraseLiteralInv DEF RemoveLiteralFromClauses, SystemInv
  <2> QED BY <2>1, <2>2, <2>3 DEF UseFormula, ChangeStore
<1>2. phase = "Idle" /\ UNCHANGED eliminatorVars
  BY DEF UseFormula, Searching
<1> QED BY <1>1, <1>2 DEF SystemInv, EliminatorTypeOK, SearchInv, CheckInv, eliminatorVars,
  generatorState, scan

\* The store is not touched by a search.
LEMMA StoreInvUnchanged ==
  ASSUME StoreInv, UNCHANGED vars
  PROVE  /\ StoreInv'
         /\ \A j : LiteralsOf(j)' = LiteralsOf(j)
<1>1. clauses' = clauses /\ occurrences' = occurrences
  BY DEF vars
<1> QED BY <1>1, StoreUnchangedInv DEF store, LiteralsOf

LEMMA SearchMissingClauseInv ==
  ASSUME SystemInv, NEW i \in ClauseIds, SearchMissingClause(i)
  PROVE  SystemInv'
<1>1. /\ UNCHANGED <<vars, phase, subject, generatorState, scan>> /\ verdict' = NoCandidate
      /\ phase = "Idle"
  BY DEF SearchMissingClause, Searching
<1> QED BY <1>1, StoreInvUnchanged DEF SystemInv, EliminatorTypeOK, SearchInv, CheckInv,
  generatorState, scan

LEMMA StartSearchInv ==
  ASSUME SystemInv, NEW i \in ClauseIds, NEW r \in Restrictions, StartSearch(i, r)
  PROVE  SystemInv'
<1>1. /\ UNCHANGED <<vars, scan>> /\ phase = "Idle" /\ phase' = "Generate"
      /\ i \in DOMAIN clauses /\ subject' = i
      /\ pool' = PoolFor(i, r) /\ largest' = LargestSize(i, r)
      /\ smallest' = IF pool' = {} THEN 1 ELSE SmallestSize(r)
      /\ candidate' = NotAsked /\ verdict' = NotAsked
  BY DEF StartSearch, Searching, Generator!Restart
<1>2. OverlappingLiterals(i) \subseteq LiteralsOf(i) /\ LiteralsOf(i) \subseteq Literals
  BY LiteralsOfType DEF OverlappingLiterals
<1>3. Cardinality(OverlappingLiterals(i)) \in Nat
  BY <1>2, LiteralSetsFinite
<1>4. /\ pool' \subseteq LiteralsOf(i)
      /\ smallest' \in Nat /\ smallest' >= 1
  BY <1>1, <1>2, <1>3 DEF PoolFor
<1>5. largest' \in Nat
  BY <1>1, <1>3, RestrictionAssumption DEF LargestSize
<1>6. StoreInv' /\ LiteralsOf(i)' = LiteralsOf(i) /\ DOMAIN clauses' = DOMAIN clauses
  BY <1>1, StoreInvUnchanged DEF SystemInv, vars
<1>7. EliminatorTypeOK'
  BY <1>1, <1>2, <1>4, <1>5 DEF SystemInv, EliminatorTypeOK, scan
<1>8. SearchInv' /\ CheckInv'
  BY <1>1, <1>4, <1>6 DEF SearchInv, CheckInv, LiteralsOf
<1> QED BY <1>6, <1>7, <1>8 DEF SystemInv

LEMMA TakeCandidateInv ==
  ASSUME SystemInv, TakeCandidate
  PROVE  SystemInv'
<1>1. /\ phase = "Generate" /\ phase' = "Check" /\ literalsLeft' = candidate'
      /\ UNCHANGED <<vars, subject, clausesLeft, alreadyChecked, environmentSeen, verdict>>
  BY DEF TakeCandidate
<1>2. PICK c \in Generator!Outstanding :
         candidate' = c /\ UNCHANGED <<pool, smallest, largest>>
  BY DEF TakeCandidate, Generator!Emit
<1>3. c \subseteq pool /\ Cardinality(c) \in smallest .. largest
  BY <1>2, GeneratorCardinality DEF Generator!Outstanding
<1>4. pool \subseteq Literals /\ smallest \in Nat /\ largest \in Nat /\ smallest >= 1
  BY <1>1 DEF SystemInv, EliminatorTypeOK, SearchInv
<1>5. c # {}
  BY <1>3, <1>4, FS_EmptySet
<1>6. StoreInv' /\ (\A j : LiteralsOf(j)' = LiteralsOf(j)) /\ DOMAIN clauses' = DOMAIN clauses
  BY <1>1, StoreInvUnchanged DEF SystemInv, vars
<1>7. EliminatorTypeOK'
  BY <1>1, <1>2, <1>3, <1>4 DEF SystemInv, EliminatorTypeOK
<1>8. SearchInv'
  BY <1>1, <1>2, <1>6 DEF SystemInv, SearchInv
<1>9. CheckInv'
  BY <1>1, <1>2, <1>5 DEF SystemInv, EliminatorTypeOK, CheckInv
<1> QED BY <1>6, <1>7, <1>8, <1>9 DEF SystemInv

\* A step that leaves the store and the generator alone.
LEMMA StoreAndSearchUnchanged ==
  ASSUME SystemInv, UNCHANGED <<vars, subject, generatorState>>, phase # "Idle"
  PROVE  /\ StoreInv' /\ SearchInv'
         /\ clauses' = clauses /\ occurrences' = occurrences /\ candidate' = candidate
         /\ \A j : IsClauseSetBlocked(j)' <=> IsClauseSetBlocked(j)
<1>1. /\ clauses' = clauses /\ occurrences' = occurrences /\ candidate' = candidate
      /\ subject' = subject /\ pool' = pool /\ smallest' = smallest
  BY DEF vars, generatorState
<1> QED BY <1>1, StoreInvUnchanged DEF SystemInv, SearchInv, IsClauseSetBlocked, SetBlockedCondition, LiteralsOf

LEMMA GiveUpInv ==
  ASSUME SystemInv, GiveUp
  PROVE  SystemInv'
<1>1. /\ phase = "Generate" /\ phase' = "Idle" /\ verdict' = NoCandidate
      /\ UNCHANGED <<vars, subject, scan, pool, smallest, largest>>
      /\ candidate' = NoCandidate
  BY DEF GiveUp, Generator!Exhausted
<1> QED BY <1>1, StoreInvUnchanged DEF SystemInv, EliminatorTypeOK, SearchInv, CheckInv, scan

LEMMA VisitLiteralInv ==
  ASSUME SystemInv, VisitLiteral
  PROVE  SystemInv'
<1>1. /\ phase = "Check" /\ phase' = "Check" /\ clausesLeft = {}
      /\ UNCHANGED <<vars, subject, generatorState, alreadyChecked, verdict>>
  BY DEF VisitLiteral
<1>2. PICK l \in literalsLeft :
         /\ literalsLeft' = literalsLeft \ {l}
         /\ clausesLeft' = occurrences[-l]
         /\ environmentSeen' = (environmentSeen \/ occurrences[-l] # {})
  BY DEF VisitLiteral
<1>3. /\ StoreInv' /\ SearchInv' /\ occurrences' = occurrences /\ candidate' = candidate
      /\ clauses' = clauses /\ \A j : IsClauseSetBlocked(j)' <=> IsClauseSetBlocked(j)
  BY <1>1, StoreAndSearchUnchanged
<1>4. l \in Literals /\ occurrences[-l] \subseteq ClauseIds
  BY <1>2, LiteralFacts DEF SystemInv, EliminatorTypeOK, StoreInv, StoreTypeOK
<1>5. environmentSeen' \in BOOLEAN
  BY <1>2
<1>6. EliminatorTypeOK'
  BY <1>1, <1>2, <1>3, <1>4, <1>5 DEF SystemInv, EliminatorTypeOK, generatorState
<1>7. CheckInv'
  <2>1. \A k \in candidate \ literalsLeft' : occurrences[-k] \subseteq alreadyChecked \cup clausesLeft'
    BY <1>1, <1>2 DEF SystemInv, CheckInv
  <2> QED BY <1>1, <1>3, <2>1 DEF SystemInv, CheckInv
<1> QED BY <1>3, <1>6, <1>7 DEF SystemInv

LEMMA PassEnvironmentClauseInv ==
  ASSUME SystemInv, NEW j \in ClauseIds, PassEnvironmentClause(j)
  PROVE  SystemInv'
<1>1. /\ phase = "Check" /\ phase' = "Check" /\ j \in clausesLeft /\ ConditionHolds(j)
      /\ alreadyChecked' = alreadyChecked \cup {j} /\ clausesLeft' = clausesLeft \ {j}
      /\ UNCHANGED <<vars, subject, generatorState, literalsLeft, environmentSeen, verdict>>
  BY DEF PassEnvironmentClause, ClausesAfter
<1>2. /\ StoreInv' /\ SearchInv' /\ occurrences' = occurrences /\ candidate' = candidate
      /\ clauses' = clauses /\ \A k : IsClauseSetBlocked(k)' <=> IsClauseSetBlocked(k)
  BY <1>1, StoreAndSearchUnchanged
<1>3. EliminatorTypeOK'
  BY <1>1 DEF SystemInv, EliminatorTypeOK, generatorState
<1>4. CheckInv'
  <2>1. j \in DOMAIN clauses /\ IsClauseSetBlocked(j)
    BY <1>1 DEF ConditionHolds, SystemInv, CheckInv
  <2> QED BY <1>1, <1>2, <2>1 DEF SystemInv, CheckInv
<1> QED BY <1>2, <1>3, <1>4 DEF SystemInv

\* A check that ends, whatever comes of it, leaves nothing behind.
LEMMA LeaveCheckInv ==
  ASSUME SystemInv, phase = "Check", LeaveCheck, phase' \in {"Idle", "Generate"},
         verdict' \in {verdict, candidate}, UNCHANGED <<vars, subject, generatorState>>
  PROVE  SystemInv'
<1>1. StoreInv' /\ SearchInv'
  BY StoreAndSearchUnchanged
<1>2. EliminatorTypeOK'
  BY DEF SystemInv, EliminatorTypeOK, generatorState, LeaveCheck
<1>3. CheckInv'
  BY DEF CheckInv
<1> QED BY <1>1, <1>2, <1>3 DEF SystemInv

LEMMA SystemInvInductive == SystemInv /\ [SystemNext]_systemVars => SystemInv'
<1> SUFFICES ASSUME SystemInv, [SystemNext]_systemVars PROVE SystemInv'
  OBVIOUS
<1>1. CASE UseFormula
  BY <1>1, UseFormulaInv
<1>2. ASSUME NEW i \in ClauseIds, SearchMissingClause(i)
      PROVE  SystemInv'
  BY <1>2, SearchMissingClauseInv
<1>3. ASSUME NEW i \in ClauseIds, NEW r \in Restrictions, StartSearch(i, r)
      PROVE  SystemInv'
  BY <1>3, StartSearchInv
<1>4. CASE TakeCandidate
  BY <1>4, TakeCandidateInv
<1>5. CASE GiveUp
  BY <1>5, GiveUpInv
<1>6. CASE VisitLiteral
  BY <1>6, VisitLiteralInv
<1>7. ASSUME NEW j \in ClauseIds, PassEnvironmentClause(j)
      PROVE  SystemInv'
  BY <1>7, PassEnvironmentClauseInv
<1>8. CASE FailCheck
  BY <1>8, LeaveCheckInv DEF FailCheck
<1>9. CASE FinishCheck
  BY <1>9, LeaveCheckInv DEF FinishCheck
<1>10. CASE UNCHANGED systemVars
  BY <1>10, StoreInvUnchanged DEF systemVars, eliminatorVars, generatorState, scan, vars,
    SystemInv, EliminatorTypeOK, SearchInv, CheckInv, IsClauseSetBlocked,
    SetBlockedCondition, LiteralsOf
<1> QED BY <1>1, <1>2, <1>3, <1>4, <1>5, <1>6, <1>7, <1>8, <1>9, <1>10 DEF SystemNext, SearchStep
-----------------------------------------------------------------------------
(* What a found blocking set is worth.                                     *)

\* The clauses of the resolution environment are recorded under the negation of a
\* literal of the candidate, so a finished check has seen them all.
LEMMA FinishedCheckBlocks ==
  ASSUME SystemInv, phase = "Check", literalsLeft = {}, clausesLeft = {}
  PROVE  /\ BlockedBySet(subject, candidate)
         /\ \A l \in candidate : MissingClauses(-l) = {}
<1>1. candidate # {} /\ candidate \subseteq LiteralsOf(subject) /\ candidate \subseteq Literals
  BY LiteralsOfType DEF SystemInv, EliminatorTypeOK, SearchInv, CheckInv
<1>2. ASSUME NEW j \in ResolutionEnvironment(candidate)
      PROVE  Tautology((LiteralsOf(subject) \ candidate) \cup Negated(candidate) \cup LiteralsOf(j))
  <2>1. PICK l \in candidate : -l \in LiteralsOf(j)
    BY DEF ResolutionEnvironment, Negated
  <2>2. j \in DOMAIN clauses /\ -l \in Literals /\ -l \in KnownLiterals
    BY <1>1, LiteralFacts DEF ResolutionEnvironment
  <2>3. j \in occurrences[-l]
    BY <2>1, <2>2 DEF SystemInv, StoreInv, OccurrencesComplete, LiteralsOf
  <2>4. IsClauseSetBlocked(j)
    BY <2>1, <2>3 DEF SystemInv, CheckInv
  <2>5. PICK k \in LiteralsOf(j) :
           k \in candidate \/ (-k \notin candidate /\ -k \in LiteralsOf(subject))
    BY <2>4 DEF IsClauseSetBlocked, SetBlockedCondition
  <2>6. CASE k \in candidate
    BY <2>5, <2>6 DEF Tautology, Negated
  <2>7. CASE -k \notin candidate /\ -k \in LiteralsOf(subject)
    BY <2>5, <2>7 DEF Tautology
  <2> QED BY <2>5, <2>6, <2>7
<1>3. \A l \in candidate : MissingClauses(-l) = {}
  BY DEF SystemInv, CheckInv, MissingClauses
<1> QED BY <1>1, <1>2, <1>3 DEF BlockedBySet

\* A search ends with a set only when a check is finished.
LEMMA AnswerIsBlockingSet ==
  ASSUME SystemInv, [SystemNext]_systemVars, Answers, verdict' # NoCandidate
  PROVE  /\ subject \in DOMAIN clauses /\ BlockedBySet(subject, verdict')
         /\ \A l \in verdict' : MissingClauses(-l) = {}
<1>1. phase # "Idle" /\ phase' = "Idle"
  BY DEF Answers, Searching
<1>2. subject \in DOMAIN clauses
  BY <1>1 DEF SystemInv, SearchInv
<1>3. FinishCheck
  BY <1>1 DEF SystemNext, SearchStep, UseFormula, SearchMissingClause, StartSearch, TakeCandidate,
    GiveUp, VisitLiteral, PassEnvironmentClause, FailCheck, Searching, systemVars, eliminatorVars
<1>4. phase = "Check" /\ literalsLeft = {} /\ clausesLeft = {} /\ verdict' = candidate
  BY <1>1, <1>3 DEF FinishCheck
<1> QED BY <1>2, <1>4, FinishedCheckBlocks

THEOREM SystemInvariance == SystemSpec => []SystemInv
<1>1. SystemInit => SystemInv
  BY SystemInvInitially
<1>2. SystemInv /\ [SystemNext]_systemVars => SystemInv'
  BY SystemInvInductive
<1> QED BY <1>1, <1>2, PTL DEF SystemSpec

\* The eliminator's state keeps its shape, and a check leaves nothing to the next.
THEOREM EliminatorTypeCorrectness == SystemSpec => []EliminatorTypeOK
<1>1. SystemInv => EliminatorTypeOK
  BY DEF SystemInv
<1> QED BY <1>1, SystemInvariance, PTL

\* What determineBlockingSet finds is a blocking set, for every formula and in whatever
\* order the candidates, their literals and the clauses are visited, and no clause that
\* the lookup names for it is missing.
THEOREM FoundSetsBlock == SystemSpec => FoundSetBlocks
<1>1. SystemInv /\ [SystemNext]_systemVars =>
        [(Answers /\ verdict' # NoCandidate) =>
           /\ BlockedBySet(subject, verdict')
           /\ \A l \in verdict' : MissingClauses(-l) = {}]_systemVars
  BY AnswerIsBlockingSet
<1> QED BY <1>1, SystemInvariance, PTL DEF SystemSpec, FoundSetBlocks

\* A clause that is reported as set-blocked may be removed without making an
\* unsatisfiable formula satisfiable.
THEOREM FoundClausesAreRedundant == SystemSpec => FoundClauseRedundant
<1>1. SystemInv /\ [SystemNext]_systemVars =>
        [(Answers /\ verdict' # NoCandidate) => RemovalPreservesUnsatisfiability(subject)]_systemVars
  BY AnswerIsBlockingSet, SetBlockedClauseIsRedundant
<1> QED BY <1>1, SystemInvariance, PTL DEF SystemSpec, FoundClauseRedundant
-----------------------------------------------------------------------------
(* Nothing is overlooked.                                                  *)

FaithfulLookup == TautologyFree /\ LookupIsInverse

\* What a search has done so far: the candidates offered are not larger than those
\* still to come, and none of them blocks, unless it is the one that is checked.
OfferedInv ==
  phase # "Idle" =>
    /\ \A l \in pool : occurrences[-l] # {}
    /\ \A c \in emitted, d \in Eligible \ emitted : Cardinality(c) <= Cardinality(d)
    /\ FaithfulLookup =>
         \A c \in emitted : BlockedBySet(subject, c) => phase = "Check" /\ c = candidate

\* A check visits clauses of the environment only, and has seen one as soon as it has
\* visited a literal.
VisitedInv ==
  phase = "Check" =>
    /\ candidate \in emitted
    /\ \A j \in clausesLeft : \E l \in candidate : j \in occurrences[-l]
    /\ environmentSeen \/ literalsLeft = candidate

CompletenessInv == OfferedInv /\ VisitedInv

\* The predicates about the formula do not change with the store.
LEMMA FormulaUnchanged ==
  ASSUME UNCHANGED vars
  PROVE  /\ clauses' = clauses /\ occurrences' = occurrences
         /\ FaithfulLookup' <=> FaithfulLookup
         /\ \A i, c : BlockedBySet(i, c)' <=> BlockedBySet(i, c)
<1>1. clauses' = clauses /\ occurrences' = occurrences
  BY DEF vars
<1>2. \A j : LiteralsOf(j)' = LiteralsOf(j)
  BY <1>1 DEF LiteralsOf
<1>3. FaithfulLookup' <=> FaithfulLookup
  BY <1>1, <1>2 DEF FaithfulLookup, TautologyFree, LookupIsInverse, Tautology
<1>4. \A i, c : BlockedBySet(i, c)' <=> BlockedBySet(i, c)
  BY <1>1, <1>2 DEF BlockedBySet, ResolutionEnvironment, Tautology, Negated
<1> QED BY <1>1, <1>3, <1>4

\* Where the lookup is exact and no clause a tautology, a clause that fails the
\* condition is one the candidate does not block.
LEMMA FailedConditionRefutes ==
  ASSUME SystemInv, CompletenessInv, FaithfulLookup, phase = "Check",
         NEW j \in clausesLeft, ~ConditionHolds(j)
  PROVE  ~BlockedBySet(subject, candidate)
<1>1. /\ subject \in DOMAIN clauses /\ candidate \subseteq LiteralsOf(subject)
      /\ LiteralsOf(subject) \subseteq Literals /\ LiteralsOf(j) \subseteq Literals
  BY LiteralsOfType DEF SystemInv, EliminatorTypeOK, SearchInv
<1>2. PICK l \in candidate : j \in occurrences[-l]
  BY DEF CompletenessInv, VisitedInv
<1>3. \A k \in Literals : k \in Int /\ -k \in Literals /\ -(-k) = k
  BY LiteralFacts DEF Literals
<1>4. j \in DOMAIN clauses /\ -l \in LiteralsOf(j)
  BY <1>1, <1>2, <1>3 DEF FaithfulLookup, LookupIsInverse, LiteralsOf
<1>5. j \in ResolutionEnvironment(candidate)
  BY <1>2, <1>4 DEF ResolutionEnvironment, Negated
<1>6. ~IsClauseSetBlocked(j)
  BY <1>4 DEF ConditionHolds
<1>7. \A k \in LiteralsOf(j) : k \notin candidate /\ (-k \in candidate \/ -k \notin LiteralsOf(subject))
  BY <1>6 DEF IsClauseSetBlocked, SetBlockedCondition
<1>8. /\ \A k \in LiteralsOf(subject) : -k \notin LiteralsOf(subject)
      /\ \A k \in LiteralsOf(j) : -k \notin LiteralsOf(j)
  BY <1>1, <1>4 DEF FaithfulLookup, TautologyFree, Tautology
<1>9. ASSUME NEW k \in (LiteralsOf(subject) \ candidate) \cup Negated(candidate) \cup LiteralsOf(j),
             -k \in (LiteralsOf(subject) \ candidate) \cup Negated(candidate) \cup LiteralsOf(j)
      PROVE  FALSE
  <2>1. \A h \in Negated(candidate) : -h \in candidate /\ h \in Literals
    BY <1>1, <1>3 DEF Negated
  <2>2. k \in Literals /\ -k \in Literals /\ -(-k) = k
    BY <1>1, <1>3, <1>9, <2>1
  <2>3. CASE k \in LiteralsOf(subject) \ candidate
    BY <1>1, <1>7, <1>8, <1>9, <2>1, <2>2, <2>3
  <2>4. CASE k \in Negated(candidate)
    BY <1>1, <1>7, <1>8, <1>9, <2>1, <2>2, <2>4
  <2>5. CASE k \in LiteralsOf(j)
    BY <1>1, <1>7, <1>8, <1>9, <2>1, <2>2, <2>5
  <2> QED BY <1>9, <2>3, <2>4, <2>5
<1> QED BY <1>5, <1>9 DEF BlockedBySet, Tautology

\* A check that is over has seen the environment of its candidate.
LEMMA EnvironmentIsSeen ==
  ASSUME SystemInv, CompletenessInv, FinishCheck
  PROVE  environmentSeen /\ phase' = "Idle" /\ verdict' = candidate
<1>1. phase = "Check" /\ literalsLeft = {}
  BY DEF FinishCheck
<1>2. candidate # {}
  BY <1>1 DEF SystemInv, CheckInv
<1> QED BY <1>1, <1>2 DEF CompletenessInv, VisitedInv, FinishCheck

\* The candidates the generator may offer, in the terms of this module.
LEMMA OutstandingAreEligible == Generator!Outstanding = Eligible \ emitted
  BY GeneratorCardinality DEF Generator!Outstanding, Eligible

\* A step that leaves the formula and the generator's state alone.
LEMMA SearchGoesOnWithin ==
  ASSUME CompletenessInv, UNCHANGED <<vars, subject, generatorState>>,
         phase # "Idle",
         phase' = phase \/ phase' = "Idle" \/ (FaithfulLookup => ~BlockedBySet(subject, candidate))
  PROVE  OfferedInv'
<1>1. /\ clauses' = clauses /\ occurrences' = occurrences
      /\ FaithfulLookup' <=> FaithfulLookup
      /\ \A i, c : BlockedBySet(i, c)' <=> BlockedBySet(i, c)
  BY FormulaUnchanged
<1>2. /\ subject' = subject /\ pool' = pool /\ smallest' = smallest /\ largest' = largest
      /\ emitted' = emitted /\ candidate' = candidate
  BY DEF generatorState
<1>3. Eligible' = Eligible
  BY <1>2 DEF Eligible
<1>4. (FaithfulLookup /\ phase' # "Idle") =>
        \A c \in emitted : BlockedBySet(subject, c) => phase' = "Check" /\ c = candidate
  BY DEF CompletenessInv, OfferedInv
<1> QED BY <1>1, <1>2, <1>3, <1>4 DEF CompletenessInv, OfferedInv

LEMMA StartSearchComplete ==
  ASSUME SystemInv, NEW i \in ClauseIds, NEW r \in Restrictions, StartSearch(i, r)
  PROVE  CompletenessInv'
<1>1. /\ phase' = "Generate" /\ emitted' = {} /\ pool' = PoolFor(i, r) /\ occurrences' = occurrences
  BY DEF StartSearch, Generator!Restart, vars
<1>2. \A l \in pool' : occurrences[-l] # {}
  BY <1>1 DEF PoolFor, OverlappingLiterals
<1> QED BY <1>1, <1>2 DEF CompletenessInv, OfferedInv, VisitedInv

LEMMA TakeCandidateComplete ==
  ASSUME SystemInv, CompletenessInv, TakeCandidate
  PROVE  CompletenessInv'
<1>1. /\ phase = "Generate" /\ phase' = "Check" /\ literalsLeft' = candidate'
      /\ UNCHANGED <<vars, subject, clausesLeft>> /\ clausesLeft = {}
  BY DEF TakeCandidate, SystemInv, EliminatorTypeOK
<1>2. PICK c \in Eligible \ emitted :
         /\ \A d \in Eligible \ emitted : Cardinality(c) <= Cardinality(d)
         /\ candidate' = c /\ emitted' = emitted \cup {c}
         /\ UNCHANGED <<pool, smallest, largest>>
  BY OutstandingAreEligible, GeneratorCardinality DEF TakeCandidate, Generator!Emit
<1>3. /\ occurrences' = occurrences /\ (FaithfulLookup' <=> FaithfulLookup)
      /\ \A i, d : BlockedBySet(i, d)' <=> BlockedBySet(i, d)
  BY <1>1, FormulaUnchanged
<1>4. Eligible' = Eligible
  BY <1>2 DEF Eligible
<1>5. OfferedInv'
  BY <1>1, <1>2, <1>3, <1>4 DEF CompletenessInv, OfferedInv
<1>6. VisitedInv'
  BY <1>1, <1>2 DEF VisitedInv
<1> QED BY <1>5, <1>6 DEF CompletenessInv

LEMMA VisitLiteralComplete ==
  ASSUME SystemInv, CompletenessInv, VisitLiteral
  PROVE  CompletenessInv'
<1>1. /\ phase = "Check" /\ phase' = phase
      /\ UNCHANGED <<vars, subject, generatorState>>
      /\ occurrences' = occurrences /\ candidate' = candidate /\ emitted' = emitted
  BY DEF VisitLiteral, vars, generatorState
<1>2. PICK l \in literalsLeft :
         /\ clausesLeft' = occurrences[-l]
         /\ environmentSeen' = (environmentSeen \/ occurrences[-l] # {})
  BY DEF VisitLiteral
<1>3. l \in candidate /\ l \in pool
  BY <1>1 DEF SystemInv, EliminatorTypeOK
<1>4. environmentSeen'
  BY <1>1, <1>2, <1>3 DEF CompletenessInv, OfferedInv
<1>5. VisitedInv'
  BY <1>1, <1>2, <1>3, <1>4 DEF CompletenessInv, VisitedInv
<1> QED BY <1>1, <1>5, SearchGoesOnWithin DEF CompletenessInv

LEMMA PassEnvironmentClauseComplete ==
  ASSUME SystemInv, CompletenessInv, NEW j \in ClauseIds, PassEnvironmentClause(j)
  PROVE  CompletenessInv'
<1>1. /\ phase = "Check" /\ phase' = phase
      /\ UNCHANGED <<vars, subject, generatorState>>
      /\ UNCHANGED <<literalsLeft, environmentSeen, occurrences, candidate, emitted>>
      /\ clausesLeft' \subseteq clausesLeft
  BY DEF PassEnvironmentClause, ClausesAfter, vars, generatorState
<1>2. VisitedInv'
  BY <1>1 DEF CompletenessInv, VisitedInv
<1> QED BY <1>1, <1>2, SearchGoesOnWithin DEF CompletenessInv

LEMMA FailCheckComplete ==
  ASSUME SystemInv, CompletenessInv, FailCheck
  PROVE  CompletenessInv'
<1>1. /\ phase = "Check" /\ phase' = "Generate" /\ UNCHANGED <<vars, subject, generatorState>>
  BY DEF FailCheck
<1>2. FaithfulLookup => ~BlockedBySet(subject, candidate)
  BY <1>1, FailedConditionRefutes DEF FailCheck
<1>3. OfferedInv'
  BY <1>1, <1>2, SearchGoesOnWithin
<1> QED BY <1>1, <1>3 DEF CompletenessInv, VisitedInv

LEMMA CompletenessInvInductive ==
  SystemInv /\ CompletenessInv /\ [SystemNext]_systemVars => CompletenessInv'
<1> SUFFICES ASSUME SystemInv, CompletenessInv, [SystemNext]_systemVars PROVE CompletenessInv'
  OBVIOUS
<1>1. CASE phase' = "Idle"
  BY <1>1 DEF CompletenessInv, OfferedInv, VisitedInv
<1>2. ASSUME NEW i \in ClauseIds, NEW r \in Restrictions, StartSearch(i, r)
      PROVE  CompletenessInv'
  BY <1>2, StartSearchComplete
<1>3. CASE TakeCandidate
  BY <1>3, TakeCandidateComplete
<1>4. CASE VisitLiteral
  BY <1>4, VisitLiteralComplete
<1>5. ASSUME NEW j \in ClauseIds, PassEnvironmentClause(j)
      PROVE  CompletenessInv'
  BY <1>5, PassEnvironmentClauseComplete
<1>6. CASE FailCheck
  BY <1>6, FailCheckComplete
<1>7. CASE FinishCheck
  BY <1>1, <1>7, EnvironmentIsSeen
<1>8. CASE UNCHANGED systemVars /\ phase' # "Idle"
  <2>1. UNCHANGED <<vars, subject, generatorState>> /\ phase' = phase /\ phase # "Idle"
    BY <1>8 DEF systemVars, eliminatorVars
  <2>2. VisitedInv'
    BY <1>8 DEF CompletenessInv, VisitedInv, systemVars, eliminatorVars, generatorState, scan, vars
  <2> QED BY <2>1, <2>2, SearchGoesOnWithin DEF CompletenessInv
<1>9. ASSUME phase' # "Idle"
      PROVE  ~UseFormula /\ ~GiveUp /\ \A i \in ClauseIds : ~SearchMissingClause(i)
  BY <1>9 DEF UseFormula, GiveUp, SearchMissingClause, Searching, eliminatorVars
<1> QED BY <1>1, <1>2, <1>3, <1>4, <1>5, <1>6, <1>7, <1>8, <1>9 DEF SystemNext, SearchStep

LEMMA CompletenessInvariance == SystemSpec => []CompletenessInv
<1>1. SystemInit => CompletenessInv
  BY DEF SystemInit, EliminatorInit, CompletenessInv, OfferedInv, VisitedInv
<1>2. SystemInv /\ CompletenessInv /\ [SystemNext]_systemVars => CompletenessInv'
  BY CompletenessInvInductive
<1> QED BY <1>1, <1>2, SystemInvariance, PTL DEF SystemSpec

\* An answer of determineBlockingSet, given what the search knows.
LEMMA AnswerIsComplete ==
  ASSUME SystemInv, CompletenessInv, [SystemNext]_systemVars, Answers, FaithfulLookup,
         NEW c \in Eligible, BlockedBySet(subject, c)
  PROVE  verdict' # NoCandidate /\ Cardinality(verdict') <= Cardinality(c)
<1>1. phase # "Idle" /\ phase' = "Idle"
  BY DEF Answers, Searching
<1>2. GiveUp \/ FinishCheck
  BY <1>1 DEF SystemNext, SearchStep, UseFormula, SearchMissingClause, StartSearch, TakeCandidate,
    VisitLiteral, PassEnvironmentClause, FailCheck, Searching, systemVars, eliminatorVars
<1>3. c \in emitted => phase = "Check" /\ c = candidate
  BY <1>1 DEF CompletenessInv, OfferedInv
<1>4. CASE GiveUp
  <2>1. phase = "Generate" /\ Eligible \ emitted = {}
    BY <1>4, OutstandingAreEligible DEF GiveUp, Generator!Exhausted
  <2> QED BY <1>3, <2>1
<1>5. CASE FinishCheck
  <2>1. verdict' = candidate /\ phase = "Check"
    BY <1>5, EnvironmentIsSeen DEF FinishCheck
  <2>2. candidate \in SUBSET Literals
    BY <2>1 DEF SystemInv, EliminatorTypeOK
  <2>3. candidate \in emitted
    BY <2>1 DEF CompletenessInv, VisitedInv
  <2>4. Cardinality(candidate) \in Nat
    BY <2>2, LiteralSetsFinite
  <2>5. Cardinality(candidate) <= Cardinality(c)
    BY <1>1, <1>3, <2>3, <2>4 DEF CompletenessInv, OfferedInv
  <2> QED BY <2>1, <2>2, <2>5, NoCandidateAssumption
<1> QED BY <1>2, <1>4, <1>5

\* determineBlockingSet overlooks no blocking set that the generator may offer, and finds
\* a smallest one, when the lookup is exact and no clause of the formula a tautology.
THEOREM SearchIsComplete == SystemSpec => SearchComplete
<1>1. SystemInv /\ CompletenessInv /\ [SystemNext]_systemVars =>
        [(Answers /\ TautologyFree /\ LookupIsInverse) =>
           \A L \in Eligible :
             BlockedBySet(subject, L) =>
               verdict' # NoCandidate /\ Cardinality(verdict') <= Cardinality(L)]_systemVars
  BY AnswerIsComplete DEF FaithfulLookup
<1> QED BY <1>1, SystemInvariance, CompletenessInvariance, PTL DEF SystemSpec, SearchComplete
=============================================================================
