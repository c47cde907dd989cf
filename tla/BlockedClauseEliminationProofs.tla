------------------- MODULE BlockedClauseEliminationProofs -------------------
(***************************************************************************)
(* Proofs about BlockedClauseElimination, for every number of variables    *)
(* and every set of clauses clients offer: a literal that is found blocks  *)
(* its clause, which may be removed, and the search finds one if there is  *)
(* one, namely the one its heuristic prefers.                              *)
(***************************************************************************)
EXTENDS BlockedClauseElimination, ProblemDefinitionProofs, FiniteSetTheorems, TLAPS

\* What a search knows: the candidates stand in the heuristic's order and those that
\* have been tried do not block the subject.
SearchInv ==
  searching =>
    /\ \A p, q \in DOMAIN candidateLiterals :
         p < q => InOrder(heuristic, candidateLiterals[p], candidateLiterals[q])
    /\ \A p \in 1 .. selected : ~ConditionHolds(candidateLiterals[p])

\* The inductive invariant.
SystemInv == StoreInv /\ EliminatorTypeOK /\ SearchInv
-----------------------------------------------------------------------------
(* The operations.                                                         *)

LEMMA SystemInvInitially == SystemInit => SystemInv
<1> SUFFICES ASSUME SystemInit PROVE SystemInv
  OBVIOUS
<1>1. StoreInv
  BY InvInitially DEF SystemInit, Inv
<1>2. candidateLiterals \in Seq(Literals) /\ Len(candidateLiterals) = 0 /\ selected = 0 /\ ~searching
  BY EmptySeq DEF SystemInit, EliminatorInit
<1>3. selected \in 0 .. Len(candidateLiterals)
  BY <1>2
<1>4. EliminatorTypeOK
  BY <1>2, <1>3, BlockedEliminationAssumption DEF SystemInit, EliminatorInit, EliminatorTypeOK
<1> QED BY <1>1, <1>2, <1>4 DEF SystemInv, SearchInv

\* What clients do between two searches keeps the lookup complete.
LEMMA UseFormulaInv ==
  ASSUME SystemInv, UseFormula
  PROVE  SystemInv'
<1>1. StoreInv'
  <2>1. ASSUME NEW i \in ClauseIds, NEW bag \in OfferedClauses, AddClause(i, bag)
        PROVE  StoreInv'
    BY <2>1, StoreClauseInv, ProblemDefinitionAssumption DEF AddClause, SystemInv
  <2>2. ASSUME NEW i \in ClauseIds, RemoveClause(i)
        PROVE  StoreInv'
    BY <2>2, DropClausesInv DEF RemoveClause, SystemInv
  <2>3. ASSUME NEW l \in Literals, RemoveLiteralFromClauses(l)
        PROVE  StoreInv'
    BY <2>3, EraseLiteralInv DEF RemoveLiteralFromClauses, SystemInv
  <2> QED BY <2>1, <2>2, <2>3 DEF UseFormula, ChangeStore
<1>2. ~searching /\ UNCHANGED eliminatorVars
  BY DEF UseFormula
<1> QED BY <1>1, <1>2 DEF SystemInv, EliminatorTypeOK, SearchInv, eliminatorVars

\* A step that leaves the formula alone changes none of its readings.
LEMMA FormulaUnchanged ==
  ASSUME StoreInv, UNCHANGED vars
  PROVE  /\ StoreInv'
         /\ clauses' = clauses /\ occurrences' = occurrences
         /\ \A j : LiteralsOf(j)' = LiteralsOf(j)
         /\ \A h, k, l : InOrder(h, k, l)' <=> InOrder(h, k, l)
<1>1. clauses' = clauses /\ occurrences' = occurrences
  BY DEF vars
<1> QED BY <1>1, StoreUnchangedInv DEF store, LiteralsOf, InOrder, Overlaps

\* An injective sequence as long as a finite set has elements shows all of them.
LEMMA SequenceOfAll ==
  ASSUME NEW S \in SUBSET Literals, NEW s \in SetToSeqs(S)
  PROVE  s \in Seq(Literals) /\ ToSet(s) = S
<1> DEFINE D == 1 .. Cardinality(S)
<1>1. IsFiniteSet(-NumVariables .. NumVariables) /\ S \subseteq -NumVariables .. NumVariables
  BY FS_Interval, ProblemDefinitionAssumption DEF Literals
<1>2. IsFiniteSet(S)
  BY <1>1, FS_Subset
<1>3. Cardinality(S) \in Nat
  BY <1>2, FS_CardinalityType
<1>4. Cardinality(D) = Cardinality(S)
  BY <1>3, FS_Interval
<1>5. s \in [D -> S] /\ \A i, j \in D : i # j => s[i] # s[j]
  BY DEF SetToSeqs
<1>6. s \in Injection(D, S)
  BY <1>5 DEF Injection, IsInjective
<1>7. s \in Surjection(D, S)
  BY <1>2, <1>4, <1>6, FS_Injection
<1>8. \A l \in S : \E i \in D : s[i] = l
  BY <1>7 DEF Surjection
<1>9. s \in Seq(Literals)
  BY <1>3, <1>5, SeqDef
<1>10. ToSet(s) = S
  BY <1>5, <1>8 DEF ToSet
<1> QED BY <1>9, <1>10

LEMMA StartSearchInv ==
  ASSUME SystemInv, NEW i \in ClauseIds, StartSearch(i)
  PROVE  SystemInv'
<1>1. /\ UNCHANGED <<vars, heuristic>> /\ searching' = TRUE /\ i \in DOMAIN clauses
      /\ subject' = i /\ candidateLiterals' \in CandidateSequences(i)
      /\ selected' = 0 /\ verdict' = NotAsked
  BY DEF StartSearch, FirstSelected
<1>2. /\ StoreInv' /\ clauses' = clauses /\ LiteralsOf(i)' = LiteralsOf(i)
      /\ \A h, k, l : InOrder(h, k, l)' <=> InOrder(h, k, l)
  BY <1>1, FormulaUnchanged DEF SystemInv
<1>3. LiteralsOf(i)' = LiteralsOf(subject')
  BY <1>1, <1>2 DEF LiteralsOf
<1>4. /\ candidateLiterals' \in SetToSeqs(LiteralsOf(i))
      /\ \A p, q \in DOMAIN candidateLiterals' :
           p < q => InOrder(heuristic, candidateLiterals'[p], candidateLiterals'[q])
  BY <1>1 DEF CandidateSequences
<1>5. candidateLiterals' \in Seq(Literals) /\ ToSet(candidateLiterals') = LiteralsOf(i)
  BY <1>4, SequenceOfAll, LiteralsOfType
<1>6. 0 \in 0 .. Len(candidateLiterals')
  BY <1>5, LenProperties
<1>7. EliminatorTypeOK'
  <2>1. ToSet(candidateLiterals)' = LiteralsOf(subject)'
    BY <1>1, <1>2, <1>5 DEF LiteralsOf, ToSet
  <2> QED BY <1>1, <1>2, <1>5, <1>6, <2>1 DEF SystemInv, EliminatorTypeOK
<1>8. SearchInv'
  BY <1>1, <1>2, <1>4 DEF SearchInv
<1> QED BY <1>2, <1>7, <1>8 DEF SystemInv

LEMMA SearchMissingClauseInv ==
  ASSUME SystemInv, NEW i \in ClauseIds, SearchMissingClause(i)
  PROVE  SystemInv'
<1>1. /\ UNCHANGED <<vars, heuristic, searching, subject, candidateLiterals, selected>>
      /\ verdict' = NoLiteral /\ ~searching
  BY DEF SearchMissingClause
<1> QED BY <1>1, FormulaUnchanged DEF SystemInv, EliminatorTypeOK, SearchInv

\* A tried literal that does not block the subject adds to what the search knows.
LEMMA TryCandidateInv ==
  ASSUME SystemInv, TryCandidate
  PROVE  SystemInv'
<1> DEFINE l == candidateLiterals[selected + 1]
<1>1. /\ searching /\ selected < Len(candidateLiterals) /\ selected' = selected + 1
      /\ UNCHANGED <<vars, heuristic, subject, candidateLiterals>>
      /\ IF ConditionHolds(l) THEN searching' = FALSE /\ verdict' = l
         ELSE UNCHANGED <<searching, verdict>>
  BY DEF TryCandidate
<1>2. /\ StoreInv' /\ clauses' = clauses /\ occurrences' = occurrences
      /\ \A j : LiteralsOf(j)' = LiteralsOf(j)
      /\ \A h, k, m : InOrder(h, k, m)' <=> InOrder(h, k, m)
  BY <1>1, FormulaUnchanged DEF SystemInv
<1>3. /\ candidateLiterals \in Seq(Literals) /\ Len(candidateLiterals) \in Nat
      /\ selected + 1 \in 1 .. Len(candidateLiterals) /\ l \in Literals
  BY <1>1, LenProperties, ElementOfSeq DEF SystemInv, EliminatorTypeOK
<1>4. EliminatorTypeOK'
  <2>1. searching' \in BOOLEAN /\ verdict' \in Literals \cup {NoLiteral, NotAsked}
    BY <1>1, <1>3 DEF SystemInv, EliminatorTypeOK
  <2>2. ToSet(candidateLiterals)' = ToSet(candidateLiterals) /\ LiteralsOf(subject)' = LiteralsOf(subject)
    BY <1>1, <1>2 DEF ToSet, LiteralsOf
  <2> QED BY <1>1, <1>2, <1>3, <2>1, <2>2 DEF SystemInv, EliminatorTypeOK
<1>5. SearchInv'
  <2>1. CASE ConditionHolds(l)
    BY <1>1, <2>1 DEF SearchInv
  <2>2. CASE ~ConditionHolds(l)
    <3>1. \A p \in 1 .. selected' : ~ConditionHolds(candidateLiterals[p])
      BY <1>1, <1>3, <2>2 DEF SystemInv, EliminatorTypeOK, SearchInv
    <3>2. \A m : ConditionHolds(m)' <=> ConditionHolds(m)
      BY <1>1, <1>2 DEF ConditionHolds, ResolventIsTautology, LiteralBlockedCondition, LiteralsOf
    <3> QED BY <1>1, <1>2, <3>1, <3>2 DEF SystemInv, SearchInv
  <2> QED BY <2>1, <2>2
<1> QED BY <1>2, <1>4, <1>5 DEF SystemInv

LEMMA GiveUpInv ==
  ASSUME SystemInv, GiveUp
  PROVE  SystemInv'
<1>1. /\ UNCHANGED <<vars, heuristic, subject, candidateLiterals, selected>>
      /\ searching' = FALSE /\ verdict' = NoLiteral
  BY DEF GiveUp
<1> QED BY <1>1, FormulaUnchanged DEF SystemInv, EliminatorTypeOK, SearchInv

LEMMA SystemInvInductive == SystemInv /\ [SystemNext]_systemVars => SystemInv'
<1> SUFFICES ASSUME SystemInv, [SystemNext]_systemVars PROVE SystemInv'
  OBVIOUS
<1>1. CASE UseFormula
  BY <1>1, UseFormulaInv
<1>2. ASSUME NEW i \in ClauseIds, SearchMissingClause(i)
      PROVE  SystemInv'
  BY <1>2, SearchMissingClauseInv
<1>3. ASSUME NEW i \in ClauseIds, StartSearch(i)
      PROVE  SystemInv'
  BY <1>3, StartSearchInv
<1>4. CASE TryCandidate
  BY <1>4, TryCandidateInv
<1>5. CASE GiveUp
  BY <1>5, GiveUpInv
<1>6. CASE UNCHANGED systemVars
  <2>1. /\ UNCHANGED vars /\ UNCHANGED eliminatorVars
    BY <1>6 DEF systemVars
  <2>2. /\ StoreInv' /\ clauses' = clauses /\ occurrences' = occurrences
        /\ \A h, k, m : InOrder(h, k, m)' <=> InOrder(h, k, m)
    BY <2>1, FormulaUnchanged DEF SystemInv
  <2>3. EliminatorTypeOK'
    BY <2>1, <2>2 DEF SystemInv, EliminatorTypeOK, eliminatorVars, LiteralsOf, ToSet
  <2>4. \A m : ConditionHolds(m)' <=> ConditionHolds(m)
    BY <2>1, <2>2 DEF eliminatorVars, ConditionHolds, ResolventIsTautology,
      LiteralBlockedCondition, LiteralsOf
  <2>5. SearchInv'
    BY <2>1, <2>2, <2>4 DEF SystemInv, SearchInv, eliminatorVars
  <2> QED BY <2>2, <2>3, <2>5 DEF SystemInv
<1> QED BY <1>1, <1>2, <1>3, <1>4, <1>5, <1>6 DEF SystemNext, SearchStep
-----------------------------------------------------------------------------
(* The condition and what it decides.                                      *)

\* The condition implies that the literal blocks the subject: no clause of the
\* environment is missing from the lookup.
LEMMA ConditionBlocks ==
  ASSUME StoreInv, NEW l \in LiteralsOf(subject), ConditionHolds(l)
  PROVE  BlockedByLiteral(subject, l)
<1>1. ASSUME NEW j \in ResolutionEnvironment({l})
      PROVE  Tautology((LiteralsOf(subject) \ {l}) \cup (LiteralsOf(j) \ {-l}))
  <2>1. j \in DOMAIN clauses /\ -l \in LiteralsOf(j) /\ -l \in Literals /\ -l \in KnownLiterals
    BY LiteralFacts, LiteralsOfType DEF ResolutionEnvironment, Negated
  <2>2. j \in occurrences[-l]
    BY <2>1 DEF StoreInv, OccurrencesComplete, LiteralsOf
  <2>3. PICK k \in LiteralsOf(j) : k # -l /\ -k \in LiteralsOf(subject)
    BY <2>2 DEF ConditionHolds, ResolventIsTautology, LiteralBlockedCondition
  <2>4. -k # l
    BY <2>3, LiteralsOfType, LiteralFacts
  <2> QED BY <2>3, <2>4 DEF Tautology
<1> QED BY <1>1 DEF BlockedByLiteral

\* In a formula without tautologies whose lookup is exact, the converse holds.
LEMMA BlockingMeetsCondition ==
  ASSUME TautologyFree, LookupIsInverse, subject \in DOMAIN clauses, NEW l \in BlockingLiterals
  PROVE  l \in LiteralsOf(subject) /\ ConditionHolds(l)
<1>1. l \in LiteralsOf(subject) /\ l \in Literals /\ -l \in Literals /\ occurrences[-l] # {}
  BY LiteralFacts, LiteralsOfType DEF BlockingLiterals, BlockedByLiteral
<1>2. ASSUME NEW j \in occurrences[-l]
      PROVE  j \in DOMAIN clauses /\ ResolventIsTautology(l, j)
  <2>1. j \in DOMAIN clauses /\ -l \in LiteralsOf(j)
    BY <1>1 DEF LookupIsInverse, LiteralsOf
  <2>2. PICK k \in (LiteralsOf(subject) \ {l}) \cup (LiteralsOf(j) \ {-l}) :
           -k \in (LiteralsOf(subject) \ {l}) \cup (LiteralsOf(j) \ {-l})
    BY <2>1 DEF BlockingLiterals, BlockedByLiteral, ResolutionEnvironment, Negated, Tautology
  <2>3. k \in Literals /\ -(-k) = k
    BY <2>2, LiteralsOfType, LiteralFacts DEF Literals
  <2>4. ~(k \in LiteralsOf(subject) /\ -k \in LiteralsOf(subject))
    BY DEF TautologyFree, Tautology
  <2>5. ~(k \in LiteralsOf(j) /\ -k \in LiteralsOf(j))
    BY <2>1 DEF TautologyFree, Tautology
  <2> QED BY <2>1, <2>2, <2>3, <2>4, <2>5 DEF ResolventIsTautology, LiteralBlockedCondition
<1> QED BY <1>1, <1>2 DEF ConditionHolds
-----------------------------------------------------------------------------
(* The search.                                                             *)

THEOREM SystemInvariance == SystemSpec => []SystemInv
<1>1. SystemInit => SystemInv
  BY SystemInvInitially
<1>2. SystemInv /\ [SystemNext]_systemVars => SystemInv'
  BY SystemInvInductive
<1> QED BY <1>1, <1>2, PTL DEF SystemSpec

\* The eliminator's state keeps its shape, and a search walks the subject's literals.
THEOREM EliminatorTypeCorrectness == SystemSpec => []EliminatorTypeOK
<1>1. SystemInv => EliminatorTypeOK
  BY DEF SystemInv
<1> QED BY <1>1, SystemInvariance, PTL

\* How a search may end.
LEMMA AnswerSteps ==
  ASSUME [SystemNext]_systemVars, Answers
  PROVE  GiveUp \/ TryCandidate
  BY DEF Answers, SystemNext, SearchStep, UseFormula, SearchMissingClause, StartSearch,
    systemVars, eliminatorVars

\* The candidate a search ends with.
LEMMA AnswerIsCandidate ==
  ASSUME SystemInv, [SystemNext]_systemVars, Answers, verdict' # NoLiteral
  PROVE  /\ subject \in DOMAIN clauses
         /\ selected + 1 \in DOMAIN candidateLiterals
         /\ verdict' = candidateLiterals[selected + 1]
         /\ verdict' \in LiteralsOf(subject) /\ ConditionHolds(verdict')
<1>1. TryCandidate /\ searching /\ ~searching'
  BY AnswerSteps DEF GiveUp, Answers
<1>2. /\ selected < Len(candidateLiterals) /\ verdict' = candidateLiterals[selected + 1]
      /\ ConditionHolds(verdict')
  BY <1>1 DEF TryCandidate
<1>3. /\ subject \in DOMAIN clauses /\ candidateLiterals \in Seq(Literals) /\ selected \in Nat
      /\ ToSet(candidateLiterals) = LiteralsOf(subject)
  BY <1>1 DEF SystemInv, EliminatorTypeOK
<1>4. selected + 1 \in DOMAIN candidateLiterals
  BY <1>2, <1>3, LenProperties
<1> QED BY <1>2, <1>3, <1>4 DEF ToSet

\* What determineBlockingLiteralOfClause finds is a blocking literal of the clause, for
\* every formula and every heuristic, and no clause that the lookup names for it is
\* missing.
THEOREM FoundLiteralsBlock == SystemSpec => FoundLiteralBlocks
<1>1. SystemInv /\ [SystemNext]_systemVars =>
        [(Answers /\ verdict' # NoLiteral) =>
           /\ BlockedByLiteral(subject, verdict')
           /\ MissingClauses(-verdict') = {}]_systemVars
  BY AnswerIsCandidate, ConditionBlocks DEF SystemInv, ConditionHolds, MissingClauses
<1> QED BY <1>1, SystemInvariance, PTL DEF SystemSpec, FoundLiteralBlocks

\* A clause that is reported as blocked may be removed without making an unsatisfiable
\* formula satisfiable.
THEOREM FoundClausesAreRedundant == SystemSpec => FoundClauseRedundant
<1>1. SystemInv /\ [SystemNext]_systemVars =>
        [(Answers /\ verdict' # NoLiteral) => RemovalPreservesUnsatisfiability(subject)]_systemVars
  BY AnswerIsCandidate, ConditionBlocks, BlockedClauseIsRedundant DEF SystemInv
<1> QED BY <1>1, SystemInvariance, PTL DEF SystemSpec, FoundClauseRedundant

\* Overlap counts are numbers.
LEMMA OverlapsType ==
  ASSUME StoreInv, NEW l \in Literals
  PROVE  Overlaps(l) \in Nat
<1>1. occurrences[-l] \in SUBSET ClauseIds
  BY LiteralFacts DEF StoreInv, StoreTypeOK
<1>2. IsFiniteSet(occurrences[-l])
  BY <1>1, FS_Subset, BlockedEliminationAssumption
<1> QED BY <1>2, FS_CardinalityType DEF Overlaps

\* A literal that blocks the subject is found, or one the heuristic prefers to it.
LEMMA AnswerIsPreferred ==
  ASSUME SystemInv, [SystemNext]_systemVars, Answers, TautologyFree, LookupIsInverse,
         NEW l \in BlockingLiterals
  PROVE  /\ verdict' # NoLiteral
         /\ heuristic = "Sequential" => verdict' <= l
         /\ heuristic = "MinClauseOverlap" => Overlaps(verdict') <= Overlaps(l)
         /\ heuristic = "MaxClauseOverlap" => Overlaps(verdict') >= Overlaps(l)
<1>1. /\ searching /\ subject \in DOMAIN clauses /\ candidateLiterals \in Seq(Literals)
      /\ selected \in Nat /\ ToSet(candidateLiterals) = LiteralsOf(subject)
      /\ Len(candidateLiterals) \in Nat /\ DOMAIN candidateLiterals = 1 .. Len(candidateLiterals)
  BY LenProperties DEF Answers, SystemInv, EliminatorTypeOK
<1>2. l \in LiteralsOf(subject) /\ ConditionHolds(l) /\ l \in Literals
  BY <1>1, BlockingMeetsCondition DEF BlockingLiterals
<1>3. PICK p \in DOMAIN candidateLiterals : candidateLiterals[p] = l
  BY <1>1, <1>2 DEF ToSet
<1>4. p > selected
  BY <1>1, <1>2, <1>3 DEF SystemInv, SearchInv
<1>5. TryCandidate /\ ~searching'
  <2>1. p <= Len(candidateLiterals) /\ p \in Nat
    BY <1>1, <1>3
  <2>2. ~(selected >= Len(candidateLiterals))
    BY <1>1, <1>4, <2>1
  <2> QED BY <2>2, AnswerSteps DEF GiveUp, Answers
<1>6. verdict' = candidateLiterals[selected + 1] /\ selected + 1 \in DOMAIN candidateLiterals
  <2>1. selected' = selected + 1 /\ selected < Len(candidateLiterals)
    BY <1>5 DEF TryCandidate
  <2>2. selected + 1 \in DOMAIN candidateLiterals
    BY <1>1, <2>1
  <2> QED BY <1>1, <1>5, <2>1, <2>2 DEF TryCandidate
<1>7. verdict' \in Literals /\ verdict' \in Int /\ l \in Int /\ verdict' # NoLiteral
  BY <1>1, <1>2, <1>6, ElementOfSeq, BlockedEliminationAssumption DEF Literals
<1>8. CASE p = selected + 1
  BY <1>2, <1>3, <1>6, <1>7, <1>8, OverlapsType DEF SystemInv
<1>9. CASE p > selected + 1
  <2>1. InOrder(heuristic, verdict', l)
    BY <1>1, <1>3, <1>6, <1>9 DEF SystemInv, SearchInv
  <2>2. ASSUME heuristic = "Sequential" PROVE verdict' <= l
    BY <1>7, <2>1, <2>2 DEF InOrder
  <2>3. ASSUME heuristic = "MinClauseOverlap" PROVE Overlaps(verdict') <= Overlaps(l)
    BY <2>1, <2>3 DEF InOrder
  <2>4. ASSUME heuristic = "MaxClauseOverlap" PROVE Overlaps(verdict') >= Overlaps(l)
    BY <2>1, <2>4 DEF InOrder
  <2> QED BY <1>7, <2>2, <2>3, <2>4
<1> QED BY <1>1, <1>4, <1>8, <1>9

\* The search fails only if no literal that clashes with a clause blocks the subject,
\* and it finds one the heuristic prefers.
THEOREM SearchesAreComplete == SystemSpec => SearchComplete
<1>1. SystemInv /\ [SystemNext]_systemVars =>
        [(Answers /\ TautologyFree /\ LookupIsInverse) =>
           \A l \in BlockingLiterals :
             /\ verdict' # NoLiteral
             /\ heuristic = "Sequential" => verdict' <= l
             /\ heuristic = "MinClauseOverlap" => Overlaps(verdict') <= Overlaps(l)
             /\ heuristic = "MaxClauseOverlap" => Overlaps(verdict') >= Overlaps(l)]_systemVars
  BY AnswerIsPreferred
<1> QED BY <1>1, SystemInvariance, PTL DEF SystemSpec, SearchComplete
=============================================================================
