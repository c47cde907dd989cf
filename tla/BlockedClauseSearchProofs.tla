---------------------- MODULE BlockedClauseSearchProofs ----------------------
(***************************************************************************)
(* Proofs about BlockedClauseSearch, for every command and every text      *)
(* whose lines repeat no literal (BlockedClauseSearchAssumption): if the   *)
(* lookup in use knows all clauses, each clause the programs find is       *)
(* blocked, all of them may be removed together, and without limits none   *)
(* is missed; the candidates are those the heuristic prefers.              *)
(***************************************************************************)
EXTENDS BlockedClauseSearch, DimacsParserProofs, FiniteSetTheorems, TLAPS

\* Where the program stands.
StageInv ==
  /\ stage \in {"Parse", "Collect", "Search", "Done", "Failed"}
  /\ command \in Commands \cup {NoCommand}
  /\ stage \in {"Collect", "Search", "Done"} => command \in Commands
  /\ stage \in {"Parse", "Collect"} => found = {} /\ indexed = {}
  /\ considered \in Nat

\* What is found, if the lookup knows all clauses.
FoundInv ==
  LookupComplete =>
    /\ found \subseteq DOMAIN clauses
    /\ FoundAreBlocked
    /\ FoundJointlyRedundant

\* The inductive invariant.
ProgramInv == ParserInv /\ StageInv /\ FoundInv
-----------------------------------------------------------------------------
(* The check of one clause.                                                *)

\* Whatever the lookup, it finds the clauses of the resolution environment.
LEMMA EnvironmentComplete ==
  ASSUME StoreInv, LookupComplete, NEW lits \in SUBSET Literals
  PROVE  ResolutionEnvironment(lits) \subseteq EnvironmentOf(lits)
<1> SUFFICES ASSUME NEW j \in ResolutionEnvironment(lits)
             PROVE  j \in EnvironmentOf(lits)
  OBVIOUS
<1>1. j \in DOMAIN clauses /\ LiteralsOf(j) \cap Negated(lits) # {}
  BY DEF ResolutionEnvironment
<1>2. CASE command.lookup = "avl"
  BY <1>1, <1>2 DEF EnvironmentOf, LookupComplete
<1>3. CASE command.lookup # "avl"
  <2>1. PICK l \in lits : -l \in LiteralsOf(j)
    BY <1>1 DEF Negated
  <2>2. j \in occurrences[-l]
    BY <1>1, <2>1, LiteralFacts DEF LiteralsOf, StoreInv, OccurrencesComplete
  <2> QED BY <1>3, <2>2 DEF EnvironmentOf
<1> QED BY <1>2, <1>3

\* The condition on a clause of the environment makes its resolvent a tautology.
LEMMA ConditionMakesTautology ==
  ASSUME NEW i, NEW lits \in SUBSET LiteralsOf(i), NEW j, SetBlockedCondition(i, lits, j)
  PROVE  Tautology((LiteralsOf(i) \ lits) \cup Negated(lits) \cup LiteralsOf(j))
<1>1. PICK k \in LiteralsOf(j) : k \in lits \/ (-k \notin lits /\ -k \in LiteralsOf(i))
  BY DEF SetBlockedCondition
<1>2. CASE k \in lits
  BY <1>1, <1>2 DEF Tautology, Negated
<1>3. CASE -k \notin lits /\ -k \in LiteralsOf(i)
  BY <1>1, <1>3 DEF Tautology
<1> QED BY <1>1, <1>2, <1>3

LEMMA LiteralConditionMakesTautology ==
  ASSUME NEW i, NEW l \in LiteralsOf(i), NEW j, LiteralBlockedCondition(i, l, j)
  PROVE  Tautology((LiteralsOf(i) \ {l}) \cup (LiteralsOf(j) \ {-l}))
<1>1. PICK k \in LiteralsOf(j) : k # -l /\ -k \in LiteralsOf(i)
  BY DEF LiteralBlockedCondition
<1>2. k \in Int /\ l \in Int /\ -k # l
  BY <1>1, LiteralsOfType, LiteralFacts
<1> QED BY <1>1, <1>2 DEF Tautology

\* What the programs try are non-empty sets of literals of the clause.
LEMMA CandidateType ==
  ASSUME NEW i, NEW lits \in BlockingCandidates(i)
  PROVE  /\ lits # {} /\ lits \subseteq LiteralsOf(i) /\ lits \in SUBSET Literals
         /\ command.tool = "blocked" => \E l \in LiteralsOf(i) : lits = {l}
<1>1. CASE command.tool = "blocked"
  BY <1>1, LiteralsOfType DEF BlockingCandidates
<1>2. CASE command.tool # "blocked"
  <2>1. lits \subseteq LiteralsOf(i)
    BY <1>2 DEF BlockingCandidates
  <2>2. lits # {}
    BY <1>2, FS_EmptySet DEF BlockingCandidates
  <2> QED BY <1>2, <2>1, <2>2, LiteralsOfType
<1> QED BY <1>1, <1>2

\* A clause that is found is blocked by what it was found for.
LEMMA FoundIsBlocked ==
  ASSUME StoreInv, LookupComplete, NEW i, IsFound(i)
  PROVE  /\ i \in DOMAIN clauses
         /\ \E lits \in SUBSET LiteralsOf(i) :
              BlockedBySet(i, lits) /\ (command.tool = "blocked" => \E l \in lits : BlockedByLiteral(i, l))
<1>1. i \in DOMAIN clauses
  BY DEF IsFound
<1>2. PICK lits \in BlockingCandidates(i) : Blocks(i, lits)
  BY DEF IsFound
<1>3. /\ lits # {} /\ lits \subseteq LiteralsOf(i) /\ lits \in SUBSET Literals
      /\ command.tool = "blocked" => \E l \in LiteralsOf(i) : lits = {l}
  BY CandidateType
<1>4. \A j \in ResolutionEnvironment(lits) : ConditionHolds(i, lits, j)
  BY <1>2, <1>3, EnvironmentComplete DEF Blocks
<1>5. CASE command.tool = "blocked"
  <2>1. PICK l \in LiteralsOf(i) : lits = {l}
    BY <1>3, <1>5
  <2>2. \A j \in ResolutionEnvironment({l}) : LiteralBlockedCondition(i, l, j)
    BY <1>4, <1>5, <2>1 DEF ConditionHolds
  <2>3. BlockedByLiteral(i, l)
    BY <2>2, LiteralConditionMakesTautology DEF BlockedByLiteral
  <2> QED BY <1>1, <1>3, <2>1, <2>3, BlockingLiteralIsBlockingSet
<1>6. CASE command.tool # "blocked"
  <2>1. \A j \in ResolutionEnvironment(lits) : SetBlockedCondition(i, lits, j)
    BY <1>4, <1>6 DEF ConditionHolds
  <2>2. BlockedBySet(i, lits)
    BY <1>3, <2>1, ConditionMakesTautology DEF BlockedBySet
  <2> QED BY <1>1, <1>3, <1>6, <2>2
<1> QED BY <1>5, <1>6
-----------------------------------------------------------------------------
(* The steps.                                                              *)

\* What is blocked and what is satisfiable depends on the clauses only.
LEMMA MeaningUnchanged ==
  ASSUME UNCHANGED clauses
  PROVE  /\ \A i : LiteralsOf(i)' = LiteralsOf(i)
         /\ \A i, lits : BlockedBySet(i, lits)' <=> BlockedBySet(i, lits)
         /\ \A i, l : BlockedByLiteral(i, l)' <=> BlockedByLiteral(i, l)
         /\ \A ids : Satisfiable(ids)' <=> Satisfiable(ids)
<1>1. ASSUME NEW i PROVE LiteralsOf(i)' = LiteralsOf(i)
  BY DEF LiteralsOf
<1>2. ASSUME NEW lits PROVE ResolutionEnvironment(lits)' = ResolutionEnvironment(lits)
  BY <1>1 DEF ResolutionEnvironment
<1>3. ASSUME NEW i, NEW lits PROVE BlockedBySet(i, lits)' <=> BlockedBySet(i, lits)
  BY <1>1, <1>2 DEF BlockedBySet
<1>4. ASSUME NEW i, NEW l PROVE BlockedByLiteral(i, l)' <=> BlockedByLiteral(i, l)
  BY <1>1, <1>2 DEF BlockedByLiteral
<1>5. ASSUME NEW ids PROVE Satisfiable(ids)' <=> Satisfiable(ids)
  BY DEF Satisfiable, SatisfiesClauses
<1> QED BY <1>1, <1>3, <1>4, <1>5

\* As long as nothing is found there is nothing to show.
LEMMA NothingFound == found = {} => FoundInv
<1> SUFFICES ASSUME found = {} PROVE FoundInv
  OBVIOUS
<1>1. DOMAIN clauses \ found = DOMAIN clauses
  OBVIOUS
<1> QED BY <1>1 DEF FoundInv, FoundAreBlocked, FoundJointlyRedundant

LEMMA NothingFoundYet == found' = {} => FoundInv'
<1> SUFFICES ASSUME found' = {} PROVE FoundInv'
  OBVIOUS
<1>1. (DOMAIN clauses \ found)' = (DOMAIN clauses)'
  OBVIOUS
<1> QED BY <1>1 DEF FoundInv, FoundAreBlocked, FoundJointlyRedundant

LEMMA FoundUnchanged ==
  ASSUME FoundInv, UNCHANGED <<clauses, found, indexed, command>>
  PROVE  FoundInv'
<1>1. LookupComplete' <=> LookupComplete
  BY DEF LookupComplete
<1>2. SUFFICES ASSUME LookupComplete
               PROVE  (found \subseteq DOMAIN clauses /\ FoundAreBlocked /\ FoundJointlyRedundant)'
  BY <1>1 DEF FoundInv
<1>3. found \subseteq DOMAIN clauses /\ FoundAreBlocked /\ FoundJointlyRedundant
  BY <1>2 DEF FoundInv
<1>4. FoundAreBlocked'
  BY <1>3, MeaningUnchanged DEF FoundAreBlocked
<1>5. (DOMAIN clauses \ found)' = DOMAIN clauses \ found /\ (DOMAIN clauses)' = DOMAIN clauses
  OBVIOUS
<1>6. FoundJointlyRedundant'
  BY <1>2, <1>3, <1>5, MeaningUnchanged DEF FoundJointlyRedundant
<1> QED BY <1>3, <1>4, <1>6

\* A clause that is found is blocked in the formula with all its clauses; it is still
\* blocked among those that were not found before.
LEMMA CheckCandidateFound ==
  ASSUME ParserInv, StageInv, FoundInv, CheckCandidate
  PROVE  FoundInv'
<1> DEFINE i == candidates[considered + 1]
<1>1. UNCHANGED <<clauses, indexed, command>>
  BY DEF CheckCandidate, allVars, vars
<1>2. found' = IF IsFound(i) THEN found \cup {i} ELSE found
  BY DEF CheckCandidate
<1>3. CASE ~IsFound(i)
  BY <1>1, <1>2, <1>3, FoundUnchanged
<1>4. CASE IsFound(i)
  <2>1. LookupComplete' <=> LookupComplete
    BY <1>1 DEF LookupComplete
  <2>2. SUFFICES ASSUME LookupComplete
                 PROVE  (found \subseteq DOMAIN clauses /\ FoundAreBlocked /\ FoundJointlyRedundant)'
    BY <2>1 DEF FoundInv
  <2>3. found \subseteq DOMAIN clauses /\ FoundAreBlocked /\ FoundJointlyRedundant
    BY <2>2 DEF FoundInv
  <2>4. StoreInv
    BY DEF ParserInv, Inv
  <2>5. /\ i \in DOMAIN clauses
        /\ \E lits \in SUBSET LiteralsOf(i) :
             BlockedBySet(i, lits) /\ (command.tool = "blocked" => \E l \in lits : BlockedByLiteral(i, l))
    BY <1>4, <2>2, <2>4, FoundIsBlocked
  <2>6. found' = found \cup {i}
    BY <1>2, <1>4
  <2>7. (found \subseteq DOMAIN clauses)'
    BY <1>1, <2>3, <2>5, <2>6
  <2>8. FoundAreBlocked'
    BY <1>1, <2>3, <2>5, <2>6, MeaningUnchanged DEF FoundAreBlocked
  <2>9. FoundJointlyRedundant'
    <3>1. (DOMAIN clauses \ found)' = (DOMAIN clauses \ found) \ {i}
      BY <1>1, <2>6
    <3>2. SUFFICES ASSUME Satisfiable((DOMAIN clauses \ found) \ {i})
                   PROVE  Satisfiable(DOMAIN clauses)
      BY <1>1, <3>1, MeaningUnchanged DEF FoundJointlyRedundant
    <3>3. Satisfiable(DOMAIN clauses \ found)
      BY <2>5, <3>2, SetBlockedClauseIsRedundantInPart
    <3> QED BY <2>2, <2>3, <3>3 DEF FoundJointlyRedundant
  <2> QED BY <2>7, <2>8, <2>9
<1> QED BY <1>3, <1>4

LEMMA ProgramInvInitially == ProgramInit => ProgramInv
<1> SUFFICES ASSUME ProgramInit PROVE ProgramInv
  OBVIOUS
<1>1. ParserInv
  BY ParserInvInitially DEF ProgramInit
<1>2. StageInv
  BY BlockedClauseSearchAssumption DEF ProgramInit, StageInv
<1> QED BY <1>1, <1>2, NothingFound DEF ProgramInit, ProgramInv

LEMMA ProgramStepInv ==
  ASSUME ProgramInv, [ProgramNext]_programVars
  PROVE  ProgramInv'
<1>1. ParserInv /\ StageInv /\ FoundInv
  BY DEF ProgramInv
<1>2. ASSUME UNCHANGED allVars, UNCHANGED <<found, indexed, command>>, StageInv'
      PROVE  ProgramInv'
  <2>1. UNCHANGED clauses
    BY <1>2 DEF allVars, vars
  <2> QED BY <1>1, <1>2, <2>1, ParserInvUnchanged, FoundUnchanged DEF ProgramInv
<1>3. CASE ParseText
  <2>1. ParserInv'
    BY <1>1, <1>3, ParserStepInv DEF ParseText
  <2>2. StageInv' /\ found' = {}
    BY <1>1, <1>3 DEF ParseText, StageInv, searchVars
  <2> QED BY <2>1, <2>2, NothingFoundYet DEF ProgramInv
<1>4. CASE RefuseText
  BY <1>1, <1>2, <1>4 DEF RefuseText, StageInv
<1>5. ASSUME NEW c \in Commands, Configure(c) PROVE ProgramInv'
  <2>1. ParserInv'
    BY <1>1, <1>5, ParserInvUnchanged DEF Configure
  <2>2. StageInv' /\ found' = {}
    BY <1>1, <1>5 DEF Configure, StageInv
  <2> QED BY <2>1, <2>2, NothingFoundYet DEF ProgramInv
<1>6. CASE CollectCandidate
  BY <1>1, <1>2, <1>6 DEF CollectCandidate, StageInv
<1>7. CASE UseOccurrences
  BY <1>1, <1>2, <1>7 DEF UseOccurrences, CollectedAll, StageInv
<1>8. CASE InitializeAvlTree
  <2>1. ParserInv'
    BY <1>1, <1>8, ParserInvUnchanged DEF InitializeAvlTree
  <2>2. StageInv' /\ found' = {}
    BY <1>1, <1>8 DEF InitializeAvlTree, CollectedAll, StageInv
  <2> QED BY <2>1, <2>2, NothingFoundYet DEF ProgramInv
<1>9. CASE AvlTreeFails
  BY <1>1, <1>2, <1>9 DEF AvlTreeFails, CollectedAll, StageInv
<1>10. CASE CheckCandidate
  <2>1. ParserInv'
    BY <1>1, <1>10, ParserInvUnchanged DEF CheckCandidate
  <2>2. StageInv'
    BY <1>1, <1>10 DEF CheckCandidate, NextConsidered, SearchGoesOn, StageInv
  <2> QED BY <1>1, <1>10, <2>1, <2>2, CheckCandidateFound DEF ProgramInv
<1>11. CASE CheckAborts
  BY <1>1, <1>2, <1>11 DEF CheckAborts, SearchGoesOn, StageInv
<1>12. CASE EndSearch
  BY <1>1, <1>2, <1>12 DEF EndSearch, StageInv
<1>13. CASE UNCHANGED programVars
  BY <1>1, <1>2, <1>13 DEF programVars, searchVars, StageInv
<1> QED
  BY <1>3, <1>4, <1>5, <1>6, <1>7, <1>8, <1>9, <1>10, <1>11, <1>12, <1>13 DEF ProgramNext

LEMMA ProgramInvariance == ProgramSpec => []ProgramInv
  BY ProgramInvInitially, ProgramStepInv, PTL DEF ProgramSpec
-----------------------------------------------------------------------------
(* The theorems.                                                           *)

\* Every clause the programs count as removable is blocked, by literals of the kind its
\* tool looks for, whatever the candidates, the heuristic and the restrictions are: with
\* the lookup by occurrences always, with an interval tree if it holds all clauses.  As
\* in all that follows, no line of the text repeats a literal.
THEOREM FoundClausesAreBlocked == ProgramSpec => [](LookupComplete => FoundAreBlocked)
<1>1. ProgramInv => (LookupComplete => FoundAreBlocked)
  BY DEF ProgramInv, FoundInv
<1> QED BY <1>1, ProgramInvariance, PTL

\* The clauses the programs count may be removed together, not only one at a time: the
\* formula without all of them is satisfiable only if the formula is (for texts whose
\* lines repeat no literal).
THEOREM FoundClausesAreJointlyRedundant == ProgramSpec => []FoundJointlyRedundant
<1>1. ProgramInv => FoundJointlyRedundant
  BY DEF ProgramInv, FoundInv, FoundJointlyRedundant
<1> QED BY <1>1, ProgramInvariance, PTL
-----------------------------------------------------------------------------
(* The selector never runs out of candidates.                              *)

\* The formula is finite, and what is collected is a first part of the queue.
SearchInv ==
  /\ IsFiniteSet(DOMAIN clauses)
  /\ queue \in Seq(Nat) /\ taken \in 0 .. Len(queue)
  /\ considered \in 0 .. Len(candidates)
  /\ candidates = SubSeq(queue, 1, taken)
  /\ indexed \cup found \subseteq DOMAIN clauses
  /\ stage = "Parse" => taken = 0 /\ considered = 0
  /\ stage = "Collect" => wanted \in Nat /\ wanted - Len(candidates) \in 0 .. Len(queue) - taken

\* The smaller one of two numbers.
LEMMA MinOfTwo ==
  ASSUME NEW a \in Nat, NEW b \in Nat
  PROVE  /\ Min({a, b}) \in Nat /\ Min({a, b}) <= a /\ Min({a, b}) <= b
         /\ a <= b => Min({a, b}) = a
<1>1. \E x \in {a, b} : \A y \in {a, b} : x <= y
  <2>1. CASE a <= b
    BY <2>1
  <2>2. CASE b <= a
    BY <2>2
  <2> QED BY <2>1, <2>2
<1>2. Min({a, b}) \in {a, b} /\ \A y \in {a, b} : Min({a, b}) <= y
  BY <1>1 DEF Min
<1> QED BY <1>2

\* No step of the parser makes the formula infinite.
LEMMA ParserStepFinite ==
  ASSUME ParserInv, ParserStep, IsFiniteSet(DOMAIN clauses)
  PROVE  IsFiniteSet(DOMAIN clauses')
<1>1. StoreInv /\ AssignmentInv
  BY DEF ParserInv, Inv
<1>2. CASE UNCHANGED clauses
  BY <1>2
<1>3. CASE DOMAIN clauses' = DOMAIN clauses
  BY <1>3
<1>4. CASE StoreLine
  <2>1. DOMAIN clauses' \subseteq DOMAIN clauses \cup {counter}
    BY <1>4 DEF StoreLine, StoreClause
  <2>2. IsFiniteSet(DOMAIN clauses \cup {counter})
    BY FS_AddElement
  <2> QED BY <2>1, <2>2, FS_Subset
<1>5. CASE PropagateUnit
  BY <1>1, <1>3, <1>5, CallKeeps DEF PropagateUnit
<1>6. CASE Propagating
  BY <1>1, <1>3, <1>6, PropagationKeeps DEF Propagating
<1>7. CASE DropSatisfied
  <2>1. DOMAIN clauses' \subseteq DOMAIN clauses
    BY <1>7 DEF DropSatisfied, DropClauses
  <2> QED BY <2>1, FS_Subset
<1>8. CASE EraseFalsified
  BY <1>3, <1>8 DEF EraseFalsified, EraseLiteral
<1> QED BY <1>2, <1>4, <1>5, <1>6, <1>7, <1>8 DEF ParserStep, ReadHeader, SurplusLine,
  LineWithoutClause, RejectTautology, PropagationReturned, Finish, vars

\* The indices a queue is made of are finitely many numbers.
LEMMA IndexSequenceFacts ==
  ASSUME NEW h, NEW requested \in Nat, NEW maxLength, IsFiniteSet(DOMAIN clauses)
  PROVE  LET ids == IndexSequence(h, requested, maxLength)
             m == IF h = "Sequential" THEN requested ELSE NumClauses
         IN /\ NumClauses \in Nat
            /\ ids \subseteq Nat /\ Cardinality(ids) \in Nat
            /\ maxLength = NotGiven => Cardinality(ids) = m
<1> DEFINE ids == IndexSequence(h, requested, maxLength)
           m == IF h = "Sequential" THEN requested ELSE NumClauses
<1>1. NumClauses \in Nat
  BY FS_CardinalityType DEF NumClauses
<1>2. m \in Nat
  BY <1>1
<1>3. ids \subseteq 0 .. m - 1 /\ (maxLength = NotGiven => ids = 0 .. m - 1)
  BY DEF IndexSequence
<1>4. IsFiniteSet(0 .. m - 1) /\ Cardinality(0 .. m - 1) = m
  BY <1>2, FS_Interval
<1>5. IsFiniteSet(ids) /\ Cardinality(ids) \in Nat
  BY <1>3, <1>4, FS_Subset, FS_CardinalityType
<1> QED BY <1>1, <1>2, <1>3, <1>4, <1>5

\* Both programs want no more candidates than are in the queue.
LEMMA EnoughCandidates ==
  ASSUME ParserInv, IsFiniteSet(DOMAIN clauses), NEW c \in Commands, Configure(c)
  PROVE  queue' \in Seq(Nat) /\ wanted' \in 0 .. Len(queue')
<1> DEFINE requested == RequestedFor(c)
           ids == IndexSequence(c.heuristic, requested, c.maxLength)
<1>1. c.requested \in Nat \cup {NotGiven} /\ (c.tool = "blocked" => c.maxLength = NotGiven)
  BY BlockedClauseSearchAssumption DEF BlockedClauseSearchAssumption
<1>2. NumClauses \in Nat
  BY FS_CardinalityType DEF NumClauses
<1>3. NumCandidateClauses(c) \in Nat /\ NumCandidateClauses(c) <= NumClauses
  BY <1>1, <1>2, MinOfTwo DEF NumCandidateClauses
<1>4. requested \in Nat
  <2>1. input.numClauses \in Nat
    BY TextFacts DEF ParserInv, ProgressInv
  <2> QED BY <1>3, <2>1 DEF RequestedFor
<1>5. /\ ids \subseteq Nat /\ Cardinality(ids) \in Nat
      /\ c.maxLength = NotGiven
           => Cardinality(ids) = IF c.heuristic = "Sequential" THEN requested ELSE NumClauses
  BY <1>4, IndexSequenceFacts
<1>6. queue' \in [1 .. Cardinality(ids) -> ids] /\ numGeneratable' = Min({Cardinality(ids), requested})
  BY DEF Configure, InitializeCandidateSequence, SetToSeqs, Generatable
<1>7. queue' \in Seq(Nat) /\ Len(queue') = Cardinality(ids)
  <2>1. queue' \in [1 .. Cardinality(ids) -> Nat]
    BY <1>5, <1>6
  <2>2. queue' \in Seq(Nat)
    BY <1>5, <2>1, SeqDef
  <2> QED BY <1>5, <2>1, <2>2, LenProperties
<1>8. CASE c.tool = "setBlocked"
  BY <1>4, <1>5, <1>6, <1>7, <1>8, MinOfTwo DEF Configure
<1>9. CASE c.tool # "setBlocked"
  <2>1. c.tool = "blocked" /\ wanted' = NumCandidateClauses(c)
    BY <1>9, BlockedClauseSearchAssumption DEF BlockedClauseSearchAssumption, Tools, Configure
  <2>2. c.heuristic = "Sequential" => requested = NumCandidateClauses(c)
    BY DEF RequestedFor
  <2> QED BY <1>1, <1>2, <1>3, <1>5, <1>7, <2>1, <2>2
<1> QED BY <1>7, <1>8, <1>9

\* A tree holds clauses of the formula only.
LEMMA InsertedAreClauses ==
  ASSUME Creation(Formula) = "Created"
  PROVE  Inserted(Formula) \subseteq DOMAIN clauses
<1> DEFINE plan == Positions(SizeOf(Formula))
<1>1. \A p \in DOMAIN plan : Insertable(Formula, plan[p])
  BY DEF Creation
<1>2. DOMAIN Formula = DOMAIN clauses
  BY DEF Formula
<1> QED BY <1>1, <1>2 DEF Inserted, Insertable, ToSet

\* What is collected is a number of entries of the queue.
LEMMA CollectedFacts ==
  ASSUME SearchInv
  PROVE  /\ taken \in Nat /\ Len(queue) \in Nat /\ taken <= Len(queue)
         /\ candidates \in Seq(Nat) /\ Len(candidates) = taken
         /\ \A p \in 1 .. taken : candidates[p] = queue[p] /\ queue[p] \in Nat
<1>1. taken \in Nat /\ Len(queue) \in Nat /\ taken <= Len(queue)
  BY LenProperties DEF SearchInv
<1>2. \A p \in 1 .. taken : queue[p] \in Nat
  BY <1>1, ElementOfSeq DEF SearchInv
<1>3. candidates = SubSeq(queue, 1, taken)
  BY DEF SearchInv
<1>4. /\ SubSeq(queue, 1, taken) \in Seq(Nat)
      /\ Len(SubSeq(queue, 1, taken)) = IF 1 <= taken THEN taken - 1 + 1 ELSE 0
      /\ \A p \in 1 .. taken - 1 + 1 : SubSeq(queue, 1, taken)[p] = queue[1 + p - 1]
  BY <1>1, <1>2, SubSeqProperties
<1>5. \A p \in 1 .. taken : p \in 1 .. taken - 1 + 1 /\ 1 + p - 1 = p
  BY <1>1
<1> QED BY <1>1, <1>2, <1>3, <1>4, <1>5

\* The next candidate is the next entry of the queue.
LEMMA CollectCandidateSearch ==
  ASSUME SearchInv, CollectCandidate
  PROVE  SearchInv'
<1>1. /\ taken \in Nat /\ Len(queue) \in Nat /\ taken <= Len(queue)
      /\ candidates \in Seq(Nat) /\ Len(candidates) = taken
      /\ \A p \in 1 .. taken : candidates[p] = queue[p] /\ queue[p] \in Nat
  BY CollectedFacts
<1>2. /\ stage = "Collect" /\ taken < wanted /\ taken < Len(queue) /\ taken' = taken + 1
      /\ candidates' = Append(candidates, queue[taken + 1])
      /\ UNCHANGED <<clauses, queue, stage, wanted, indexed, considered, found>>
  BY <1>1 DEF CollectCandidate, SelectNextCandidate, allVars, vars
<1>3. wanted \in Nat /\ wanted <= Len(queue)
  BY <1>1, <1>2 DEF SearchInv
<1>4. queue \in Seq(Nat) /\ queue[taken + 1] \in Nat
  <2>1. taken + 1 \in 1 .. Len(queue)
    BY <1>1, <1>2
  <2> QED BY <2>1, ElementOfSeq DEF SearchInv
<1>5. /\ candidates' \in Seq(Nat) /\ Len(candidates') = taken + 1
      /\ \A p \in 1 .. taken : candidates'[p] = queue[p]
      /\ candidates'[taken + 1] = queue[taken + 1]
  BY <1>1, <1>2, <1>4, AppendProperties
<1>6. candidates' = SubSeq(queue, 1, taken + 1)
  <2> DEFINE t == SubSeq(queue, 1, taken + 1)
  <2>1. \A p \in 1 .. taken + 1 : queue[p] \in Nat
    BY <1>1, <1>4
  <2>2. /\ t \in Seq(Nat) /\ Len(t) = IF 1 <= taken + 1 THEN taken + 1 - 1 + 1 ELSE 0
        /\ \A p \in 1 .. taken + 1 - 1 + 1 : t[p] = queue[1 + p - 1]
    BY <1>1, <2>1, SubSeqProperties
  <2>3. Len(t) = taken + 1 /\ \A p \in 1 .. taken + 1 : t[p] = queue[p]
    BY <1>1, <2>2
  <2>4. \A p \in 1 .. taken + 1 : candidates'[p] = t[p]
    BY <1>1, <1>5, <2>3
  <2> HIDE DEF t
  <2>5. candidates' = t
    BY <1>5, <2>2, <2>3, <2>4, SeqEqual
  <2> QED BY <2>5 DEF t
<1>7. considered \in 0 .. Len(candidates')
  BY <1>1, <1>5 DEF SearchInv
<1>8. wanted' - Len(candidates') \in 0 .. Len(queue') - taken'
  BY <1>1, <1>2, <1>3, <1>5
<1>9. taken' \in 0 .. Len(queue')
  BY <1>1, <1>2
<1>10. /\ IsFiniteSet(DOMAIN clauses') /\ queue' \in Seq(Nat)
       /\ indexed' \cup found' \subseteq DOMAIN clauses'
  BY <1>2 DEF SearchInv
<1> QED BY <1>2, <1>3, <1>6, <1>7, <1>8, <1>9, <1>10 DEF SearchInv

\* A step of the parser: nothing is collected, indexed or found yet.
LEMMA ParseTextSearch ==
  ASSUME ParserInv, StageInv, SearchInv, ParseText
  PROVE  SearchInv'
<1>1. stage = "Parse" /\ ParserStep /\ UNCHANGED <<selectorVars, searchVars>>
  BY DEF ParseText
<1>2. IsFiniteSet(DOMAIN clauses')
  BY <1>1, ParserStepFinite DEF SearchInv
<1>3. indexed = {} /\ found = {}
  BY <1>1 DEF StageInv
<1> QED BY <1>1, <1>2, <1>3 DEF SearchInv, selectorVars, searchVars

LEMMA ConfigureSearch ==
  ASSUME ParserInv, StageInv, SearchInv, NEW c \in Commands, Configure(c)
  PROVE  SearchInv'
<1>1. /\ stage = "Parse" /\ stage' = "Collect" /\ taken' = 0
      /\ UNCHANGED <<clauses, candidates, indexed, considered, found>>
  BY DEF Configure, InitializeCandidateSequence, allVars, vars
<1>2. taken = 0 /\ considered = 0 /\ Len(candidates) = 0 /\ candidates \in Seq(Nat)
  BY <1>1, CollectedFacts DEF SearchInv
<1>3. queue' \in Seq(Nat) /\ wanted' \in 0 .. Len(queue') /\ Len(queue') \in Nat
  BY EnoughCandidates, LenProperties DEF SearchInv
<1>4. candidates' = SubSeq(queue', 1, 0)
  <2>1. candidates = <<>>
    BY <1>2, EmptySeq
  <2>2. SubSeq(queue', 1, 0) = <<>>
    BY SubSeqEmpty
  <2> QED BY <1>1, <2>1, <2>2
<1>5. wanted' \in Nat /\ wanted' - Len(candidates') \in 0 .. Len(queue') - taken'
  <2>1. Len(candidates') = 0 /\ taken' = 0
    BY <1>1, <1>2
  <2>2. \A w, q \in Nat : w \in 0 .. q => w - 0 \in 0 .. q - 0
    OBVIOUS
  <2>3. wanted' \in Nat
    BY <1>3
  <2> QED BY <1>3, <2>1, <2>2, <2>3
<1>6. taken' \in 0 .. Len(queue') /\ considered' \in 0 .. Len(candidates')
  BY <1>1, <1>2, <1>3
<1>7. IsFiniteSet(DOMAIN clauses') /\ indexed' \cup found' \subseteq DOMAIN clauses'
  BY <1>1 DEF SearchInv
<1> QED BY <1>1, <1>3, <1>4, <1>5, <1>6, <1>7 DEF SearchInv

\* Once all candidates are collected the queue is not used any more.
LEMMA SearchKept ==
  ASSUME SearchInv, UNCHANGED <<clauses, queue, taken, candidates>>,
         stage' \in {"Search", "Done", "Failed"}, considered' \in 0 .. Len(candidates),
         indexed' \cup found' \subseteq DOMAIN clauses
  PROVE  SearchInv'
  BY DEF SearchInv

LEMMA CheckCandidateSearch ==
  ASSUME SearchInv, CheckCandidate
  PROVE  SearchInv'
<1> DEFINE i == candidates[considered + 1]
<1>1. /\ stage' = "Search" /\ considered' = considered + 1 /\ considered < Len(candidates)
      /\ UNCHANGED <<clauses, queue, taken, candidates, indexed>>
  BY DEF CheckCandidate, SearchGoesOn, NextConsidered, selectorVars, allVars, vars
<1>2. found' \subseteq found \cup DOMAIN clauses
  BY DEF CheckCandidate, IsFound
<1>3. Len(candidates) \in Nat
  BY CollectedFacts
<1>4. considered' \in 0 .. Len(candidates)
  BY <1>1, <1>3 DEF SearchInv
<1>5. indexed' \cup found' \subseteq DOMAIN clauses
  BY <1>1, <1>2 DEF SearchInv
<1> QED BY <1>1, <1>4, <1>5, SearchKept

LEMMA SearchInitially == ProgramInit => SearchInv
<1> SUFFICES ASSUME ProgramInit PROVE SearchInv
  OBVIOUS
<1>1. /\ queue = <<>> /\ taken = 0 /\ considered = 0 /\ candidates = <<>>
      /\ indexed = {} /\ found = {} /\ DOMAIN clauses = {} /\ stage = "Parse"
  BY DEF ProgramInit, SelectorInit, ParserInit, Init
<1>2. queue \in Seq(Nat) /\ Len(queue) = 0 /\ Len(candidates) = 0
  BY <1>1, EmptySeq
<1>3. IsFiniteSet({})
  BY FS_EmptySet
<1>4. SubSeq(queue, 1, 0) = <<>>
  BY SubSeqEmpty
<1> QED BY <1>1, <1>2, <1>3, <1>4 DEF SearchInv

LEMMA SearchStep ==
  ASSUME ParserInv, StageInv, SearchInv, [ProgramNext]_programVars
  PROVE  SearchInv'
<1>1. CASE ParseText
  BY <1>1, ParseTextSearch
<1>2. ASSUME NEW c \in Commands, Configure(c) PROVE SearchInv'
  BY <1>2, ConfigureSearch
<1>3. CASE CollectCandidate
  BY <1>3, CollectCandidateSearch
<1>4. CASE CheckCandidate
  BY <1>4, CheckCandidateSearch
<1>5. CASE InitializeAvlTree
  <2>1. indexed' \subseteq DOMAIN clauses
    BY <1>5, InsertedAreClauses DEF InitializeAvlTree
  <2> QED BY <1>5, <2>1, SearchKept DEF InitializeAvlTree, SearchInv, selectorVars, allVars, vars
<1>6. CASE RefuseText
  BY <1>6, SearchKept DEF RefuseText, SearchInv, selectorVars, allVars, vars
<1>7. CASE UseOccurrences
  BY <1>7, SearchKept DEF UseOccurrences, SearchInv, selectorVars, allVars, vars
<1>8. CASE AvlTreeFails
  BY <1>8, SearchKept DEF AvlTreeFails, SearchInv, selectorVars, allVars, vars
<1>9. CASE CheckAborts
  BY <1>9, SearchKept DEF CheckAborts, SearchInv, selectorVars, allVars, vars
<1>10. CASE EndSearch
  BY <1>10, SearchKept DEF EndSearch, SearchInv, selectorVars, allVars, vars
<1>11. CASE UNCHANGED programVars
  BY <1>11 DEF programVars, searchVars, selectorVars, allVars, vars, SearchInv
<1> QED BY <1>1, <1>2, <1>3, <1>4, <1>5, <1>6, <1>7, <1>8, <1>9, <1>10, <1>11 DEF ProgramNext

\* The selector always has as many candidates left as the programs still want, whatever
\* the heuristic, the restriction and the gaps in the indices are, so that neither
\* program fails for want of a candidate; what it has given is a first part of its queue.
THEOREM SelectorNeverRunsOut == ProgramSpec => []SearchTypeOK
<1>1. ProgramInv /\ SearchInv /\ [ProgramNext]_programVars => SearchInv'
  BY SearchStep DEF ProgramInv
<1>2. ProgramInv /\ SearchInv => SearchTypeOK
  BY DEF ProgramInv, StageInv, SearchInv, SearchTypeOK
<1> QED BY <1>1, <1>2, SearchInitially, ProgramInvariance, PTL DEF ProgramSpec
-----------------------------------------------------------------------------
(* What the parser leaves to the search.                                   *)

\* A clause as it is written in a line: no literal twice, none with its negation.
PlainBag(bag) ==
  /\ \A l \in Literals : bag[l] \in {0, 1}
  /\ \E l \in Literals : bag[l] = 1
  /\ \A l \in Literals : bag[l] = 0 \/ bag[-l] = 0

\* Without unit propagation nothing is assigned, and the clauses are those of the lines.
PlainInv ==
  /\ input \in Inputs /\ ~configuration.performUnitPropagation
  /\ phase \notin {"propagate", "drop", "erase"}
  /\ \A v \in Variables : values[v] = "Unknown"
  /\ \A i \in DOMAIN clauses :
       i \in Nat /\ i < input.numClauses /\ i < Len(input.lines) /\ PlainBag(clauses[i].literals)

\* The result is what the checks of the candidates considered so far have found, and
\* the candidates are the first of the queue that the command asks for.
QueuesFor(c) ==
  {s \in SetToSeqs(IndexSequence(c.heuristic, RequestedFor(c), c.maxLength)) :
     \A p, q \in DOMAIN s : p < q => QueuedBefore(c.heuristic, s[p], s[q])}

WantedFor(c) ==
  IF c.tool = "setBlocked"
  THEN Generatable(IndexSequence(c.heuristic, RequestedFor(c), c.maxLength), RequestedFor(c))
  ELSE NumCandidateClauses(c)

ResultInv ==
  /\ stage \in {"Parse", "Collect"} => considered = 0
  /\ stage \in {"Collect", "Search", "Done"} => queue \in QueuesFor(command) /\ wanted = WantedFor(command)
  /\ stage \in {"Search", "Done"} => Len(candidates) = wanted
  /\ found = {candidates[p] : p \in {q \in 1 .. considered : IsFound(candidates[q])}}
  /\ stage = "Done" => considered = Len(candidates) \/ Cardinality(found) >= MatchesToSearchFor

LEMMA PlainInitially == ProgramInit => PlainInv
<1> SUFFICES ASSUME ProgramInit PROVE PlainInv
  OBVIOUS
<1>1. /\ input \in Inputs /\ configuration \in Configurations /\ phase = "header"
      /\ DOMAIN clauses = {} /\ values = [v \in Variables |-> "Unknown"]
  BY DEF ProgramInit, ParserInit, Init
<1>2. ~configuration.performUnitPropagation
  BY <1>1, BlockedClauseSearchAssumption DEF BlockedClauseSearchAssumption
<1> QED BY <1>1, <1>2 DEF PlainInv

\* The clause of a line of the text.
LEMMA LineIsPlain ==
  ASSUME ParserInv, PlainInv, StoreLine
  PROVE  /\ counter \in Nat /\ counter < input.numClauses /\ counter < Len(input.lines)
         /\ PlainBag(Remaining(Line))
<1>1. /\ counter \in Nat /\ input \in Texts /\ input \in Inputs
      /\ YieldsClause(Line) /\ counter + 1 <= input.numClauses
      /\ ~IsTautology(Remaining(Line))
  BY DEF StoreLine, ConsumeClause, Consume, ParserInv, ProgressInv, PlainInv
<1>2. Len(input.lines) \in Nat /\ input.numClauses \in Nat /\ input.lines \in Seq(Seq(Int \cup {Junk, Overflow}))
  BY <1>1, TextFacts
<1>3. Line \in Seq(Int \cup {Junk, Overflow}) /\ Len(Line) \in Nat /\ DOMAIN Line = 1 .. Len(Line)
  BY <1>1, LineType, LenProperties
<1>4. ~(Len(Line) <= 1)
  BY <1>1 DEF YieldsClause, Blank
<1>5. counter < Len(input.lines)
  <2>1. CASE ~(counter < Len(input.lines))
    <3>1. Len(Line) = 0
      BY <2>1, EmptySeq DEF Line
    <3> QED BY <1>4, <3>1
  <2> QED BY <2>1
<1>6. Line = input.lines[counter + 1] /\ counter + 1 \in DOMAIN input.lines
  BY <1>1, <1>2, <1>5, LenProperties DEF Line
<1>7. \A l \in Literals : Count(Line, l) <= 1
  BY <1>1, <1>6, BlockedClauseSearchAssumption DEF BlockedClauseSearchAssumption
<1>8. \A l \in Literals : Remaining(Line)[l] = Count(Line, l)
  <2>1. \A l \in Literals : LiteralValue(l) = "Unknown"
    BY DEF PlainInv, LiteralValue
  <2>2. \A l \in Literals : l \in KnownLiterals
    BY LiteralFacts
  <2> QED BY <2>1, <2>2 DEF Remaining, Unassigned
<1>9. \A l \in Literals : Count(Line, l) \in Nat /\ (Count(Line, l) > 0 <=> l \in Written(Line))
  BY <1>3, CountType
<1>10. \A l \in Literals : Remaining(Line)[l] \in {0, 1}
  BY <1>7, <1>8, <1>9
<1>11. \E l \in Literals : Remaining(Line)[l] = 1
  <2>1. Written(Line) \subseteq Literals
    BY <1>1, WrittenInRange DEF YieldsClause
  <2>2. 1 \in 1 .. Len(Line) - 1
    BY <1>3, <1>4
  <2>3. Line[1] \in Written(Line)
    BY <2>2 DEF Written
  <2>4. Line[1] \in Literals /\ Count(Line, Line[1]) > 0
    BY <1>9, <2>1, <2>3
  <2> QED BY <1>7, <1>8, <1>9, <2>4
<1>12. \A l \in Literals : Remaining(Line)[l] = 0 \/ Remaining(Line)[-l] = 0
  <2>1. ASSUME NEW l \in Literals, Remaining(Line)[l] # 0, Remaining(Line)[-l] # 0
        PROVE  FALSE
    <3>1. -l \in Literals
      BY LiteralFacts
    <3>2. Remaining(Line)[l] > 0 /\ Remaining(Line)[-l] > 0
      BY <1>10, <2>1, <3>1
    <3> QED BY <1>1, <3>2 DEF IsTautology
  <2> QED BY <2>1
<1>13. counter < input.numClauses
  BY <1>1, <1>2
<1> QED BY <1>1, <1>5, <1>10, <1>11, <1>12, <1>13 DEF PlainBag

LEMMA PlainStep ==
  ASSUME ParserInv, PlainInv, ParserStep
  PROVE  PlainInv'
<1>1. /\ input \in Inputs /\ ~configuration.performUnitPropagation
      /\ phase \notin {"propagate", "drop", "erase"}
      /\ \A v \in Variables : values[v] = "Unknown"
      /\ \A i \in DOMAIN clauses :
           i \in Nat /\ i < input.numClauses /\ i < Len(input.lines) /\ PlainBag(clauses[i].literals)
  BY DEF PlainInv
<1>2. CASE StoreLine
  <2>1. /\ UNCHANGED <<input, configuration, values>> /\ phase' = AfterRound
        /\ StoreClause(counter, Remaining(Line))
    BY <1>2 DEF StoreLine, ConsumeClause, Consume, assignment
  <2>2. phase' \in {"line", "finish"}
    BY <2>1 DEF AfterRound
  <2>3. /\ counter \in Nat /\ counter < input.numClauses /\ counter < Len(input.lines)
        /\ PlainBag(Remaining(Line))
    BY <1>2, LineIsPlain
  <2>4. ASSUME NEW i \in DOMAIN clauses'
        PROVE  i \in Nat /\ i < input.numClauses /\ i < Len(input.lines) /\ PlainBag(clauses'[i].literals)
    BY <1>1, <2>1, <2>3 DEF StoreClause
  <2> QED BY <1>1, <2>1, <2>2, <2>4 DEF PlainInv
<1>3. CASE UNCHANGED <<vars, input, configuration>> /\ phase' \in {"line", "finish", "done"}
  BY <1>1, <1>3 DEF PlainInv, vars
<1> QED BY <1>1, <1>2, <1>3 DEF ParserStep, ReadHeader, SurplusLine, LineWithoutClause, PropagateUnit,
  PropagatesLine, RejectTautology, Propagating, PropagationReturned, DropSatisfied, EraseFalsified,
  Finish, ConsumeClause, Consume, AfterRound

\* The formula of a search: what its clauses hold, and how many there are.
LEMMA PlainClauses ==
  ASSUME ParserInv, PlainInv, LookupIsInverse
  PROVE  /\ IsFiniteSet(DOMAIN clauses) /\ DOMAIN clauses \subseteq Nat /\ NumClauses \in Nat
         /\ NumClauses <= input.numClauses /\ NumClauses < SizeMax /\ TautologyFree
         /\ \A i \in DOMAIN clauses : LiteralsOf(i) # {}
         /\ \A l \in Literals : occurrences[l] = {i \in DOMAIN clauses : l \in LiteralsOf(i)}
<1>1. input \in Inputs /\ input \in Texts
  BY DEF PlainInv, ParserInv, ProgressInv
<1>2. /\ input.numClauses \in Nat /\ Len(input.lines) \in Nat
      /\ Len(input.lines) < SizeMax /\ SizeMax \in Nat
  BY <1>1, TextFacts, BlockedClauseSearchAssumption DEF BlockedClauseSearchAssumption
<1>3. \A i \in DOMAIN clauses :
        i \in Nat /\ i < input.numClauses /\ i < Len(input.lines) /\ PlainBag(clauses[i].literals)
  BY DEF PlainInv
<1>4. ASSUME NEW n \in Nat, DOMAIN clauses \subseteq 0 .. n - 1
      PROVE  IsFiniteSet(DOMAIN clauses) /\ NumClauses <= n
  <2>1. IsFiniteSet(0 .. n - 1) /\ Cardinality(0 .. n - 1) = n
    BY FS_Interval
  <2> QED BY <1>4, <2>1, FS_Subset DEF NumClauses
<1>5. DOMAIN clauses \subseteq 0 .. input.numClauses - 1 /\ DOMAIN clauses \subseteq 0 .. Len(input.lines) - 1
  BY <1>2, <1>3
<1>6. IsFiniteSet(DOMAIN clauses) /\ NumClauses <= input.numClauses /\ NumClauses <= Len(input.lines)
  BY <1>2, <1>4, <1>5
<1>7. NumClauses \in Nat
  BY <1>6, FS_CardinalityType DEF NumClauses
<1>8. NumClauses < SizeMax
  BY <1>2, <1>6, <1>7
<1>9. TautologyFree
  BY <1>3, LiteralFacts DEF TautologyFree, Tautology, LiteralsOf, PlainBag
<1>10. \A i \in DOMAIN clauses : LiteralsOf(i) # {}
  BY <1>3 DEF LiteralsOf, PlainBag
<1>11. \A l \in Literals : occurrences[l] = {i \in DOMAIN clauses : l \in LiteralsOf(i)}
  BY DEF LookupIsInverse, LiteralsOf
<1> QED BY <1>3, <1>6, <1>7, <1>8, <1>9, <1>10, <1>11

\* There are finitely many literals.
LEMMA LiteralsAreFinite == IsFiniteSet(Literals) /\ Cardinality(Literals) = 2 * NumVariables
<1>1. NumVariables \in Nat
  BY ProblemDefinitionAssumption
<1>2. /\ IsFiniteSet(-NumVariables .. NumVariables)
      /\ Cardinality(-NumVariables .. NumVariables) = 2 * NumVariables + 1
  <2>1. /\ IsFiniteSet(-NumVariables .. NumVariables)
        /\ Cardinality(-NumVariables .. NumVariables) =
             IF -NumVariables > NumVariables THEN 0 ELSE NumVariables - (-NumVariables) + 1
    BY <1>1, FS_Interval
  <2> QED BY <1>1, <2>1
<1>3. Literals = (-NumVariables .. NumVariables) \ {0} /\ 0 \in -NumVariables .. NumVariables
  BY <1>1 DEF Literals
<1>4. /\ IsFiniteSet((-NumVariables .. NumVariables) \ {0})
      /\ Cardinality((-NumVariables .. NumVariables) \ {0}) =
           Cardinality(-NumVariables .. NumVariables) - 1
  BY <1>2, <1>3, FS_RemoveElement
<1> QED BY <1>1, <1>2, <1>3, <1>4

\* The length of a clause is the number of its literals.
LEMMA LengthIsSize ==
  ASSUME PlainInv, NEW i \in DOMAIN clauses
  PROVE  /\ LengthOf(i) = Cardinality(LiteralsOf(i))
         /\ LengthOf(i) \in Nat /\ 1 <= LengthOf(i) /\ LengthOf(i) < SizeMax
<1>1. PlainBag(clauses[i].literals)
  BY DEF PlainInv
<1> DEFINE copies == UNION {{l} \X (1 .. clauses[i].literals[l]) : l \in LiteralsOf(i)}
           g == [l \in LiteralsOf(i) |-> <<l, 1>>]
<1>2. \A l \in LiteralsOf(i) : clauses[i].literals[l] = 1
  BY <1>1 DEF PlainBag, LiteralsOf
<1>3. copies = {<<l, 1>> : l \in LiteralsOf(i)}
  <2>1. 1 .. 1 = {1}
    OBVIOUS
  <2>2. \A l \in LiteralsOf(i) : {l} \X (1 .. clauses[i].literals[l]) = {<<l, 1>>}
    BY <1>2, <2>1
  <2> QED BY <2>2
<1> HIDE DEF copies
<1>4. g \in Bijection(LiteralsOf(i), copies)
  <2>1. g \in [LiteralsOf(i) -> copies] /\ \A c \in copies : \E l \in LiteralsOf(i) : g[l] = c
    BY <1>3
  <2>2. \A k, l \in LiteralsOf(i) : g[k] = g[l] => k = l
    OBVIOUS
  <2> QED BY <2>1, <2>2 DEF Bijection, Injection, Surjection, IsInjective
<1>5. ExistsBijection(LiteralsOf(i), copies)
  BY <1>4 DEF ExistsBijection
<1>6. IsFiniteSet(Literals) /\ Cardinality(Literals) = 2 * NumVariables
  BY LiteralsAreFinite
<1>7. /\ IsFiniteSet(LiteralsOf(i)) /\ Cardinality(LiteralsOf(i)) <= 2 * NumVariables
      /\ Cardinality(LiteralsOf(i)) \in Nat
  BY <1>6, LiteralsOfType, FS_Subset, FS_CardinalityType
<1>8. LengthOf(i) = Cardinality(LiteralsOf(i))
  BY <1>5, <1>7, FS_Bijection DEF LengthOf, copies
<1>9. Cardinality(LiteralsOf(i)) # 0
  <2>1. LiteralsOf(i) # {}
    BY <1>1 DEF PlainBag, LiteralsOf
  <2> QED BY <1>7, <2>1, FS_EmptySet
<1>10. 2 * NumVariables < SizeMax /\ SizeMax \in Nat /\ NumVariables \in Nat
  BY ProblemDefinitionAssumption, BlockedClauseSearchAssumption DEF BlockedClauseSearchAssumption
<1> QED BY <1>7, <1>8, <1>9, <1>10

\* The overlap of a clause is the number of clauses it clashes with.
LEMMA OverlapIsClashing ==
  ASSUME ParserInv, PlainInv, LookupIsInverse, NEW i \in DOMAIN clauses
  PROVE  /\ OverlapOf(i) = Cardinality(Clashing(i))
         /\ OverlapOf(i) \in Nat /\ OverlapOf(i) < SizeMax
         /\ OverlapOf(i) = 0 => Clashing(i) = {}
<1>1. /\ IsFiniteSet(DOMAIN clauses) /\ NumClauses \in Nat /\ NumClauses < SizeMax
      /\ \A l \in Literals : occurrences[l] = {j \in DOMAIN clauses : l \in LiteralsOf(j)}
  BY PlainClauses
<1>2. UNION {occurrences[-l] : l \in LiteralsOf(i)} = Clashing(i)
  <2>1. \A l \in LiteralsOf(i) :
          -l \in Literals /\ occurrences[-l] = {j \in DOMAIN clauses : -l \in LiteralsOf(j)}
    BY <1>1, LiteralsOfType, LiteralFacts
  <2>2. \A j \in DOMAIN clauses :
          LiteralsOf(j) \cap Negated(LiteralsOf(i)) # {} <=> \E l \in LiteralsOf(i) : -l \in LiteralsOf(j)
    BY DEF Negated
  <2> QED BY <2>1, <2>2 DEF Clashing
<1>3. Clashing(i) \in SUBSET DOMAIN clauses
  BY DEF Clashing
<1>4. IsFiniteSet(Clashing(i)) /\ Cardinality(Clashing(i)) <= NumClauses
  BY <1>1, <1>3, FS_Subset DEF NumClauses
<1>5. Cardinality(Clashing(i)) \in Nat /\ (Cardinality(Clashing(i)) = 0 => Clashing(i) = {})
  BY <1>4, FS_CardinalityType, FS_EmptySet
<1>6. OverlapOf(i) = Cardinality(Clashing(i))
  BY <1>2 DEF OverlapOf
<1>7. SizeMax \in Nat
  BY BlockedClauseSearchAssumption DEF BlockedClauseSearchAssumption
<1> QED BY <1>1, <1>4, <1>5, <1>6, <1>7
-----------------------------------------------------------------------------
(* The queue and the result.                                               *)

\* Each index of the sequence has its place in the queue, and only one.
LEMMA QueueFacts ==
  ASSUME ParserInv, PlainInv, LookupIsInverse, NEW c \in Commands, NEW s \in QueuesFor(c)
  PROVE  LET ids == IndexSequence(c.heuristic, RequestedFor(c), c.maxLength)
         IN /\ RequestedFor(c) \in Nat /\ Cardinality(ids) \in Nat
            /\ s \in [1 .. Cardinality(ids) -> ids]
            /\ \A p, q \in 1 .. Cardinality(ids) : s[p] = s[q] => p = q
            /\ \A i \in ids : \E p \in 1 .. Cardinality(ids) : s[p] = i
            /\ \A p, q \in 1 .. Cardinality(ids) : p < q => QueuedBefore(c.heuristic, s[p], s[q])
            /\ c.maxLength = NotGiven => Cardinality(ids) =
                 IF c.heuristic = "Sequential" THEN RequestedFor(c) ELSE NumClauses
<1> DEFINE ids == IndexSequence(c.heuristic, RequestedFor(c), c.maxLength)
           n == Cardinality(ids)
<1>1. IsFiniteSet(DOMAIN clauses) /\ NumClauses \in Nat
  BY PlainClauses
<1>2. RequestedFor(c) \in Nat
  <2>1. c.requested \in Nat \cup {NotGiven}
    BY BlockedClauseSearchAssumption DEF BlockedClauseSearchAssumption
  <2>2. NumCandidateClauses(c) \in Nat
    BY <1>1, <2>1, MinOfTwo DEF NumCandidateClauses
  <2>3. input.numClauses \in Nat
    BY TextFacts DEF ParserInv, ProgressInv
  <2> QED BY <2>2, <2>3 DEF RequestedFor
<1>3. /\ n \in Nat
      /\ c.maxLength = NotGiven
           => n = IF c.heuristic = "Sequential" THEN RequestedFor(c) ELSE NumClauses
  BY <1>1, <1>2, IndexSequenceFacts
<1>4. IsFiniteSet(ids)
  <2>1. ids \subseteq 0 .. (IF c.heuristic = "Sequential" THEN RequestedFor(c) ELSE NumClauses) - 1
    BY DEF IndexSequence
  <2>2. IsFiniteSet(0 .. (IF c.heuristic = "Sequential" THEN RequestedFor(c) ELSE NumClauses) - 1)
    BY <1>1, <1>2, FS_Interval
  <2> QED BY <2>1, <2>2, FS_Subset
<1>5. /\ s \in [1 .. n -> ids] /\ (\A p, q \in 1 .. n : p # q => s[p] # s[q])
      /\ \A p, q \in DOMAIN s : p < q => QueuedBefore(c.heuristic, s[p], s[q])
  BY DEF QueuesFor, SetToSeqs
<1> HIDE DEF ids, n
<1>6. ASSUME NEW i \in ids
      PROVE  \E p \in 1 .. n : s[p] = i
  <2> DEFINE image == {s[p] : p \in 1 .. n}
  <2>1. s \in Bijection(1 .. n, image)
    BY <1>5 DEF Bijection, Injection, Surjection, IsInjective
  <2>2. ExistsBijection(1 .. n, image)
    BY <2>1 DEF ExistsBijection
  <2>3. IsFiniteSet(1 .. n) /\ Cardinality(1 .. n) = n
    BY <1>3, FS_Interval
  <2>4. Cardinality(image) = n
    BY <2>2, <2>3, FS_Bijection
  <2>5. image \in SUBSET ids
    BY <1>5
  <2> HIDE DEF image
  <2>6. image = ids
    BY <1>4, <2>4, <2>5, FS_Subset DEF n
  <2> QED BY <2>6 DEF image
<1> QED BY <1>2, <1>3, <1>5, <1>6 DEF ids, n

\* What the selector and the eliminators look at.
LEMMA SelectionUnchanged ==
  ASSUME UNCHANGED <<clauses, occurrences, input>>, NEW c
  PROVE  QueuesFor(c)' = QueuesFor(c) /\ WantedFor(c)' = WantedFor(c) /\ NumClauses' = NumClauses
<1>1. \A i : LiteralsOf(i)' = LiteralsOf(i)
  BY DEF LiteralsOf
<1>2. \A i : LengthOf(i)' = LengthOf(i) /\ OverlapOf(i)' = OverlapOf(i)
  BY <1>1 DEF LengthOf, OverlapOf
<1>3. \A h, i : HeuristicValue(h, i)' = HeuristicValue(h, i)
  BY <1>2 DEF HeuristicValue
<1>4. \A h, i, j : QueuedBefore(h, i, j)' <=> QueuedBefore(h, i, j)
  BY <1>3 DEF QueuedBefore
<1>5. NumClauses' = NumClauses
  BY DEF NumClauses
<1>6. RequestedFor(c)' = RequestedFor(c) /\ NumCandidateClauses(c)' = NumCandidateClauses(c)
  BY <1>5 DEF RequestedFor, NumCandidateClauses
<1>7. \A h, requested, n : IndexSequence(h, requested, n)' = IndexSequence(h, requested, n)
  BY <1>2, <1>5 DEF IndexSequence
<1> QED BY <1>4, <1>5, <1>6, <1>7 DEF QueuesFor, WantedFor

LEMMA FindingUnchanged ==
  ASSUME UNCHANGED <<clauses, occurrences, command, indexed>>, NEW i
  PROVE  IsFound(i)' <=> IsFound(i)
<1>1. \A j : LiteralsOf(j)' = LiteralsOf(j)
  BY DEF LiteralsOf
<1>2. \A lits : EnvironmentOf(lits)' = EnvironmentOf(lits)
  BY <1>1 DEF EnvironmentOf
<1>3. BlockingCandidates(i)' = BlockingCandidates(i)
  BY <1>1 DEF BlockingCandidates
<1>4. \A lits, j : ConditionHolds(i, lits, j)' <=> ConditionHolds(i, lits, j)
  BY <1>1 DEF ConditionHolds, LiteralBlockedCondition, SetBlockedCondition
<1>5. \A lits : Blocks(i, lits)' <=> Blocks(i, lits)
  BY <1>2, <1>4 DEF Blocks
<1> QED BY <1>3, <1>5 DEF IsFound

LEMMA ResultInitially == ProgramInit => ResultInv
<1> SUFFICES ASSUME ProgramInit PROVE ResultInv
  OBVIOUS
<1>1. stage = "Parse" /\ considered = 0 /\ found = {}
  BY DEF ProgramInit
<1>2. 1 .. considered = {}
  BY <1>1
<1> QED BY <1>1, <1>2 DEF ResultInv

\* Before the first check nothing is found.
LEMMA NothingConsidered ==
  ASSUME stage' \in {"Parse", "Collect", "Search", "Failed"}, considered' = 0, found' = {},
         stage' \in {"Collect", "Search"} => queue' \in QueuesFor(command)' /\ wanted' = WantedFor(command)',
         stage' = "Search" => Len(candidates') = wanted'
  PROVE  ResultInv'
<1>1. 1 .. considered' = {}
  OBVIOUS
<1> QED BY <1>1 DEF ResultInv

\* A step that leaves the search alone.
LEMMA ResultKept ==
  ASSUME ResultInv, UNCHANGED <<clauses, occurrences, input, command, indexed, queue, wanted,
                                candidates, considered, found>>,
         stage' = stage \/ stage' = "Failed" \/ (stage = "Search" /\ stage' = "Done" /\
           (considered = Len(candidates) \/ Cardinality(found) >= MatchesToSearchFor))
  PROVE  ResultInv'
<1>1. /\ \A c : QueuesFor(c)' = QueuesFor(c) /\ WantedFor(c)' = WantedFor(c)
      /\ NumClauses' = NumClauses /\ \A i : IsFound(i)' <=> IsFound(i)
  BY SelectionUnchanged, FindingUnchanged
<1>2. MatchesToSearchFor' = MatchesToSearchFor
  BY <1>1 DEF MatchesToSearchFor
<1> QED BY <1>1, <1>2 DEF ResultInv

LEMMA ConfigureResult ==
  ASSUME ResultInv, StageInv, NEW c \in Commands, Configure(c)
  PROVE  ResultInv'
<1>1. /\ stage = "Parse" /\ stage' = "Collect" /\ command' = c
      /\ UNCHANGED <<clauses, occurrences, input, considered, found>>
      /\ queue' \in QueuesFor(c)
      /\ numGeneratable' =
           Generatable(IndexSequence(c.heuristic, RequestedFor(c), c.maxLength), RequestedFor(c))
      /\ wanted' = IF c.tool = "setBlocked" THEN numGeneratable' ELSE NumCandidateClauses(c)
  BY DEF Configure, InitializeCandidateSequence, QueuesFor, allVars, vars, parserVars
<1>2. wanted' = WantedFor(c)
  BY <1>1 DEF WantedFor
<1>3. QueuesFor(c)' = QueuesFor(c) /\ WantedFor(c)' = WantedFor(c)
  BY <1>1, SelectionUnchanged
<1>4. queue' \in QueuesFor(command)' /\ wanted' = WantedFor(command)'
  BY <1>1, <1>2, <1>3 DEF QueuesFor, WantedFor
<1> QED BY <1>1, <1>4, NothingConsidered DEF ResultInv, StageInv

LEMMA CheckCandidateResult ==
  ASSUME ResultInv, SearchInv, CheckCandidate
  PROVE  ResultInv'
<1> DEFINE i == candidates[considered + 1]
<1>1. /\ stage = "Search" /\ stage' = "Search" /\ considered' = considered + 1
      /\ considered < Len(candidates)
      /\ found' = IF IsFound(i) THEN found \cup {i} ELSE found
      /\ UNCHANGED <<clauses, occurrences, input, command, indexed, queue, wanted, candidates>>
  BY DEF CheckCandidate, SearchGoesOn, NextConsidered, allVars, vars, parserVars, selectorVars
<1>2. /\ \A c : QueuesFor(c)' = QueuesFor(c) /\ WantedFor(c)' = WantedFor(c)
      /\ \A j : IsFound(j)' <=> IsFound(j)
  BY <1>1, SelectionUnchanged, FindingUnchanged
<1>3. considered \in Nat
  BY CollectedFacts DEF SearchInv
<1>4. 1 .. considered + 1 = (1 .. considered) \cup {considered + 1}
  BY <1>3
<1>5. found = {candidates[p] : p \in {q \in 1 .. considered : IsFound(candidates[q])}}
  BY DEF ResultInv
<1>6. found' = {candidates[p] : p \in {q \in 1 .. considered + 1 : IsFound(candidates[q])}}
  BY <1>1, <1>4, <1>5
<1> QED BY <1>1, <1>2, <1>6 DEF ResultInv

LEMMA ResultStep ==
  ASSUME StageInv, SearchInv, ResultInv, [ProgramNext]_programVars
  PROVE  ResultInv'
<1>1. CASE ParseText
  <2>1. stage = "Parse" /\ UNCHANGED searchVars
    BY <1>1 DEF ParseText
  <2>2. stage' = "Parse" /\ considered' = 0 /\ found' = {}
    BY <2>1 DEF ResultInv, StageInv, searchVars
  <2> QED BY <2>2, NothingConsidered
<1>2. ASSUME NEW c \in Commands, Configure(c) PROVE ResultInv'
  BY <1>2, ConfigureResult
<1>3. CASE CollectCandidate
  <2>1. /\ stage = "Collect" /\ UNCHANGED <<clauses, occurrences, input, stage, command, wanted, queue,
                                            considered, found>>
    BY <1>3 DEF CollectCandidate, SelectNextCandidate, allVars, vars, parserVars
  <2>2. \A c : QueuesFor(c)' = QueuesFor(c) /\ WantedFor(c)' = WantedFor(c)
    BY <2>1, SelectionUnchanged
  <2> QED BY <2>1, <2>2, NothingConsidered DEF ResultInv, StageInv
<1>4. CASE UseOccurrences \/ InitializeAvlTree
  <2>1. /\ stage = "Collect" /\ stage' = "Search" /\ Len(candidates) >= wanted
        /\ UNCHANGED <<clauses, occurrences, input, command, wanted, queue, candidates, considered, found>>
    BY <1>4 DEF UseOccurrences, InitializeAvlTree, CollectedAll, allVars, vars, parserVars, selectorVars
  <2>2. \A c : QueuesFor(c)' = QueuesFor(c) /\ WantedFor(c)' = WantedFor(c)
    BY <2>1, SelectionUnchanged
  <2>3. Len(candidates) = wanted
    <3> DEFINE m == Len(candidates)
               n == Len(queue)
    <3>1. taken \in Nat /\ n \in Nat /\ m \in Nat
      BY CollectedFacts
    <3>2. wanted \in Nat /\ wanted - m \in 0 .. n - taken /\ m >= wanted
      BY <2>1 DEF SearchInv
    <3> HIDE DEF m, n
    <3>3. m = wanted
      BY <3>1, <3>2
    <3> QED BY <3>3 DEF m
  <2> QED BY <2>1, <2>2, <2>3, NothingConsidered DEF ResultInv, StageInv
<1>5. CASE CheckCandidate
  BY <1>5, CheckCandidateResult
<1>6. CASE RefuseText \/ AvlTreeFails \/ CheckAborts
  BY <1>6, ResultKept DEF RefuseText, AvlTreeFails, CheckAborts, allVars, vars, parserVars, selectorVars
<1>7. CASE EndSearch
  <2>1. considered = Len(candidates) \/ Cardinality(found) >= MatchesToSearchFor
    <3> DEFINE m == Len(candidates)
    <3>1. m \in Nat /\ considered \in 0 .. m
      BY CollectedFacts DEF SearchInv
    <3>2. ~(considered < m /\ Cardinality(found) < MatchesToSearchFor)
      BY <1>7 DEF EndSearch, SearchGoesOn
    <3>3. IsFiniteSet(found)
      <4>1. found \in SUBSET DOMAIN clauses /\ IsFiniteSet(DOMAIN clauses)
        BY DEF SearchInv
      <4> QED BY <4>1, FS_Subset
    <3>4. Cardinality(found) \in Nat
      BY <3>3, FS_CardinalityType
    <3>5. MatchesToSearchFor \in Nat
      <4>1. NumClauses \in Nat
        BY FS_CardinalityType DEF SearchInv, NumClauses
      <4> QED BY <3>1, <4>1, MinOfTwo DEF MatchesToSearchFor
    <3> HIDE DEF m
    <3>6. considered = m \/ Cardinality(found) >= MatchesToSearchFor
      BY <3>1, <3>2, <3>4, <3>5
    <3> QED BY <3>6 DEF m
  <2> QED BY <1>7, <2>1, ResultKept DEF EndSearch, allVars, vars, parserVars, selectorVars
<1>8. CASE UNCHANGED programVars
  BY <1>8, ResultKept DEF programVars, searchVars, allVars, vars, parserVars, selectorVars
<1> QED BY <1>1, <1>2, <1>3, <1>4, <1>5, <1>6, <1>7, <1>8 DEF ProgramNext

\* Everything the search is known to keep.
SelectionInv == ProgramInv /\ SearchInv /\ LookupIsInverse /\ PlainInv /\ ResultInv

LEMMA SelectionInvariance == ProgramSpec => []SelectionInv
<1>1. ProgramInit => SelectionInv
  BY ProgramInvInitially, SearchInitially, ExactInitially, PlainInitially, ResultInitially
  DEF SelectionInv, ProgramInit
<1>2. SelectionInv /\ [ProgramNext]_programVars => SelectionInv'
  <2> SUFFICES ASSUME SelectionInv, [ProgramNext]_programVars PROVE SelectionInv'
    OBVIOUS
  <2>1. ParserInv /\ StageInv /\ SearchInv /\ LookupIsInverse /\ PlainInv /\ ResultInv
    BY DEF SelectionInv, ProgramInv
  <2>2. ProgramInv' /\ SearchInv' /\ ResultInv'
    BY <2>1, ProgramStepInv, SearchStep, ResultStep DEF SelectionInv
  <2>3. CASE ParserStep
    BY <2>1, <2>2, <2>3, ParserStepExact, PlainStep DEF SelectionInv
  <2>4. CASE UNCHANGED allVars
    <3>1. UNCHANGED <<clauses, occurrences, values, phase, input, configuration>>
      BY <2>4 DEF allVars, vars, parserVars
    <3>2. LookupIsInverse' /\ PlainInv'
      BY <2>1, <3>1, ExactUnchanged DEF PlainInv
    <3> QED BY <2>2, <3>2 DEF SelectionInv
  <2> QED BY <2>3, <2>4 DEF ProgramNext, ParseText, RefuseText, Configure, CollectCandidate,
    UseOccurrences, InitializeAvlTree, AvlTreeFails, CheckCandidate, CheckAborts, EndSearch, programVars
<1> QED BY <1>1, <1>2, PTL DEF ProgramSpec
-----------------------------------------------------------------------------
(* The candidates.                                                         *)

\* The candidates are different indices of the sequence, and each of them is queued
\* before each index that is not chosen.
LEMMA ChosenFacts ==
  ASSUME SelectionInv, stage \in {"Search", "Done"}
  PROVE  LET ids == IndexSequence(command.heuristic, RequestedFor(command), command.maxLength)
             chosen == ToSet(candidates)
         IN /\ command \in Commands /\ wanted = WantedFor(command)
            /\ RequestedFor(command) \in Nat
            /\ Len(candidates) \in Nat /\ Len(candidates) = wanted
            /\ chosen = {candidates[p] : p \in 1 .. Len(candidates)}
            /\ chosen \subseteq ids /\ Cardinality(chosen) = Len(candidates)
            /\ \A i \in chosen, j \in ids \ chosen : QueuedBefore(command.heuristic, i, j)
            /\ command.maxLength = NotGiven => Cardinality(ids) =
                 IF command.heuristic = "Sequential" THEN RequestedFor(command) ELSE NumClauses
<1> DEFINE ids == IndexSequence(command.heuristic, RequestedFor(command), command.maxLength)
           n == Cardinality(ids)
           chosen == ToSet(candidates)
           m == Len(candidates)
<1>1. /\ ParserInv /\ StageInv /\ SearchInv /\ PlainInv /\ LookupIsInverse /\ ResultInv
      /\ command \in Commands /\ queue \in QueuesFor(command)
      /\ wanted = WantedFor(command) /\ m = wanted
  BY DEF SelectionInv, ProgramInv, StageInv, ResultInv
<1>2. /\ RequestedFor(command) \in Nat /\ n \in Nat
      /\ queue \in [1 .. n -> ids]
      /\ \A p, q \in 1 .. n : queue[p] = queue[q] => p = q
      /\ \A i \in ids : \E p \in 1 .. n : queue[p] = i
      /\ \A p, q \in 1 .. n : p < q => QueuedBefore(command.heuristic, queue[p], queue[q])
      /\ command.maxLength = NotGiven
           => n = IF command.heuristic = "Sequential" THEN RequestedFor(command) ELSE NumClauses
  BY <1>1, QueueFacts
<1>3. /\ m \in Nat /\ candidates \in Seq(Nat) /\ m <= Len(queue)
      /\ \A p \in 1 .. m : candidates[p] = queue[p]
  BY <1>1, CollectedFacts
<1>4. Len(queue) = n
  <2>1. queue \in Seq(Nat)
    BY <1>1 DEF SearchInv
  <2>2. DOMAIN queue = 1 .. Len(queue) /\ Len(queue) \in Nat
    BY <2>1, LenProperties
  <2>3. 1 .. Len(queue) = 1 .. n
    BY <1>2, <2>2
  <2> QED BY <1>2, <2>2, <2>3
<1> HIDE DEF ids, n
<1>5. chosen = {candidates[p] : p \in 1 .. m}
  <2>1. DOMAIN candidates = 1 .. m
    BY <1>3, LenProperties
  <2> QED BY <2>1 DEF ToSet
<1>6. \A p \in 1 .. m : p \in 1 .. n /\ candidates[p] = queue[p]
  BY <1>2, <1>3, <1>4
<1>7. chosen \subseteq ids
  BY <1>2, <1>5, <1>6
<1>8. Cardinality(chosen) = m
  <2> DEFINE g == [p \in 1 .. m |-> candidates[p]]
  <2>1. g \in [1 .. m -> chosen] /\ \A i \in chosen : \E p \in 1 .. m : g[p] = i
    BY <1>5
  <2>2. \A p, q \in 1 .. m : g[p] = g[q] => p = q
    BY <1>2, <1>6
  <2>3. ExistsBijection(1 .. m, chosen)
    <3> HIDE DEF g
    <3> QED BY <2>1, <2>2 DEF ExistsBijection, Bijection, Injection, Surjection, IsInjective
  <2>4. m \in Nat
    BY <1>3
  <2> HIDE DEF chosen, m
  <2>5. IsFiniteSet(1 .. m) /\ Cardinality(1 .. m) = m
    BY <2>4, FS_Interval
  <2> QED BY <2>3, <2>5, FS_Bijection
<1>9. ASSUME NEW i \in chosen, NEW j \in ids \ chosen
      PROVE  QueuedBefore(command.heuristic, i, j)
  <2>1. PICK p \in 1 .. m : i = candidates[p]
    BY <1>5
  <2>2. PICK q \in 1 .. n : queue[q] = j
    BY <1>2
  <2>3. q \notin 1 .. m
    BY <1>5, <1>6, <2>2
  <2>4. p < q
    BY <1>2, <1>3, <2>3
  <2> QED BY <1>2, <1>6, <2>1, <2>2, <2>4
<1> QED BY <1>1, <1>2, <1>3, <1>5, <1>7, <1>8, <1>9 DEF ids, n

\* A clause queued before another one is not the worse choice.
LEMMA BeforeIsAsGood ==
  ASSUME ParserInv, PlainInv, LookupIsInverse, command \in Commands,
         NEW i \in DOMAIN clauses, NEW j \in DOMAIN clauses,
         QueuedBefore(command.heuristic, i, j)
  PROVE  AsGoodAs(i, j)
<1>1. command.heuristic \in SelectionHeuristics
  BY BlockedClauseSearchAssumption DEF BlockedClauseSearchAssumption
<1>2. /\ LengthOf(i) = Cardinality(LiteralsOf(i)) /\ LengthOf(i) \in Nat
      /\ LengthOf(j) = Cardinality(LiteralsOf(j)) /\ LengthOf(j) \in Nat
  BY LengthIsSize
<1>3. /\ OverlapOf(i) = Cardinality(Clashing(i)) /\ OverlapOf(i) \in Nat
      /\ OverlapOf(j) = Cardinality(Clashing(j)) /\ OverlapOf(j) \in Nat
  BY OverlapIsClashing
<1>4. CASE command.heuristic \in {"Sequential", "Random"}
  BY <1>4 DEF QueuedBefore, AsGoodAs
<1>5. CASE command.heuristic = "MinimumClauseOverlap"
  <2>1. OverlapOf(i) <= OverlapOf(j)
    BY <1>3, <1>5 DEF QueuedBefore, HeuristicValue, SortedDescendingly
  <2> QED BY <1>3, <1>5, <2>1 DEF AsGoodAs
<1>6. CASE command.heuristic = "MaximumClauseOverlap"
  <2>1. OverlapOf(i) >= OverlapOf(j)
    BY <1>3, <1>6 DEF QueuedBefore, HeuristicValue, SortedDescendingly
  <2> QED BY <1>3, <1>6, <2>1 DEF AsGoodAs
<1>7. CASE command.heuristic = "MinimumClauseLength"
  <2>1. LengthOf(i) <= LengthOf(j)
    BY <1>2, <1>7 DEF QueuedBefore, HeuristicValue, SortedDescendingly
  <2> QED BY <1>2, <1>7, <2>1 DEF AsGoodAs
<1>8. CASE command.heuristic = "MaximumClauseLength"
  <2>1. LengthOf(i) >= LengthOf(j)
    BY <1>2, <1>8 DEF QueuedBefore, HeuristicValue, SortedDescendingly
  <2> QED BY <1>2, <1>8, <2>1 DEF AsGoodAs
<1> QED BY <1>1, <1>4, <1>5, <1>6, <1>7, <1>8 DEF SelectionHeuristics

\* Where the order is by length or overlap, an index without a clause is queued behind
\* the clauses, except that it ties with those that clash with none.
LEMMA MissingClauseIsLast ==
  ASSUME ParserInv, PlainInv, LookupIsInverse, command \in Commands,
         NEW i, i \notin DOMAIN clauses, NEW j \in DOMAIN clauses,
         QueuedBefore(command.heuristic, i, j)
  PROVE  \/ command.heuristic \in {"Sequential", "Random"}
         \/ command.heuristic = "MaximumClauseOverlap" /\ Clashing(j) = {}
<1>1. command.heuristic \in SelectionHeuristics /\ SizeMax \in Nat
  BY BlockedClauseSearchAssumption DEF BlockedClauseSearchAssumption
<1>2. LengthOf(j) \in Nat /\ 1 <= LengthOf(j) /\ LengthOf(j) < SizeMax
  BY LengthIsSize
<1>3. OverlapOf(j) \in Nat /\ OverlapOf(j) < SizeMax /\ (OverlapOf(j) = 0 => Clashing(j) = {})
  BY OverlapIsClashing
<1>4. command.heuristic # "MinimumClauseOverlap"
  <2> SUFFICES ASSUME command.heuristic = "MinimumClauseOverlap" PROVE FALSE
    OBVIOUS
  <2>1. HeuristicValue(command.heuristic, i) = SizeMax /\ HeuristicValue(command.heuristic, j) = OverlapOf(j)
    BY DEF HeuristicValue, SortedDescendingly
  <2> QED BY <1>1, <1>3, <2>1 DEF QueuedBefore, SortedDescendingly
<1>5. command.heuristic # "MinimumClauseLength"
  <2> SUFFICES ASSUME command.heuristic = "MinimumClauseLength" PROVE FALSE
    OBVIOUS
  <2>1. HeuristicValue(command.heuristic, i) = SizeMax /\ HeuristicValue(command.heuristic, j) = LengthOf(j)
    BY DEF HeuristicValue, SortedDescendingly
  <2> QED BY <1>1, <1>2, <2>1 DEF QueuedBefore, SortedDescendingly
<1>6. command.heuristic # "MaximumClauseLength"
  <2> SUFFICES ASSUME command.heuristic = "MaximumClauseLength" PROVE FALSE
    OBVIOUS
  <2>1. HeuristicValue(command.heuristic, i) = 0 /\ HeuristicValue(command.heuristic, j) = LengthOf(j)
    BY DEF HeuristicValue, SortedDescendingly
  <2> QED BY <1>2, <2>1 DEF QueuedBefore, SortedDescendingly
<1>7. CASE command.heuristic = "MaximumClauseOverlap"
  <2>1. HeuristicValue(command.heuristic, i) = 0 /\ HeuristicValue(command.heuristic, j) = OverlapOf(j)
    BY <1>7 DEF HeuristicValue, SortedDescendingly
  <2>2. OverlapOf(j) = 0
    BY <1>3, <1>7, <2>1 DEF QueuedBefore, SortedDescendingly
  <2> QED BY <1>3, <1>7, <2>2
<1> QED BY <1>1, <1>4, <1>5, <1>6, <1>7 DEF SelectionHeuristics

\* A clause that is passed over although it is short enough is queued too, or lies behind
\* the indices of a sequential search.
LEMMA PassedOverIsQueued ==
  ASSUME ParserInv, PlainInv, LookupIsInverse, command \in Commands, RequestedFor(command) \in Nat,
         NEW j \in DOMAIN clauses, j < NumClauses, ShortEnough(j)
  PROVE  LET ids == IndexSequence(command.heuristic, RequestedFor(command), command.maxLength)
         IN j \in ids \/ (command.heuristic = "Sequential" /\ \A i \in ids : i < j)
<1>1. j \in Nat /\ NumClauses \in Nat
  BY PlainClauses
<1>2. command.maxLength = NotGiven \/ LengthOf(j) <= command.maxLength
  BY LengthIsSize DEF ShortEnough
<1>3. CASE command.heuristic # "Sequential" \/ j < RequestedFor(command)
  BY <1>1, <1>2, <1>3 DEF IndexSequence
<1>4. CASE command.heuristic = "Sequential" /\ RequestedFor(command) <= j
  BY <1>1, <1>4 DEF IndexSequence
<1> QED BY <1>1, <1>3, <1>4

\* The candidates are different clauses, short enough, and none that is passed over would
\* have been the better choice (generateIndexSequence and the sorts of the selector), for
\* texts whose lines repeat no literal.
THEOREM CandidatesAreTheBest == ProgramSpec => []CandidatesAreBest
<1>1. SelectionInv => CandidatesAreBest
  <2> SUFFICES ASSUME SelectionInv, stage \in {"Search", "Done"} PROVE CandidatesAreBest
    BY DEF CandidatesAreBest
  <2> DEFINE ids == IndexSequence(command.heuristic, RequestedFor(command), command.maxLength)
             chosen == ToSet(candidates)
             passedOver == {j \in DOMAIN clauses \ chosen : j < NumClauses /\ ShortEnough(j)}
  <2>1. ParserInv /\ PlainInv /\ LookupIsInverse
    BY DEF SelectionInv, ProgramInv
  <2>2. /\ command \in Commands /\ RequestedFor(command) \in Nat
        /\ chosen \subseteq ids /\ Cardinality(chosen) = Len(candidates)
        /\ \A i \in chosen, j \in ids \ chosen : QueuedBefore(command.heuristic, i, j)
    BY ChosenFacts
  <2> HIDE DEF ids, chosen
  <2>3. \A j \in passedOver : j \in ids \ chosen \/ (command.heuristic = "Sequential" /\ \A i \in ids : i < j)
    BY <2>1, <2>2, PassedOverIsQueued DEF ids
  <2>4. \A i \in chosen \cap DOMAIN clauses : ShortEnough(i)
    <3>1. \A i \in chosen \cap DOMAIN clauses :
            command.maxLength = NotGiven \/ LengthOf(i) <= command.maxLength
      BY <2>2 DEF ids, IndexSequence
    <3> QED BY <2>1, <3>1, LengthIsSize DEF ShortEnough
  <2>5. ASSUME NEW i \in chosen \cap DOMAIN clauses, NEW j \in passedOver
        PROVE  AsGoodAs(i, j)
    <3>1. CASE j \in ids \ chosen
      BY <2>1, <2>2, <3>1, BeforeIsAsGood
    <3>2. CASE command.heuristic = "Sequential" /\ i < j
      BY <3>2 DEF AsGoodAs
    <3> QED BY <2>2, <2>3, <3>1, <3>2
  <2>6. ASSUME NEW i \in chosen \ DOMAIN clauses, NEW j \in passedOver
        PROVE  \/ command.heuristic \in {"Sequential", "Random"}
               \/ command.heuristic = "MaximumClauseOverlap" /\ Clashing(j) = {}
    <3>1. CASE j \in ids \ chosen
      BY <2>1, <2>2, <3>1, MissingClauseIsLast
    <3> QED BY <2>3, <3>1
  <2> QED BY <2>2, <2>4, <2>5, <2>6 DEF CandidatesAreBest, chosen
<1> QED BY <1>1, SelectionInvariance, PTL
-----------------------------------------------------------------------------
(* The result.                                                             *)

\* Where the lookup knows all clauses it finds the resolution environment and no more.
LEMMA EnvironmentExact ==
  ASSUME ParserInv, PlainInv, LookupIsInverse, LookupComplete, NEW lits \in SUBSET Literals
  PROVE  EnvironmentOf(lits) = ResolutionEnvironment(lits)
<1>1. CASE command.lookup = "avl"
  BY <1>1 DEF EnvironmentOf, LookupComplete, ResolutionEnvironment
<1>2. CASE command.lookup # "avl"
  <2>1. \A l \in lits : -l \in Literals /\ occurrences[-l] = {j \in DOMAIN clauses : -l \in LiteralsOf(j)}
    BY PlainClauses, LiteralFacts
  <2>2. \A j \in DOMAIN clauses :
          LiteralsOf(j) \cap Negated(lits) # {} <=> \E l \in lits : -l \in LiteralsOf(j)
    BY DEF Negated
  <2> QED BY <1>2, <2>1, <2>2 DEF EnvironmentOf, ResolutionEnvironment
<1> QED BY <1>1, <1>2

\* Where no clause is a tautology, the condition misses no tautological resolvent.
LEMMA TautologyMakesCondition ==
  ASSUME TautologyFree, NEW i \in DOMAIN clauses, NEW j \in DOMAIN clauses,
         NEW lits \in SUBSET LiteralsOf(i),
         Tautology((LiteralsOf(i) \ lits) \cup Negated(lits) \cup LiteralsOf(j))
  PROVE  SetBlockedCondition(i, lits, j)
<1> SUFFICES ASSUME \A k \in LiteralsOf(j) : k \notin lits /\ (-k \in lits \/ -k \notin LiteralsOf(i))
             PROVE  FALSE
  BY DEF SetBlockedCondition
<1>1. LiteralsOf(i) \subseteq Literals /\ LiteralsOf(j) \subseteq Literals
  BY LiteralsOfType
<1>2. \A k \in Literals : k \in Int /\ -k \in Literals /\ -(-k) = k
  BY LiteralFacts DEF Literals
<1>3. /\ \A k \in LiteralsOf(i) : -k \notin LiteralsOf(i)
      /\ \A k \in LiteralsOf(j) : -k \notin LiteralsOf(j)
  BY DEF TautologyFree, Tautology
<1>4. PICK k \in (LiteralsOf(i) \ lits) \cup Negated(lits) \cup LiteralsOf(j) :
        -k \in (LiteralsOf(i) \ lits) \cup Negated(lits) \cup LiteralsOf(j)
  BY DEF Tautology
<1>5. \A h \in Negated(lits) : -h \in lits /\ h \in Literals
  BY <1>1, <1>2 DEF Negated
<1>6. k \in Literals /\ -k \in Literals /\ -(-k) = k
  BY <1>1, <1>2, <1>4, <1>5
<1>7. CASE k \in LiteralsOf(i) \ lits
  BY <1>1, <1>3, <1>4, <1>5, <1>6, <1>7
<1>8. CASE k \in Negated(lits)
  BY <1>1, <1>3, <1>4, <1>5, <1>6, <1>8
<1>9. CASE k \in LiteralsOf(j)
  BY <1>1, <1>3, <1>4, <1>5, <1>6, <1>9
<1> QED BY <1>4, <1>7, <1>8, <1>9

\* What a check of a blocking set or a blocking literal answers.
LEMMA ChecksAreExact ==
  ASSUME ParserInv, PlainInv, LookupIsInverse, LookupComplete,
         NEW i \in DOMAIN clauses, NEW lits \in SUBSET LiteralsOf(i), lits # {},
         command.tool = "blocked" => \E l \in LiteralsOf(i) : lits = {l}
  PROVE  Blocks(i, lits) <=> BlockedBySet(i, lits) /\ ResolutionEnvironment(lits) # {}
<1>1. TautologyFree
  BY PlainClauses
<1>2. EnvironmentOf(lits) = ResolutionEnvironment(lits)
  BY EnvironmentExact, LiteralsOfType
<1>3. ASSUME NEW j \in ResolutionEnvironment(lits)
      PROVE  ConditionHolds(i, lits, j)
               <=> Tautology((LiteralsOf(i) \ lits) \cup Negated(lits) \cup LiteralsOf(j))
  <2>1. j \in DOMAIN clauses /\ (\A k \in LiteralsOf(j) : -k \notin LiteralsOf(j))
    BY <1>1 DEF ResolutionEnvironment, TautologyFree, Tautology
  <2>2. SetBlockedCondition(i, lits, j)
          <=> Tautology((LiteralsOf(i) \ lits) \cup Negated(lits) \cup LiteralsOf(j))
    BY <1>1, <2>1, ConditionMakesTautology, TautologyMakesCondition
  <2>3. CASE command.tool = "blocked"
    <3>1. PICK l \in LiteralsOf(i) : lits = {l}
      BY <2>3
    <3>2. l \in Int /\ \A k \in LiteralsOf(j) : k \in Int
      BY LiteralsOfType, LiteralFacts
    <3>3. -l \in LiteralsOf(j)
      BY <3>1 DEF ResolutionEnvironment, Negated
    <3>4. l \notin LiteralsOf(j)
      BY <2>1, <3>3
    <3>5. \A k \in LiteralsOf(j) : (k # -l <=> -k # l)
      BY <3>2
    <3>6. LiteralBlockedCondition(i, l, j) <=> SetBlockedCondition(i, lits, j)
      BY <3>1, <3>4, <3>5 DEF LiteralBlockedCondition, SetBlockedCondition
    <3> QED BY <2>1, <2>2, <2>3, <3>1, <3>6 DEF ConditionHolds
  <2> QED BY <2>1, <2>2, <2>3 DEF ConditionHolds
<1> QED BY <1>2, <1>3 DEF Blocks, BlockedBySet

\* The sets that are tried are all that the options allow.
LEMMA CandidatesAreAll ==
  ASSUME ParserInv, PlainInv, LookupIsInverse, command \in Commands, NEW i \in DOMAIN clauses,
         NEW lits \in SUBSET LiteralsOf(i), lits # {}
  PROVE  lits \in BlockingCandidates(i) <=>
           /\ command.tool = "blocked" => Cardinality(lits) = 1
           /\ command.sizes.restricted =>
                Cardinality(lits) \in command.sizes.min .. command.sizes.max /\ command.sizes.min > 0
           /\ command.tool = "setBlocked" => \A l \in lits : ResolutionEnvironment({l}) # {}
<1>1. /\ command.tool \in {"setBlocked", "blocked"}
      /\ command.sizes.min \in Nat /\ command.sizes.max \in Nat
      /\ command.tool = "blocked" => ~command.sizes.restricted
  BY BlockedClauseSearchAssumption DEF BlockedClauseSearchAssumption, Tools, SizeRestrictions
<1>2. LiteralsOf(i) \in SUBSET Literals /\ IsFiniteSet(LiteralsOf(i)) /\ IsFiniteSet(lits)
  BY LiteralsAreFinite, LiteralsOfType, FS_Subset
<1>3. Cardinality(lits) \in Nat /\ Cardinality(lits) # 0
  BY <1>2, FS_CardinalityType, FS_EmptySet
<1>4. CASE command.tool = "blocked"
  <2>1. Cardinality(lits) = 1 <=> \E l \in LiteralsOf(i) : lits = {l}
    BY <1>2, FS_Singleton
  <2> QED BY <1>1, <1>4, <2>1 DEF BlockingCandidates
<1>5. CASE command.tool = "setBlocked"
  <2> DEFINE overlapping == {l \in LiteralsOf(i) : occurrences[-l] # {}}
             sizes == IF command.sizes.restricted THEN command.sizes.min .. command.sizes.max
                      ELSE 1 .. Cardinality(overlapping)
  <2>1. \A l \in LiteralsOf(i) : occurrences[-l] # {} <=> ResolutionEnvironment({l}) # {}
    <3>1. \A l \in LiteralsOf(i) : occurrences[-l] = {j \in DOMAIN clauses : -l \in LiteralsOf(j)}
      BY <1>2, PlainClauses, LiteralFacts
    <3> QED BY <3>1 DEF ResolutionEnvironment, Negated
  <2>2. overlapping \in SUBSET LiteralsOf(i)
    OBVIOUS
  <2>3. IsFiniteSet(overlapping) /\ Cardinality(overlapping) \in Nat
    BY <1>2, <2>2, FS_Subset, FS_CardinalityType
  <2>4. lits \in BlockingCandidates(i)
          <=> 0 \notin sizes /\ lits \in SUBSET overlapping /\ Cardinality(lits) \in sizes
    BY <1>5 DEF BlockingCandidates
  <2>5. lits \in SUBSET overlapping <=> \A l \in lits : ResolutionEnvironment({l}) # {}
    BY <2>1
  <2> HIDE DEF overlapping
  <2>6. lits \in SUBSET overlapping => Cardinality(lits) <= Cardinality(overlapping)
    BY <2>3, FS_Subset
  <2>7. CASE command.sizes.restricted
    BY <1>1, <1>3, <1>5, <2>4, <2>5, <2>7
  <2>8. CASE ~command.sizes.restricted
    BY <1>3, <1>5, <2>3, <2>4, <2>5, <2>6, <2>8
  <2> QED BY <2>7, <2>8
<1> QED BY <1>1, <1>4, <1>5

\* The check of a clause finds it exactly if it is blocked in a way the tool looks for.
LEMMA FoundIffBlockable ==
  ASSUME ParserInv, PlainInv, LookupIsInverse, LookupComplete, command \in Commands,
         NEW i \in DOMAIN clauses
  PROVE  IsFound(i) <=> Blockable(i)
<1>1. ASSUME NEW lits \in SUBSET LiteralsOf(i), lits # {}
      PROVE  (lits \in BlockingCandidates(i) /\ Blocks(i, lits)) <=>
               /\ BlockedBySet(i, lits) /\ ResolutionEnvironment(lits) # {}
               /\ command.tool = "blocked" => Cardinality(lits) = 1
               /\ command.sizes.restricted =>
                    /\ Cardinality(lits) \in command.sizes.min .. command.sizes.max
                    /\ command.sizes.min > 0
               /\ command.tool = "setBlocked" => \A l \in lits : ResolutionEnvironment({l}) # {}
  <2>1. (command.tool = "blocked" /\ Cardinality(lits) = 1) => \E l \in LiteralsOf(i) : lits = {l}
    <3>1. IsFiniteSet(lits)
      BY LiteralsAreFinite, LiteralsOfType, FS_Subset
    <3> QED BY <3>1, FS_Singleton
  <2>2. lits \in BlockingCandidates(i) <=>
           /\ command.tool = "blocked" => Cardinality(lits) = 1
           /\ command.sizes.restricted =>
                Cardinality(lits) \in command.sizes.min .. command.sizes.max /\ command.sizes.min > 0
           /\ command.tool = "setBlocked" => \A l \in lits : ResolutionEnvironment({l}) # {}
    BY <1>1, CandidatesAreAll
  <2>3. CASE command.tool = "blocked" => Cardinality(lits) = 1
    <3>1. Blocks(i, lits) <=> BlockedBySet(i, lits) /\ ResolutionEnvironment(lits) # {}
      BY <1>1, <2>1, <2>3, ChecksAreExact
    <3> QED BY <2>2, <3>1
  <2> QED BY <2>2, <2>3
<1>2. \A lits \in BlockingCandidates(i) : lits # {} /\ lits \subseteq LiteralsOf(i)
  BY CandidateType
<1>3. \A lits : BlockedBySet(i, lits) => lits # {}
  BY DEF BlockedBySet
<1> QED BY <1>1, <1>2, <1>3 DEF IsFound, Blockable

\* Without a limit the candidates are the first indices, as many as there are clauses.
LEMMA UnlimitedCandidates ==
  ASSUME SelectionInv, stage \in {"Search", "Done"},
         command.requested = NotGiven, command.maxLength = NotGiven
  PROVE  /\ Len(candidates) = NumClauses /\ MatchesToSearchFor = NumClauses
         /\ ToSet(candidates) = 0 .. NumClauses - 1
<1> DEFINE ids == IndexSequence(command.heuristic, RequestedFor(command), command.maxLength)
           chosen == ToSet(candidates)
<1>1. ParserInv /\ PlainInv /\ LookupIsInverse
  BY DEF SelectionInv, ProgramInv
<1>2. /\ command \in Commands /\ RequestedFor(command) \in Nat
      /\ Len(candidates) = WantedFor(command)
      /\ chosen \subseteq ids /\ Cardinality(chosen) = Len(candidates)
      /\ Cardinality(ids) = IF command.heuristic = "Sequential" THEN RequestedFor(command) ELSE NumClauses
  BY ChosenFacts
<1>3. NumClauses \in Nat /\ NumClauses <= input.numClauses /\ input.numClauses \in Nat
  BY <1>1, PlainClauses, TextFacts DEF ParserInv, ProgressInv
<1>4. NumCandidateClauses(command) = NumClauses
  BY DEF NumCandidateClauses
<1>5. RequestedFor(command) = IF command.heuristic \in {"Sequential", "Random"}
                              THEN NumClauses ELSE input.numClauses
  BY <1>4 DEF RequestedFor
<1>6. Cardinality(ids) = NumClauses /\ ids = 0 .. NumClauses - 1
  BY <1>2, <1>5 DEF IndexSequence
<1> HIDE DEF ids, chosen
<1>7. WantedFor(command) = NumClauses
  <2>1. Min({NumClauses, RequestedFor(command)}) = NumClauses
    BY <1>2, <1>3, <1>5, MinOfTwo
  <2> QED BY <1>4, <1>6, <2>1 DEF WantedFor, Generatable, ids
<1>8. chosen = ids
  <2>1. IsFiniteSet(ids)
    BY <1>3, <1>6, FS_Interval
  <2> QED BY <1>2, <1>6, <1>7, <2>1, FS_Subset
<1>9. MatchesToSearchFor = NumClauses
  BY <1>2, <1>3, <1>7, MinOfTwo DEF MatchesToSearchFor
<1> QED BY <1>2, <1>6, <1>7, <1>8, <1>9 DEF chosen

\* A search without limits finds exactly the blocked clauses among the first indices,
\* under every heuristic and lookup (main of both benchmarks, from the vector of
\* candidates they size themselves to the match they stop at), for texts whose lines
\* repeat no literal.
THEOREM UnlimitedSearchIsComplete == ProgramSpec => []UnlimitedSearchComplete
<1>1. SelectionInv => UnlimitedSearchComplete
  <2> SUFFICES ASSUME SelectionInv, stage = "Done", LookupComplete,
                      command.requested = NotGiven, command.maxLength = NotGiven
               PROVE  found = {i \in DOMAIN clauses : i < NumClauses /\ Blockable(i)}
    BY DEF UnlimitedSearchComplete
  <2> DEFINE chosen == ToSet(candidates)
             m == Len(candidates)
  <2>1. /\ ParserInv /\ PlainInv /\ LookupIsInverse /\ SearchInv /\ command \in Commands
        /\ found = {candidates[p] : p \in {q \in 1 .. considered : IsFound(candidates[q])}}
        /\ considered = m \/ Cardinality(found) >= MatchesToSearchFor
    BY DEF SelectionInv, ProgramInv, ResultInv, StageInv
  <2>2. m = NumClauses /\ MatchesToSearchFor = NumClauses /\ chosen = 0 .. NumClauses - 1
    BY UnlimitedCandidates
  <2>3. chosen = {candidates[p] : p \in 1 .. m} /\ Cardinality(chosen) = m /\ m \in Nat
    BY ChosenFacts
  <2>4. considered \in 0 .. m
    BY <2>1 DEF SearchInv
  <2> HIDE DEF chosen, m
  <2>5. \A i : IsFound(i) <=> i \in DOMAIN clauses /\ Blockable(i)
    BY <2>1, FoundIffBlockable DEF IsFound
  <2>6. found \subseteq chosen /\ \A i \in found : IsFound(i)
    BY <2>1, <2>3, <2>4
  <2>7. \A i \in chosen : IsFound(i) => i \in found
    <3>1. CASE considered = m
      BY <2>1, <2>3, <3>1
    <3>2. CASE Cardinality(found) >= MatchesToSearchFor
      <4>1. IsFiniteSet(chosen) /\ found \in SUBSET chosen
        BY <2>2, <2>3, <2>6, FS_Interval
      <4>2. Cardinality(found) \in Nat /\ Cardinality(found) <= m
        BY <2>3, <4>1, FS_Subset, FS_CardinalityType
      <4>3. Cardinality(found) = Cardinality(chosen)
        BY <2>2, <2>3, <3>2, <4>2
      <4> QED BY <4>1, <4>3, FS_Subset
    <3> QED BY <2>1, <3>1, <3>2
  <2>8. DOMAIN clauses \subseteq Nat /\ NumClauses \in Nat
    BY <2>1, PlainClauses
  <2>9. \A i \in DOMAIN clauses : i \in chosen <=> i < NumClauses
    BY <2>2, <2>8
  <2> QED BY <2>5, <2>6, <2>7, <2>9
<1> QED BY <1>1, SelectionInvariance, PTL
=============================================================================
