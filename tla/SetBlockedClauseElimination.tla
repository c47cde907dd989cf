-------------------- MODULE SetBlockedClauseElimination --------------------
(***************************************************************************)
(* BaseSetBlockedClauseEliminator on the formula and its occurrence lookup *)
(* (LiteralOccurrenceSetBlockedClauseEliminator): determineBlockingSet     *)
(* asks a generator for candidates and checks each of them against the     *)
(* clauses that contain the negation of one of its literals.               *)
(*                                                                         *)
(* The generator is the abstract CandidateEnumeration that                 *)
(* BlockingSetCandidateGenerator implements.  A search is a sequence of    *)
(* steps, one per iteration of the loops over the hash sets, whose order   *)
(* is open.  Between two searches clients may change the clause store;     *)
(* propagate() writes only what no eliminator reads and is left out.       *)
(***************************************************************************)
EXTENDS BlockingConditions

CONSTANTS
  Restrictions,   \* the size restrictions clients pass, [restricted, min, max]
  NoCandidate,    \* std::nullopt
  NotAsked        \* no answer has been given yet

ASSUME RestrictionAssumption ==
  \A r \in Restrictions :
    r.restricted \in BOOLEAN /\ r.min \in Nat /\ r.max \in Nat /\ r.min <= r.max

\* The clauses are taken to hold no literal twice, for a search sees a clause as the set
\* of its literals: the generator would count a repeated one twice.
ASSUME OfferedClausesAssumption == \A bag \in OfferedClauses : DuplicateFree(bag)

\* An answer of std::nullopt is told from every set of literals.
ASSUME NoCandidateAssumption == \A lits \in SUBSET Literals : NoCandidate # lits

VARIABLES
  phase,             \* "Idle", "Generate" or "Check"
  subject,           \* clauseIdxInFormula of the last search
  pool,              \* the state of the candidate generator
  smallest,
  largest,
  emitted,
  candidate,         \* candidateBlockingSet, the generator's last answer
  literalsLeft,      \* of the candidate, not visited by literalIterator yet
  clausesLeft,       \* not visited by clauseIndexIterator yet
  alreadyChecked,    \* alreadyCheckedClauseIndicesInResolutionEnvironment
  environmentSeen,   \* didResolutionEnvironmentContaingAtleastOneEntry
  verdict            \* what determineBlockingSet returned last

generatorState == <<pool, smallest, largest, emitted, candidate>>
scan == <<literalsLeft, clausesLeft, alreadyChecked, environmentSeen>>
eliminatorVars == <<phase, subject, generatorState, scan, verdict>>
systemVars == <<vars, eliminatorVars>>

Generator == INSTANCE CandidateEnumeration WITH answer <- candidate

Searching == phase # "Idle"
-----------------------------------------------------------------------------
(* determineBlockingSet.                                                   *)

EliminatorInit ==
  /\ phase = "Idle"
  /\ subject \in ClauseIds
  /\ pool = {} /\ smallest = 1 /\ largest = 0
  /\ Generator!EnumerationInit
  /\ literalsLeft = {} /\ clausesLeft = {} /\ alreadyChecked = {}
  /\ environmentSeen = FALSE
  /\ verdict = NotAsked

\* What the generator makes candidates of: see Overlapping and Accept there.
OverlappingLiterals(i) == {l \in LiteralsOf(i) : occurrences[-l] # {}}
SmallestSize(r) == IF r.restricted THEN r.min ELSE 1

\* The generator refuses a clause when no candidate of the smallest size exists.
PoolFor(i, r) ==
  IF SmallestSize(r) \in 1 .. Cardinality(OverlappingLiterals(i))
  THEN OverlappingLiterals(i) ELSE {}
LargestSize(i, r) ==
  IF r.restricted /\ r.max < Cardinality(OverlappingLiterals(i))
  THEN r.max ELSE Cardinality(OverlappingLiterals(i))

SearchMissingClause(i) ==
  /\ ~Searching /\ Idle
  /\ i \notin DOMAIN clauses
  /\ verdict' = NoCandidate
  /\ UNCHANGED <<vars, phase, subject, generatorState, scan>>

StartSearch(i, r) ==
  /\ ~Searching /\ Idle
  /\ i \in DOMAIN clauses
  /\ phase' = "Generate"
  /\ subject' = i
  /\ pool' = PoolFor(i, r)
  /\ smallest' = IF pool' = {} THEN 1 ELSE SmallestSize(r)
  /\ largest' = LargestSize(i, r)
  /\ Generator!Restart
  /\ verdict' = NotAsked
  /\ UNCHANGED <<vars, scan>>

\* A candidate to check.
TakeCandidate ==
  /\ phase = "Generate"
  /\ Generator!Emit
  /\ phase' = "Check"
  /\ literalsLeft' = candidate'
  /\ UNCHANGED <<vars, subject, clausesLeft, alreadyChecked, environmentSeen, verdict>>

GiveUp ==
  /\ phase = "Generate"
  /\ Generator!Exhausted
  /\ phase' = "Idle"
  /\ verdict' = NoCandidate
  /\ UNCHANGED <<vars, subject, scan>>
-----------------------------------------------------------------------------
(* doesEveryClauseInResolutionEnvironmentFullfillSetBlockedCondition.      *)

\* Variants: the negations of the candidate's own literals count as literals of
\* C \ L; the literals a clause shares with the candidate are overlooked.
IsClauseSetBlockedByOwn(j) ==
  \E l \in LiteralsOf(j) : l \in candidate \/ -l \in LiteralsOf(subject)
IsClauseSetBlockedByRest(j) ==
  \E l \in LiteralsOf(j) : -l \notin candidate /\ -l \in LiteralsOf(subject)

IsClauseSetBlocked(j) == SetBlockedCondition(subject, candidate, j)

VisitLiteral ==
  /\ phase = "Check"
  /\ clausesLeft = {}
  /\ \E l \in literalsLeft :
       /\ literalsLeft' = literalsLeft \ {l}
       /\ clausesLeft' = occurrences[-l]
       /\ environmentSeen' = (environmentSeen \/ occurrences[-l] # {})
  /\ UNCHANGED <<vars, phase, subject, generatorState, alreadyChecked, verdict>>

\* A recorded index without a clause fails the condition.
ConditionHolds(j) == j \in DOMAIN clauses /\ (j \in alreadyChecked \/ IsClauseSetBlocked(j))

\* Variant: the iterator is not incremented.
ClausesAfterSame(j) == clausesLeft

ClausesAfter(j) == clausesLeft \ {j}

\* Variant: the indices checked for one candidate count as checked for the next.
LeaveCheckOnly ==
  /\ literalsLeft' = {} /\ clausesLeft' = {} /\ alreadyChecked' = alreadyChecked
  /\ environmentSeen' = FALSE

\* The end of a check, and of its local variables.
LeaveCheck ==
  /\ literalsLeft' = {} /\ clausesLeft' = {} /\ alreadyChecked' = {}
  /\ environmentSeen' = FALSE

PassEnvironmentClause(j) ==
  /\ phase = "Check"
  /\ j \in clausesLeft /\ ConditionHolds(j)
  /\ alreadyChecked' = alreadyChecked \cup {j}
  /\ clausesLeft' = ClausesAfter(j)
  /\ UNCHANGED <<vars, phase, subject, generatorState, literalsLeft, environmentSeen, verdict>>

FailCheck ==
  /\ phase = "Check"
  /\ \E j \in clausesLeft : ~ConditionHolds(j)
  /\ phase' = "Generate"
  /\ LeaveCheck
  /\ UNCHANGED <<vars, subject, generatorState, verdict>>

\* Every clause of the environment fulfils the condition.
FinishCheck ==
  /\ phase = "Check"
  /\ literalsLeft = {} /\ clausesLeft = {}
  /\ IF environmentSeen
     THEN phase' = "Idle" /\ verdict' = candidate
     ELSE phase' = "Generate" /\ verdict' = verdict
  /\ LeaveCheck
  /\ UNCHANGED <<vars, subject, generatorState>>

SearchStep ==
  \/ TakeCandidate
  \/ GiveUp
  \/ VisitLiteral
  \/ \E j \in ClauseIds : PassEnvironmentClause(j)
  \/ FailCheck
  \/ FinishCheck
-----------------------------------------------------------------------------
UseFormula == ~Searching /\ ChangeStore /\ UNCHANGED eliminatorVars

SystemInit == Init /\ EliminatorInit

SystemNext ==
  \/ UseFormula
  \/ \E i \in ClauseIds : SearchMissingClause(i)
  \/ \E i \in ClauseIds, r \in Restrictions : StartSearch(i, r)
  \/ SearchStep

\* A started search runs on: the library is sequential and does not block.
SystemSpec == SystemInit /\ [][SystemNext]_systemVars /\ WF_systemVars(SearchStep)
-----------------------------------------------------------------------------
(* Properties.                                                             *)

\* The state has the shape the code's types give it; outside of a check its local
\* variables are gone.
EliminatorTypeOK ==
  /\ phase \in {"Idle", "Generate", "Check"}
  /\ subject \in ClauseIds
  /\ pool \subseteq Literals
  /\ smallest \in Nat /\ largest \in Nat
  /\ candidate \in (SUBSET Literals) \cup {NoCandidate, NotAsked}
  /\ literalsLeft \subseteq Literals
  /\ clausesLeft \subseteq ClauseIds /\ alreadyChecked \subseteq ClauseIds
  /\ environmentSeen \in BOOLEAN
  /\ phase = "Check" => candidate \subseteq pool /\ literalsLeft \subseteq candidate
  /\ phase # "Check" => literalsLeft = {} /\ clausesLeft = {} /\ alreadyChecked = {}
  /\ verdict \in (SUBSET Literals) \cup {NoCandidate, NotAsked}

Answers == Searching /\ ~Searching'

\* The subsets of the subject's literals that the generator may offer.
Eligible == {L \in SUBSET pool : Cardinality(L) \in smallest .. largest}

\* A blocking set that is found does block its clause, in every formula clients can
\* build and after operations on it that failed: the visit of the clauses by hash set
\* entries, the cut-offs and the set of clauses already checked overlook nothing.  It
\* was not found by passing over an index whose clause the formula does not have.
FoundSetBlocks ==
  [][(Answers /\ verdict' # NoCandidate) =>
       /\ BlockedBySet(subject, verdict')
       /\ \A l \in verdict' : MissingClauses(-l) = {}]_systemVars

\* What it is for: a clause reported as set-blocked may be removed, for the formula
\* without it is satisfiable only if the formula is.
FoundClauseRedundant ==
  [][(Answers /\ verdict' # NoCandidate) => RemovalPreservesUnsatisfiability(subject)]_systemVars

\* In a formula without tautologies whose lookup is in step, the search fails only if
\* no set of literals that clash with other clauses blocks the clause, and what it
\* finds is a smallest one.
SearchComplete ==
  [][(Answers /\ TautologyFree /\ LookupIsInverse) =>
       \A L \in Eligible :
         BlockedBySet(subject, L) =>
           verdict' # NoCandidate /\ Cardinality(verdict') <= Cardinality(L)]_systemVars

\* Every call of determineBlockingSet returns.
BlockingSetSearchEnds == Searching ~> ~Searching
=============================================================================
