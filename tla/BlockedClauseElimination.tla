---------------------- MODULE BlockedClauseElimination ----------------------
(***************************************************************************)
(* BaseBlockedClauseEliminator on the formula and its occurrence lookup    *)
(* (LiteralOccurrenceBlockedClauseEliminator) with its                     *)
(* BlockingLiteralGenerator: the literals of a clause are tried one after  *)
(* the other, in the order of a heuristic, until one of them blocks it.    *)
(***************************************************************************)
EXTENDS BlockingConditions, SequencesExt

CONSTANTS
  Heuristics,   \* the candidate selection heuristics in use
  NoLiteral,    \* std::nullopt
  NotAsked      \* no answer has been given yet

AllHeuristics == {"Sequential", "Random", "MinClauseOverlap", "MaxClauseOverlap"}

\* The clauses are taken to hold no literal twice.  Indices are of type size_t.
ASSUME BlockedEliminationAssumption ==
  /\ Heuristics \subseteq AllHeuristics
  /\ \A bag \in OfferedClauses : DuplicateFree(bag)
  /\ NoLiteral \notin Int
  /\ IsFiniteSet(ClauseIds)

VARIABLES
  heuristic,           \* candidateSelectionHeuristic of the generator
  searching,           \* a call of determineBlockingLiteralOfClause is active
  subject,             \* the clause it looks at
  candidateLiterals,   \* the generator's sequence
  selected,            \* lastSelectedCandidateIndex: how many have been handed out
  verdict              \* what determineBlockingLiteralOfClause returned last

eliminatorVars == <<heuristic, searching, subject, candidateLiterals, selected, verdict>>
systemVars == <<vars, eliminatorVars>>
-----------------------------------------------------------------------------
(* BlockingLiteralGenerator.                                               *)

Overlaps(l) == Cardinality(occurrences[-l])

\* Variant: the comparison is the other way round.
InOrderReversed(h, k, l) ==
  CASE h = "Sequential" -> k < l
    [] h = "Random" -> TRUE
    [] h = "MinClauseOverlap" -> Overlaps(k) >= Overlaps(l)
    [] h = "MaxClauseOverlap" -> Overlaps(k) <= Overlaps(l)

\* Whether k may stand before l: clauses are stored in ascending order, std::shuffle
\* yields any order and std::sort leaves the order of equal literals open.
InOrder(h, k, l) ==
  CASE h = "Sequential" -> k < l
    [] h = "Random" -> TRUE
    [] h = "MinClauseOverlap" -> Overlaps(k) <= Overlaps(l)
    [] h = "MaxClauseOverlap" -> Overlaps(k) >= Overlaps(l)

CandidateSequences(i) ==
  {s \in SetToSeqs(LiteralsOf(i)) :
     \A p, q \in DOMAIN s : p < q => InOrder(heuristic, s[p], s[q])}
-----------------------------------------------------------------------------
(* determineBlockingLiteralOfClause.                                       *)

EliminatorInit ==
  /\ heuristic \in Heuristics
  /\ searching = FALSE
  /\ subject \in ClauseIds
  /\ candidateLiterals = <<>>
  /\ selected = 0
  /\ verdict = NotAsked

SearchMissingClause(i) ==
  /\ ~searching /\ Idle
  /\ i \notin DOMAIN clauses
  /\ verdict' = NoLiteral
  /\ UNCHANGED <<vars, heuristic, searching, subject, candidateLiterals, selected>>

\* Variant: init leaves the position where the last search ended.
FirstSelectedKept == selected

FirstSelected == 0

StartSearch(i) ==
  /\ ~searching /\ Idle
  /\ i \in DOMAIN clauses
  /\ searching' = TRUE
  /\ subject' = i
  /\ candidateLiterals' \in CandidateSequences(i)
  /\ selected' = FirstSelected
  /\ verdict' = NotAsked
  /\ UNCHANGED <<vars, heuristic>>

ResolventIsTautology(l, j) == LiteralBlockedCondition(subject, l, j)

\* Variant: an index without a clause is passed over.
ConditionHoldsOfStored(l) ==
  /\ occurrences[-l] # {}
  /\ \A j \in occurrences[-l] \cap DOMAIN clauses : ResolventIsTautology(l, j)

\* The environment must not be empty, and an index without a clause in it fails.
ConditionHolds(l) ==
  /\ occurrences[-l] # {}
  /\ \A j \in occurrences[-l] : j \in DOMAIN clauses /\ ResolventIsTautology(l, j)

TryCandidate ==
  /\ searching
  /\ selected < Len(candidateLiterals)
  /\ selected' = selected + 1
  /\ LET l == candidateLiterals[selected'] IN
     IF ConditionHolds(l)
     THEN searching' = FALSE /\ verdict' = l
     ELSE UNCHANGED <<searching, verdict>>
  /\ UNCHANGED <<vars, heuristic, subject, candidateLiterals>>

GiveUp ==
  /\ searching
  /\ selected >= Len(candidateLiterals)
  /\ searching' = FALSE
  /\ verdict' = NoLiteral
  /\ UNCHANGED <<vars, heuristic, subject, candidateLiterals, selected>>

SearchStep == TryCandidate \/ GiveUp
-----------------------------------------------------------------------------
UseFormula == ~searching /\ ChangeStore /\ UNCHANGED eliminatorVars

SystemInit == Init /\ EliminatorInit

SystemNext ==
  \/ UseFormula
  \/ \E i \in ClauseIds : SearchMissingClause(i) \/ StartSearch(i)
  \/ SearchStep

SystemSpec == SystemInit /\ [][SystemNext]_systemVars
-----------------------------------------------------------------------------
(* Properties.                                                             *)

\* The state has the shape the code's types give it; during a search the candidates
\* are the literals of the clause.
EliminatorTypeOK ==
  /\ heuristic \in AllHeuristics
  /\ searching \in BOOLEAN
  /\ subject \in ClauseIds
  /\ candidateLiterals \in Seq(Literals)
  /\ selected \in 0 .. Len(candidateLiterals)
  /\ searching => subject \in DOMAIN clauses /\ ToSet(candidateLiterals) = LiteralsOf(subject)
  /\ verdict \in Literals \cup {NoLiteral, NotAsked}

Answers == searching /\ ~searching'

\* A literal that is found does block its clause, whatever clients did to the formula
\* before and whatever operation failed, and no index without a clause was passed over
\* on the way to it.
FoundLiteralBlocks ==
  [][(Answers /\ verdict' # NoLiteral) =>
       /\ BlockedByLiteral(subject, verdict')
       /\ MissingClauses(-verdict') = {}]_systemVars

\* What it is for: a clause reported as blocked may be removed, for the formula
\* without it is satisfiable only if the formula is.
FoundClauseRedundant ==
  [][(Answers /\ verdict' # NoLiteral) => RemovalPreservesUnsatisfiability(subject)]_systemVars

\* The literals that clash with another clause and block the subject.
BlockingLiterals == {l \in Literals : occurrences[-l] # {} /\ BlockedByLiteral(subject, l)}

\* In a formula without tautologies whose lookup is in step, the search fails only if
\* no literal that clashes with a clause blocks the subject, and it finds the one the
\* heuristic prefers: the clauses of the environment are visited in any order, the
\* candidates in the heuristic's.
SearchComplete ==
  [][(Answers /\ TautologyFree /\ LookupIsInverse) =>
       \A l \in BlockingLiterals :
         /\ verdict' # NoLiteral
         /\ heuristic = "Sequential" => verdict' <= l
         /\ heuristic = "MinClauseOverlap" => Overlaps(verdict') <= Overlaps(l)
         /\ heuristic = "MaxClauseOverlap" => Overlaps(verdict') >= Overlaps(l)]_systemVars
=============================================================================
