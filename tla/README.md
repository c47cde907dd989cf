# Verification of the preprocessing of cdcl-solver

The repository is meant to become a CDCL SAT solver. What exists is its
preprocessing: a parser for DIMACS texts with unit propagation, an in-memory
formula, and two programs that search a formula for blocked or set-blocked
clauses, which a solver may leave out. `src/src/solver/solver.cpp` is empty. The program is a sequential
library without persistence; its risks are recursion over hash sets whose order
nobody fixes, state that is kept in two places and must agree (clauses and
occurrence lookup, trail and variable values, indices and candidate, two halves
of a tree node), operations that fail half-way, and arithmetic on `size_t`.

This directory holds TLA+ modules of those parts, TLC configurations that check
them on small instances, and TLAPS proofs of the results that carry over to
formulas of any size.

## Inventory

| Component | State | Operations | Talks to |
|---|---|---|---|
| Literal occurrence lookup (`dimacs/literalOccurrenceLookup.*`) | per literal the set of indices of clauses that hold it | record, remove, look up | owned by the formula |
| Formula (`dimacs/problemDefinition.*`) | clauses by index with a `satisified` flag, lookup, variable values, trail | `addClause`, `removeClause`, `removeLiteralFromClausesOfFormula`, `propagate` (recursive), queries | used by everything |
| DIMACS parser (`dimacs/dimacsParser.*`) | counters, error text, error list, the `errno` of the process | parse a text or file | adds to, propagates in and simplifies the formula |
| Candidate generator (`setBlockedClauseElimination/*BlockingSetCandidateGenerator*`) | candidate literals, their indices, wrap-around counter, last candidate | `init`, `generateNextCandidate` | reads clause and overlaps from the formula |
| Set-blocked elimination (`setBlockedClauseElimination/*Eliminator*`) | none between searches | `determineBlockingSet` | asks the generator, looks clauses up in the formula or the tree |
| Blocked elimination (`blockedClauseElimination/*`) | literals in the heuristic's order, position | `determineBlockingLiteralOfClause` | the same |
| Interval tree (`optimizations/utils/avlIntervalTree*`) | nodes with links, balancing factors and two halves of clause bounds | `insertClause`, `createFromCnfFormula`, query by literal | filled from the formula, looks up clauses there |
| Binary search (`optimizations/utils/binarySearchUtils.hpp`) | none | five searches in sorted vectors | used by clauses, lookup and tree nodes |
| Clause candidate selector (`optimizations/utils/clauseCandidateSelector.*`) | queue of clause indices, position, number of candidates it can generate | initialise by one of six heuristics, select next | reads clauses and lookup of the formula, used by the programs |
| Programs (`benchmark/*Benchmark.cpp`) | candidate indices, found indices, limits, timers | parse, collect candidates, check each, count | drive parser, selector, tree and eliminators |
| Command line (`commandLineArgumentParser.*`), `main.cpp` | the options | argument parsing | read by the programs |

What makes each of them correct, and hard:

* **Formula.** Whatever clients do, and whatever fails, a lookup by literal must
  miss no clause; a variable must be assigned once; `propagate` recurses while it
  walks hash sets and must neither overlook a unit clause, nor invent a conflict,
  nor fail to end.
* **Parser.** The formula it returns must be the text under the assignment it
  made: simplified completely, nothing lost. Malformed texts must be refused,
  well-formed ones accepted, and a verdict of unsatisfiability must be true.
* **Generator.** Every allowed subset once, the small ones first, then the end,
  although three redundant pieces of state are changed in place.
* **Eliminators.** What is reported may be removed without making an
  unsatisfiable formula satisfiable; what can be found is found.
* **Tree.** A balanced search tree after every sequence of rotations, and queries
  that miss no clause although rotations move bounds between nodes and the
  formula changes underneath.
* **Selector.** As many candidates as it promised, each once, and those the
  heuristic prefers, also over formulas whose indices have gaps.
* **Programs.** Each clause is checked in the formula that still holds the others
  found; all of them together must be removable. Without limits of the user the
  result must depend neither on the heuristic nor on the lookup.
* **Searches.** The right position in both orders, with duplicates, without
  reading outside when an unsigned bound wraps around.

`PROJECT.json` lists the hazards with the lines where they bite and the
properties that watch them.

## Modules

```
ProblemDefinition -- DimacsParser -- MCDimacsParser
   |   |                |  \-- DimacsParserProofs -- BlockedClauseSearchProofs
   |   |                '-- BlockedClauseSearch -- MCBlockedClauseSearch
   |   |                        |         (with ClauseCandidateSelector)
   |   \-- MCProblemDefinition  |
   |   \-- ProblemDefinitionProofs (with BlockedClauses; extended by the
   |                            |   proofs of parser, programs and eliminators)
   |                            |
   '-- BlockingConditions ------+-- ClauseCandidateSelector
          '-- BlockedClauses
                |- SetBlockedClauseElimination -- SetBlockedClauseEliminationProofs
                |     |  \-- MCSetBlockedClauseElimination
                |     '..INSTANCE.. CandidateEnumeration
                |               ^ implemented by BlockingSetCandidateGenerator -- MC...,
                |                                 BlockingSetCandidateGeneratorProofs
                '- BlockedClauseElimination -- BlockedClauseEliminationProofs
                      \-- MCBlockedClauseElimination
InsertionOrder -- AvlIntervalTree -- MCAvlIntervalTree, AvlIntervalTreeProofs
       \-- BlockedClauseSearch
BinarySearch -- MCBinarySearch, BinarySearchProofs
```

| Module | Stands for |
|---|---|
| `ProblemDefinition` | the formula with its lookup |
| `DimacsParser` | `parseDimacsContent` and all it calls, composed with the formula |
| `CandidateEnumeration` | abstract: what a candidate generator promises |
| `BlockingSetCandidateGenerator` | the code's generator; implements `CandidateEnumeration` |
| `BlockingConditions` | what both eliminators compute: the resolution environment and the two conditions on it |
| `BlockedClauses` | the definitions of (set-)blocked and redundant, and the changes clients make between searches |
| `SetBlockedClauseElimination` | `determineBlockingSet` with the lookup by occurrences |
| `BlockedClauseElimination` | `determineBlockingLiteralOfClause` and the literal generator |
| `InsertionOrder` | the positions in which `createFromCnfFormula` inserts sorted clauses |
| `AvlIntervalTree` | the interval tree in a formula that changes |
| `ClauseCandidateSelector` | the six heuristics and the queue they fill |
| `BlockedClauseSearch` | `main` of both programs, composed with parser, selector, lookups and eliminators |
| `BinarySearch` | the searches, one behaviour per call |
| `MC...` | constants for TLC |
| `...Proofs` | theorems |

### ProblemDefinition

A clause is a bag of literals: the code's sorted vector that may hold a literal
twice. `clauses` maps indices to such bags with the flag, `occurrences` is the
lookup, `values` and `trail` are the assignment. The public operations are
actions. `AddClause` records the literals that come before the first one out of
range (in sorted order) and then fails, as the code does; stale indices arise.
`propagate` is a stack of frames: `StartPropagation` enters the outermost call,
`VisitClause` takes any clause that the call has left to visit (the order of the
hash set) and may push a frame, `ReturnFromCall` pops one. A failure or conflict
unwinds the whole stack in the step that meets it (`Abort`), because every
caller returns at once. `doesVariableAssignmentLeadToConflict` answers before
anything is written; where both a conflict and a missing clause could be met
first, `ConflictVerdicts` holds both. Because it meets every missing clause, the
error return inside the loop of `propagate` (`problemDefinition.cpp:214`) is never
taken; `CallStackFollowsTrail` states that, and there is no action for it.

### DimacsParser

A text is a header and lines; a line is a sequence of numbers, `Junk` (no
number) or `Overflow` (a number that `strtol` refuses). The counters, the sticky
`clauseParsingError`, `errno`, the recorded errors and the phases of the main
loop are variables. The parser calls the actions of `ProblemDefinition` for its
formula; a unit clause starts `propagate` and the parser waits for it
(`Propagating`, `PropagationReturned`), then drops and erases one trail literal
after the other. `ParseNext` starts another text in the same process, so that
what survives a parse (`errno`) matters. Comment lines, white space and the
opening of files are left out. `HeaderConverts` follows `tryConvertStringToLong`: "0"
is converted without a look at `errno`, so that with `errno` set only the header
`p cnf 0 0` is still accepted.

### CandidateEnumeration and BlockingSetCandidateGenerator

The abstract module keeps the set of candidates handed out and may answer with
any smallest one that is outstanding, or end when none is. The detailed module
has the code's indices, the wrap-around counter, the flag for the first
candidate and the candidate that is edited in place; its search for the position
to advance takes a step per iteration. `EnumeratesAllCandidates` says that it
implements the abstract module under the mapping given there. Shuffles and
unstable sorts may yield every order of equal elements.

### BlockedClauses and the eliminators

`BlockedBySet`, `BlockedByLiteral` and `RemovalPreservesUnsatisfiability` define
what the searches look for, independently of how they look for it. Clients add,
remove and erase between searches with the operations of `ProblemDefinition`;
`propagate` writes nothing that an eliminator reads and is left out here.
`SetBlockedClauseElimination` uses the *abstract* generator, so that what is
shown of it holds for every generator that implements it. A check of a candidate
walks literals and clauses in any order, one clause per step, with the set of
clauses already checked and the cut-off at the first failure. The generator's
literals are a set there, which they are if no clause holds a literal twice:
`OfferedClausesAssumption` says so, `BlockedEliminationAssumption` says it for the
other eliminator.
`BlockedClauseElimination` tries one literal per step.

A literal whose negation occurs nowhere (a pure literal) blocks its clause by
the textbook; the code does not report it, and the test
`EmptyResolutionEnvironmentDoesNotCauseClauseToBeSetBlocked`
(`src/test/setBlockedClauseEliminatorTests.cpp:68`) shows that this is meant.
The completeness properties follow the test.

### AvlIntervalTree

A node is known by its key; the pointers are functions on keys. A half of a node
is the set of its entries (clause, bound). `insertClause` runs in steps: a
descent (`Descend`, `KeepHere`, `Attach`) and the loop back to the root
(`LeanTowards`, `ReachRoot`, four rotations). A rotation is one step, with the
moves of bounds in the code's order. `createFromCnfFormula` is a plan of
positions, computed as the code computes it, and one insertion after the other.
Clients remove clauses and literals from the formula while the tree stays.
The code's prefix of a half has one entry more than `Reported`; each entry is
then looked up in its clause, where the surplus one does not hold the literal.

### ClauseCandidateSelector

`initializeCandidateSequence` is one action with the choices the code leaves to
its generator of random numbers and its unstable sort. The queue holds indices
`0 .. n-1`, whether or not there is a clause of this index; an index without one
goes to the end of an order by overlap or length and passes every restriction of
lengths. `Generatable` is what the code promises its caller, kept apart from the
length of the queue.

### BlockedClauseSearch

The stages of `main`: parse (step by step, with the actions of `DimacsParser`),
refuse or configure, collect candidates one by one, create a tree if it is asked
for (or fail, where `InsertionOrder` says that `createFromCnfFormula` does),
check one candidate per step, end. A command is a record of the options; which
one is given is chosen once. A call of an eliminator is one step whose answer is
that of `BlockingConditions` over the clauses the lookup knows: all with the lookup
by occurrences, those of the insertion order with the tree. How an eliminator
comes to this answer is the subject of its own module, where `FoundSetBlocks` and
`SearchComplete` say that it is this one; what a tree holds and finds is that of
`AvlIntervalTree` (`CreatedTreeHoldsPlan`, `QueriesExact`). The parser is used as
the programs use it, without unit propagation and with errors recorded.

### BinarySearch

The loop variables `low` and `high` are positions with `SIZE_MAX` below 0. The
four position searches differ in order and strictness only and are one loop with
`GoesRight`; the search for an element adds the early exit and the range check.

## Runs

| Run | Bounds | Why they are enough |
|---|---|---|
| `problem_definition` | 2 variables, literals -3..3, 3 indices, 4 clauses offered | literals out of range, a repeated literal, clauses that propagate into each other, indices left stale |
| `dimacs_parser` | 3 variables, up to 4 lines out of 7 clauses, up to 2 out of 8 odd lines with every declared number 0..3, all configurations, a second text | units before, between and after the clauses they simplify; a chain of three propagations; conflicts; every kind of error alone and after another |
| `candidate_generator` | 4 literals, 4 overlap patterns, all restrictions up to 5, all heuristics | sizes up to all literals; each wrap-around with several positions exhausted; restrictions that start, end or lie outside of the range; `init` again at any moment |
| `set_blocked_elimination` | 2 variables, literals -2..3, 3 indices, 4 clauses (one out of range), no restriction or sizes 2..3 | blocking by sets that no literal of them blocks by itself, stale indices, tautological resolvents |
| `blocked_elimination` | 3 variables, literals -3..4, 3 indices (interchangeable model values: no definition orders an index, and the run checks safety only), 4 clauses (one out of range), all heuristics | a clause of three literals whose blocking literals clash with different numbers of clauses: ties and differences of overlaps |
| `binary_search` | containers up to 6 elements out of 5 values, `SIZE_MAX` 15 | all lengths with different middles, duplicates, wrap-around |
| `blocked_search` | 3 variables, up to 3 lines out of 5 (one leaves a gap in the indices), three longer texts and one that is refused; both tools, six heuristics, both lookups, with and without a limit of candidates, lengths and sizes | ties and differences in every heuristic; gaps inside and at the end; formulas for which a tree is complete, cannot be created, or lacks clauses; found clauses that block each other's removal if checked less strictly |
| `interval_tree` | formulas of 9 clauses (inserted in every order), 5 clauses (edited meanwhile), and five small ones, with gaps, with midpoint 0 | all four rotations, also below the root and with subtrees to hand over; creation that succeeds, fails and throws |

The tables of `PROJECT.json` list the properties of each run; each has a mutant,
a plausible bug in one definition, that TLC finds with the same configuration.

Properties by component, apart from the type invariants:

* Formula: `OccurrencesComplete`, `TrailMatchesValues`, `CallStackFollowsTrail`,
  `PropagationTerminates`; seen through the parser also `OccurrencesExact` (with
  declared literals only), `PropagationSaturates` and
  `ConflictRealUnlessMisled`: a conflict met at any depth of the recursion refutes
  the premises of the call, with two exemptions. `MisledCall`: the call has assigned
  a literal although each clause that was down to it was already satisfied.
  `MisledVerdict`: the same of one of the two literals that contradict each other
  in the end. Both ask for the moment of the assignment (what the trail held before
  it), so that the reason clause of a literal that was forced rightly exempts
  nothing. In the run the second exemption occurs, and so do conflicts below a forced
  literal that neither exempts; the first does not occur with its three variables and
  is covered by the theorem only.
* Parser: `StoreIsTextUnderAssignment`, `NoConstraintLost`, `NoUnitLeft`,
  `WellFormedInputAccepted`, `ErrorsExplainRejection` (both ways: what is malformed is
  reported, and each error has its cause in this text, at or before the line it
  names), `ParseTerminates`.
* Generator: `BookkeepingAgrees` (the candidate held, the wrap-around counter and
  the indices tell the same), `SearchTerminates`, `EnumeratesAllCandidates`.
* Eliminators: `FoundSetBlocks` / `FoundLiteralBlocks` (what is found blocks the clause,
  and was not found by passing over an index that has no clause), `SearchComplete`,
  `BlockingSetSearchEnds`.
* Tree: `TreeOrdered`, `TreeBalanced`, `HalvesInStep`, `QueriesExact`,
  `CreatedTreeHoldsPlan` (a created tree holds exactly the clauses of the
  insertion order), `CallsReturn`.
* Selector and programs: `SearchTypeOK` (with it: the selector never runs out of
  candidates that are still wanted), `CandidatesAreBest`, `FoundJointlyRedundant`,
  `UnlimitedSearchComplete`, `ProgramEnds`.
* Searches: `AnswerCorrect`, `WindowHalves`.

### Fairness

Weak fairness of the steps of a started call (`PropagationStep`, `ParserStep`,
the search steps, `TreeStep`, `ProgramNext`) and of nothing else: the library is sequential,
never blocks and waits for nobody, so a call that has started takes its next
step. Whether a client makes another call is up to the client and not assumed.
A program that has done its work stops, and so does a search that has answered;
for these the runs do not look for deadlocks.
In the parser's run `OfferedClauses` is empty, because only the parser writes
its formula.

### Disagreements found

Each has a run that ends in a violation of what a comment or a test says.

* `parser_satisfied_clause`: `propagate` never asks whether a clause is already
  true. With an unlucky order of a hash set a satisfiable formula is reported as
  unsatisfiable. `ConflictRealUnlessMisled`, which holds, says how a false conflict
  comes about: a literal, or one side of the conflict, whose only reasons were clauses
  that were satisfied already.
* `parser_last_literal`: the verdict on a line is that of its last literal alone.
* `parser_errno`: `errno` is not reset; after one number out of range every
  later text is refused.
* `avl_search`: with the interval tree as lookup both programs report clauses
  that are not blocked. The tree built from n clauses lacks some of them for n = 2
  or 3 modulo 4, n > 3, and success is reported; a resolvent that is no tautology is
  then overlooked. (For n < 2 a `std::out_of_range` is thrown; with gaps in the
  indices no tree, or an incomplete one, is built. `interval_tree` runs through
  these cases too.) With a complete tree, or by occurrences, what is found is
  blocked: the theorem `FoundClausesAreBlocked`.

Of less weight: the comment at `avlIntervalTreeNode.hpp:45-48` says what a stop
index is; where all bounds overlap the code returns the last index instead of
the size, and where none does no value instead of 0, and its caller is written for
the code. A node with key 0 takes no clauses in a rotation;
`QueriesExact` therefore excludes trees with such a node, which only clauses
with a literal and its negation can cause, and the parser refuses these.
Without `recordParsingErrors` a malformed line is dropped without a trace
(`NoConstraintLost` is about configurations with it).
In the programs: indices from n on are never candidates when the indices have
gaps, while indices without a clause are; a number of candidates does not limit the
queue of the overlap and length heuristics, which then holds more candidates than
`getNumGeneratableCandidates` says; a second `initializeCandidateSequence` appends
to the queue; sizes with min > max abort the set-blocked program at its first
check; the number of matches is never registered as an option, so that the two
places where the loop stops early are dead, and the seed for the selection is
registered and never read.

## Proofs

All proofs are for arbitrary constants under the assumptions named in the
modules, which ask for little more than types: `ProblemDefinitionAssumption` (the
number of variables is a natural number, literals are integers),
`DimacsParserAssumption` (a text has a header and finitely many lines, and there is
an index for each), `OfferedClausesAssumption` and `BlockedEliminationAssumption` (offered clauses do not repeat a
literal, and for the latter the indices are finitely many), `RestrictionAssumption` and
`GeneratorAssumption` (sizes are natural numbers; a clause does not repeat a
literal), `TreeAssumption` (indices are smaller than `SIZE_MAX`, clauses are finite
sets of literals, 0 is none, and `nullptr` is no key), `SearchAssumption` (a
container is smaller than `SIZE_MAX`) and `BlockedClauseSearchAssumption` (the
parser is called as the programs call it, no line repeats a literal, and numbers given on the command line are
what `size_t` holds). An answer of `std::nullopt` is told from every answer with a
value (`NoCandidateAssumption` and the like).

* **ProblemDefinitionProofs.** Inductive invariant `Inv`, in three parts that
  depend on each other in one direction: `StoreInv` (types of the store, and
  `OccurrencesComplete`, plus `LookupIsInverse` when only declared literals are
  offered), `AssignmentInv` (trail and values), and `CallInv` (the stack: its
  literals are on the trail in call order, and what is left to visit are clauses
  that exist, with the negation of the frame's literal). `CallStackFollowsTrail` is not
  inductive without `TrailMatchesValues`, since a call could otherwise assign a
  variable twice. Theorems: `TypeCorrectness`, `OccurrencesAreComplete`,
  `OccurrencesAreExact`, `TrailIsAssignment`, `CallsFollowTrail`.
  Two more invariants are about a propagation as a whole. `SaturationInv`: each
  clause without repeated literals in which the call has made a literal false is
  still alive (some literal is true or unassigned), and it is settled or some
  frame of the stack will visit it; when the stack is empty nothing is left
  to visit (`PropagationIsSaturated`). `SoundnessInv`: unless a literal was assigned
  for no reason (`MisledCall`), every solution of the premises agrees with the trail.
  It is kept because an unsatisfied clause with one literal left forces this literal
  in every such solution, and because the trail still tells of earlier moments what
  it told then (`EarlierMomentsStay`, `MisledFromNowOn`). A conflict finds two clauses
  down to a literal and its negation; if both have an unsatisfied reason no solution
  is left (`ConflictMeetsTwo`, `ConflictsAreReal`).
  Last, of every formula with a complete lookup, `SetBlockedClauseIsRedundant` and
  `BlockedClauseIsRedundant`: take an assignment that satisfies the rest and make
  the literals of the blocking set true. The clause becomes true; a clause that
  lost its only true literal holds the negation of one of the set, so its
  resolvent is a tautology and another of its literals is true. This needs no
  complementary literals in the blocked clause, and the lookup to be complete.
  The lemma behind them, `SetBlockedClauseIsRedundantInPart`, is for any part of
  the formula that the clause is taken from.
* **DimacsParserProofs.** `ParserInv` adds to `Inv` where each phase stands in the
  text and on the trail (`ProgressInv`) and the types of what is recorded; every
  parser step that writes the formula is one of its operations or keeps it
  (`ParserTypeCorrectness`, `ParserOccurrencesAreExact`). What is proved of
  `propagate` above holds in the parser as well, for every step in which a call
  starts, runs or ends is a step of `ProblemDefinition`
  (`ParserPropagationIsSaturated`, `ParserConflictsAreReal`). `ConstraintInv`: as long
  as nothing was refused, each model of the stored formula that agrees with the
  trail satisfies all lines read; dropping and erasing only narrow the models
  (`NoConstraintIsLost`, for configurations that record errors). `RejectionInv`:
  what is recorded lists every malformed line, and nothing is refused without a
  record. `CausesInv`: past the header, the message that is never cleared and an `errno`
  that still matters go back to a malformed line of this text, so each recorded error
  has a cause at or before the line it names. Both give `RejectionIsExplained`.
  `AcceptInv`: the parse of a well-formed text goes on to its last line and to its
  last trail literal; no call of `propagate` can fail, since the lookup is exact.
  So it is accepted as long as `errno` is clear (`WellFormedAcceptedUnlessErrno`),
  hence always if every number fits a `long` (`WellFormedAccepted`). The premise is
  needed: `parser_errno` shows what happens without it.
  `TextInv`: while the trail is worked off, clauses are
  dropped for one first part of it and literals erased for another, and the line of
  the unit clause is counted apart until the phase ends; what is stored is the text
  under these two (`FormulaIsTextUnderAssignment`). `UnitInv` combines this with
  saturation: every clause of a line without repeated literals is settled or to be
  visited by some call, and literals of the trail are gone where they were worked off,
  so that a stored clause of one literal cannot remain (`UnitsArePropagated`).
* **BlockedClauseSearchProofs.** `ProgramInv` says of what is found that each clause is
  blocked (`FoundClausesAreBlocked`) and that all may be removed
  (`FoundClausesAreJointlyRedundant`), provided the lookup knows all clauses: a
  clause blocked in the whole formula is blocked in each part of it, so that the
  clauses found can be removed one by one. `SearchInv` follows the number wanted
  from the heuristic's queue to the last candidate (`SelectorNeverRunsOut`).
  `SelectionInv` adds what the queue is (one of the orders the heuristic allows,
  `ResultInv`) and what the parser has made of the lines (`PlainInv`: clauses
  without repeated or complementary literals, at the indices of their lines). The
  candidates are a first part of a sorted queue, so none left behind precedes one of
  them (`CandidatesAreTheBest`); without limits the queue holds every index, so each
  clause was checked in a formula that lacked some of the others found, and what is
  not found is not blocked there (`UnlimitedSearchIsComplete`).
* **SetBlockedClauseEliminationProofs / BlockedClauseEliminationProofs.** The
  invariant says what a check in progress has established: literals that are no
  longer left have only clauses that are checked or left, and those checked
  meet the condition and are stored. With `OccurrencesComplete` this gives
  `FoundSetBlocks` and `FoundLiteralBlocks`, missing clauses included, with the lemmas above `FoundClausesAreRedundant`.
  `SearchComplete` needs more. For sets (`SearchIsComplete`): candidates outstanding
  are at least as large as those handed out, and of those handed out none blocks but
  the one that is checked (`OfferedInv`), whose check visits clauses of the resolution
  environment only (`VisitedInv`). For literals (`SearchesAreComplete`): candidates
  before the position failed, and they are in the heuristic's order.
* **BlockingSetCandidateGeneratorProofs.** `GeneratorInv`: the indices are an
  increasing sequence of as many positions as the candidate has literals, the
  candidate holds the literals there, and the wrap-around counter of each position is
  its distance to the last value it may take; the search stands left of positions
  that are all exhausted. `BookkeepingAgreesAlways` follows. Refinement
  (`GeneratorEnumerates`): the candidates handed out are, under the mapping, those
  whose positions come before the current ones, smaller sets first and then in the
  order of the first place where two differ (`Precedes`). Each step that ends a call
  is a step of `CandidateEnumeration`, all others stutter. The heart of it is that
  advancing the last position that is not exhausted and setting those after it close
  behind leads to the next set in this order: nothing lies between, and if all
  positions are exhausted nothing of this size is left.
* **AvlIntervalTreeProofs.** The pointers do not say which nodes are below which, so
  the invariant says that there are sets of nodes that do (`sub`), heights (`g`), a
  node for each clause (`home`) and two bounds for it (`lo`, `hi`), such that: the pointers
  of parents and children agree, and what is to the left or right of a node comes
  before or after it (`TreeShape`); the balancing factor of each node is the difference
  of its children's heights, in a call that climbs up to the node that has grown
  (`TreeHeights`); a descent stands where the midpoint of the new clause belongs, and
  the clause spans no node above (`CallOK`); both halves of a node hold the clauses
  at home there, each with its bound, and a clause is at home at the highest node it
  spans, unless some node has the key 0 (`EntriesFit`). `PlanInv` says of a creation that
  the positions done and those left are the whole plan. `Invariant`, the conjunction,
  is inductive (`InvariantHolds`). A rotation to the right is one to the left of
  the mirrored tree, a double rotation is two single ones, so that the
  lemmas about shape, heights and homes are proved for one rotation. From the
  invariant: `TreeTypesHold`, `TreeStaysOrdered` and `TreeStaysBalanced` (the walks
  along the pointers by which these properties are stated end and meet
  the sets), `HalvesStayInStep`, `QueriesStayExact` (a clause that holds the literal
  asked for spans it, and so is at a node on the way to it), and
  `CreatedTreeHoldsPlanAlways` (the positions of the plan are all different, and each
  was inserted).
* **BinarySearchProofs.** The loop invariant: elements before the window belong
  before the position, those after it belong after it, and none of them is the
  one searched for; the window is empty only if its bounds meet or the upper one
  wrapped while the lower one is 0. Theorems: `SearchTypeCorrectness` (no read
  outside), `SearchesAreCorrect`, `SearchesAreLogarithmic`.

In leaves about sequences the facts cited say which functions are sequences
(`trail \in Seq(Literals)` and the like): the SMT encoding rewrites `Len(s) = n` to
`DOMAIN s = 1 .. n`, which is right of sequences only.

So each safety property of the passing runs is proved (`WellFormedInputAccepted`
under the premise above) and so are the action properties and the refinement.
Only model-checked are the properties of liveness: `PropagationTerminates`,
`ParseTerminates`, `SearchTerminates` (of the generator), `BlockingSetSearchEnds`,
`CallsReturn` and `ProgramEnds`. Liveness under fairness, `ENABLED` and
induction over data are out of the prover's reach and stay with TLC. Where a proof
needs an induction over numbers (the walks along the pointers of a tree, the
sets of positions) it takes a least counterexample, whose existence is a
lemma (`LeastNatural`).

## Not modelled

* How the options are spelled, parsed and defaulted (`commandLineArgumentParser.*`):
  what they may say is the constant `Commands`. The output, the timing and the
  statistics of the programs, and `main.cpp`, which prints.
* Lines that repeat a literal, in the composition of the programs only (the parser's
  run and proofs have them).
* The walk of the eliminators through the tree, step by step: a query is exact
  for the clauses the tree holds (`QueriesExact`), and a check of a candidate
  differs from that by occurrences in where its clauses come from only.
* `handleCandidateGenerationOfSizeOne` and `findInorderSuccessorOfNode`: never
  called. `stringify` and the printing of errors: output only.
* `solver.cpp`: empty.

## Plan

Done, in this order: formula, parser, generator with its abstract specification,
eliminators, tree, searches; selector and programs; proofs of the formula, the
parser, the eliminators' soundness, the programs and the searches; then of
completeness (eliminators, programs, accepted texts), of the generator with its
refinement, and of the tree. Left:

1. The safety half of termination: for each kind of call a natural number that every
   step of the call decreases (literals of the trail not yet visited, lines and trail
   literals left, candidates outstanding, positions left of the search, nodes below
   the descent, nodes above the climb). With the fairness assumed this is
   what the liveness properties come down to.
2. A check of an eliminator that walks the tree instead of the lookup, if the
   programs' step of one call per check is to be refined.
