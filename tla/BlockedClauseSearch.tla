------------------------- MODULE BlockedClauseSearch -------------------------
(***************************************************************************)
(* The two programs of the repository, main of setBlockedClauseBenchmark   *)
(* and of blockedClauseBenchmark: a DIMACS text is parsed, a selector      *)
(* picks candidate clauses, and an eliminator looks for a blocking set or  *)
(* a blocking literal of each, by the occurrences of the formula or by an  *)
(* interval tree.  The clauses it finds are counted as removable.          *)
(*                                                                         *)
(* The parser runs step by step.  A call of an eliminator is one step:     *)
(* how it comes to its answer is the subject of the modules of the         *)
(* eliminators and of the candidate generator; what a tree holds and finds *)
(* is the subject of AvlIntervalTree.                                      *)
(***************************************************************************)
EXTENDS DimacsParser, ClauseCandidateSelector

CONSTANTS
  Commands,    \* what users ask for on the command line
  NoCommand    \* the command line has not been looked at yet

Tools == {"setBlocked", "blocked"}

\* The sizes of blocking sets: [restricted, min, max].
SizeRestrictions == [restricted : BOOLEAN, min : Nat, max : Nat]

\* The parser is used once, without unit propagation.  A clause holds no literal twice.
\* The options for lengths and sizes belong to one of the tools.  Lines and literals are
\* fewer than SIZE_MAX.
ASSUME BlockedClauseSearchAssumption ==
  /\ NotGiven \notin Int /\ NoCommand \notin Commands
  /\ \A c \in Configurations : ~c.performUnitPropagation /\ c.recordParsingErrors
  /\ \A in \in Inputs : \A p \in DOMAIN in.lines : \A l \in Literals : Count(in.lines[p], l) <= 1
  /\ SizeMax \in Nat /\ 2 * NumVariables < SizeMax /\ \A in \in Inputs : Len(in.lines) < SizeMax
  /\ \A c \in Commands :
       /\ c.tool \in Tools /\ c.heuristic \in SelectionHeuristics
       /\ c.lookup \in {"literalOccurrence", "avl"}
       /\ {c.requested, c.maxLength} \subseteq Nat \cup {NotGiven}
       /\ c.sizes \in SizeRestrictions
       /\ c.tool = "blocked" => c.maxLength = NotGiven /\ ~c.sizes.restricted

VARIABLES
  stage,        \* of main: "Parse", "Collect", "Search", "Done" or "Failed"
  command,      \* the options in use
  wanted,       \* the size of indicesOfCandidateClauses
  candidates,   \* indicesOfCandidateClauses as far as they are collected
  indexed,      \* the clauses in the interval tree
  considered,   \* how many candidates the loop has been through
  found         \* identifiersOfBlockedClauses

searchVars == <<stage, command, wanted, candidates, indexed, considered, found>>
programVars == <<allVars, selectorVars, searchVars>>
-----------------------------------------------------------------------------
(* Parsing and configuration.                                              *)

ProgramInit ==
  /\ ParserInit
  /\ SelectorInit
  /\ stage = "Parse" /\ command = NoCommand
  /\ wanted = 0 /\ candidates = <<>>
  /\ indexed = {} /\ considered = 0 /\ found = {}

ParseText ==
  /\ stage = "Parse"
  /\ ParserStep
  /\ UNCHANGED <<selectorVars, searchVars>>

RefuseText ==
  /\ stage = "Parse" /\ phase = "done" /\ ~returned
  /\ stage' = "Failed"
  /\ UNCHANGED <<allVars, selectorVars, command, wanted, candidates, indexed, considered, found>>

\* numCandidateClauses of the configuration.
NumCandidateClauses(c) ==
  IF c.requested = NotGiven THEN NumClauses ELSE Min({NumClauses, c.requested})

\* initializeClauseCandidateSelector: the number of candidates reaches the selector for
\* two heuristics only; the others get the number of declared clauses.
RequestedFor(c) ==
  IF c.heuristic \in {"Sequential", "Random"} THEN NumCandidateClauses(c) ELSE input.numClauses

Configure(c) ==
  /\ stage = "Parse" /\ phase = "done" /\ returned
  /\ stage' = "Collect"
  /\ command' = c
  /\ InitializeCandidateSequence(c.heuristic, RequestedFor(c), c.maxLength)
  /\ wanted' = IF c.tool = "setBlocked" THEN numGeneratable' ELSE NumCandidateClauses(c)
  /\ UNCHANGED <<allVars, candidates, indexed, considered, found>>

\* The exit for a selector that runs out of candidates is never taken: see SearchTypeOK.
CollectCandidate ==
  /\ stage = "Collect"
  /\ Len(candidates) < wanted
  /\ SelectNextCandidate
  /\ candidates' = Append(candidates, queue[taken + 1])
  /\ UNCHANGED <<allVars, stage, command, wanted, indexed, considered, found>>
-----------------------------------------------------------------------------
(* The eliminator.                                                         *)

\* The formula as the interval tree is created from it.
Formula == [i \in DOMAIN clauses |-> LiteralsOf(i)]

CollectedAll == stage = "Collect" /\ Len(candidates) >= wanted

UseOccurrences ==
  /\ CollectedAll /\ command.lookup = "literalOccurrence"
  /\ stage' = "Search"
  /\ UNCHANGED <<allVars, selectorVars, command, wanted, candidates, indexed, considered, found>>

InitializeAvlTree ==
  /\ CollectedAll /\ command.lookup = "avl"
  /\ Creation(Formula) = "Created"
  /\ stage' = "Search"
  /\ indexed' = Inserted(Formula)
  /\ UNCHANGED <<allVars, selectorVars, command, wanted, candidates, considered, found>>

\* initializeAvlTree returns false or throws, and the program ends.
AvlTreeFails ==
  /\ CollectedAll /\ command.lookup = "avl"
  /\ Creation(Formula) # "Created"
  /\ stage' = "Failed"
  /\ UNCHANGED <<allVars, selectorVars, command, wanted, candidates, indexed, considered, found>>

\* The clauses looked up for the literals of a candidate: what a tree finds is what
\* QueriesExact of AvlIntervalTree says.
EnvironmentOf(lits) ==
  IF command.lookup = "avl" THEN {j \in indexed : LiteralsOf(j) \cap Negated(lits) # {}}
  ELSE UNION {occurrences[-l] : l \in lits}

\* What the generators offer: the literals of the clause, or the sets of those that
\* occur negated; the generator refuses the size 0.
BlockingCandidates(i) ==
  LET overlapping == {l \in LiteralsOf(i) : occurrences[-l] # {}}
      sizes == IF command.sizes.restricted THEN command.sizes.min .. command.sizes.max
               ELSE 1 .. Cardinality(overlapping)
  IN IF command.tool = "blocked" THEN {{l} : l \in LiteralsOf(i)}
     ELSE IF 0 \in sizes THEN {}
     ELSE {lits \in SUBSET overlapping : Cardinality(lits) \in sizes}

ConditionHolds(i, lits, j) ==
  /\ j \in DOMAIN clauses
  /\ IF command.tool = "blocked"
     THEN \A l \in lits : LiteralBlockedCondition(i, l, j)
     ELSE SetBlockedCondition(i, lits, j)

\* Variant: one clause that fulfils the condition is enough.
BlocksSomewhere(i, lits) == \E j \in EnvironmentOf(lits) : ConditionHolds(i, lits, j)

Blocks(i, lits) ==
  /\ EnvironmentOf(lits) # {}
  /\ \A j \in EnvironmentOf(lits) : ConditionHolds(i, lits, j)

\* determineBlockingSet or determineBlockingLiteralOfClause of i has a value.
IsFound(i) == i \in DOMAIN clauses /\ \E lits \in BlockingCandidates(i) : Blocks(i, lits)

\* init of the candidate generator throws.
CheckThrows(i) ==
  /\ command.tool = "setBlocked" /\ command.sizes.restricted
  /\ i \in DOMAIN clauses /\ command.sizes.max < command.sizes.min

\* Variant: the search stops one match early.
MatchesToSearchForLess == Min({NumClauses - 1, Len(candidates)})

\* -nMatches is not registered, so that the number of clauses takes its place.
MatchesToSearchFor == Min({NumClauses, Len(candidates)})

SearchGoesOn ==
  /\ stage = "Search"
  /\ considered < Len(candidates) /\ Cardinality(found) < MatchesToSearchFor

\* Variant: the iterator stays where it is.
NextConsideredSame == considered

NextConsidered == considered + 1

CheckCandidate ==
  LET i == candidates[considered + 1] IN
  /\ SearchGoesOn
  /\ ~CheckThrows(i)
  /\ considered' = NextConsidered
  /\ found' = IF IsFound(i) THEN found \cup {i} ELSE found
  /\ UNCHANGED <<allVars, selectorVars, stage, command, wanted, candidates, indexed>>

\* Nothing catches what init throws.
CheckAborts ==
  /\ SearchGoesOn
  /\ CheckThrows(candidates[considered + 1])
  /\ stage' = "Failed"
  /\ UNCHANGED <<allVars, selectorVars, command, wanted, candidates, indexed, considered, found>>

EndSearch ==
  /\ stage = "Search" /\ ~SearchGoesOn
  /\ stage' = "Done"
  /\ UNCHANGED <<allVars, selectorVars, command, wanted, candidates, indexed, considered, found>>

ProgramNext ==
  \/ ParseText \/ RefuseText
  \/ \E c \in Commands : Configure(c)
  \/ CollectCandidate
  \/ UseOccurrences \/ InitializeAvlTree \/ AvlTreeFails
  \/ CheckCandidate \/ CheckAborts \/ EndSearch

\* The program runs by itself and waits for nothing.
ProgramSpec == ProgramInit /\ [][ProgramNext]_programVars /\ WF_programVars(ProgramNext)
-----------------------------------------------------------------------------
(* Properties.                                                             *)

\* The state has the shape the code's types give it; and the selector has as many
\* candidates left as are still wanted, under every heuristic and restriction: both
\* programs size their vector before they take the first one.
SearchTypeOK ==
  /\ stage \in {"Parse", "Collect", "Search", "Done", "Failed"}
  /\ command \in Commands \cup {NoCommand}
  /\ taken \in 0 .. Len(queue) /\ considered \in 0 .. Len(candidates)
  /\ candidates = SubSeq(queue, 1, taken)
  /\ indexed \cup found \subseteq DOMAIN clauses
  /\ stage = "Collect" => wanted - Len(candidates) \in 0 .. Len(queue) - taken

LookupComplete == command # NoCommand /\ (command.lookup = "avl" => indexed = DOMAIN clauses)

\* What the programs count as removable may be removed all at once, although each of
\* the clauses was found in the formula that still had the others: the formula without
\* all of them is satisfiable only if the formula is.  A tree must know all clauses.
FoundJointlyRedundant ==
  LookupComplete => (Satisfiable(DOMAIN clauses \ found) => Satisfiable(DOMAIN clauses))

\* Clause i is blocked in a way the tool looks for: by literals that occur negated.
Blockable(i) ==
  \E lits \in SUBSET LiteralsOf(i) :
    /\ BlockedBySet(i, lits) /\ ResolutionEnvironment(lits) # {}
    /\ command.tool = "blocked" => Cardinality(lits) = 1
    /\ command.sizes.restricted =>
         /\ Cardinality(lits) \in command.sizes.min .. command.sizes.max
         /\ command.sizes.min > 0
    /\ command.tool = "setBlocked" => \A l \in lits : ResolutionEnvironment({l}) # {}

\* Unless the user limits the candidates, the result does not depend on the heuristic or
\* the lookup: the programs find exactly the blocked clauses among the first indices, as
\* many as there are clauses.  The limits they have of their own cut nothing off.
UnlimitedSearchComplete ==
  (/\ stage = "Done" /\ LookupComplete
   /\ command.requested = NotGiven /\ command.maxLength = NotGiven)
  => found = {i \in DOMAIN clauses : i < NumClauses /\ Blockable(i)}

\* Clauses a clause shares a variable with, in opposite polarity.
Clashing(i) == {j \in DOMAIN clauses : LiteralsOf(j) \cap Negated(LiteralsOf(i)) # {}}

\* Candidate i is not worse than an index j that was left out.
AsGoodAs(i, j) ==
  CASE command.heuristic = "Sequential" -> i < j
    [] command.heuristic = "Random" -> TRUE
    [] command.heuristic = "MinimumClauseOverlap" -> Cardinality(Clashing(i)) <= Cardinality(Clashing(j))
    [] command.heuristic = "MaximumClauseOverlap" -> Cardinality(Clashing(i)) >= Cardinality(Clashing(j))
    [] command.heuristic = "MinimumClauseLength" -> Cardinality(LiteralsOf(i)) <= Cardinality(LiteralsOf(j))
    [] command.heuristic = "MaximumClauseLength" -> Cardinality(LiteralsOf(i)) >= Cardinality(LiteralsOf(j))

ShortEnough(i) == command.maxLength = NotGiven \/ Cardinality(LiteralsOf(i)) <= command.maxLength

\* The candidates are different clauses that are short enough, and none of the others
\* among the first indices would have been the better choice.  An index without a clause
\* takes the place of one only where the order is by index, at random, or the clause
\* clashes with none.
CandidatesAreBest ==
  stage \in {"Search", "Done"} =>
    LET chosen == ToSet(candidates)
        passedOver == {j \in DOMAIN clauses \ chosen : j < NumClauses /\ ShortEnough(j)}
    IN /\ Cardinality(chosen) = Len(candidates)
       /\ \A i \in chosen \cap DOMAIN clauses :
            ShortEnough(i) /\ \A j \in passedOver : AsGoodAs(i, j)
       /\ \A i \in chosen \ DOMAIN clauses, j \in passedOver :
            \/ command.heuristic \in {"Sequential", "Random"}
            \/ command.heuristic = "MaximumClauseOverlap" /\ Clashing(j) = {}

\* What the comments of the eliminators say of every clause that is found.
FoundAreBlocked ==
  \A i \in found : \E lits \in SUBSET LiteralsOf(i) :
    BlockedBySet(i, lits) /\ (command.tool = "blocked" => \E l \in lits : BlockedByLiteral(i, l))

\* Each run of a program ends, with a result or with a failure.
ProgramEnds == <>(stage \in {"Done", "Failed"})
=============================================================================
