---------------------------- MODULE DimacsParser ----------------------------
(***************************************************************************)
(* dimacs::DimacsParser::parseDimacsContent and what it calls: one pass    *)
(* over the lines of a DIMACS text that builds a ProblemDefinition,        *)
(* propagates each unit clause it meets and simplifies the clauses read so *)
(* far by the assignments the propagation made.                            *)
(*                                                                         *)
(* A line is the sequence of its tokens: an integer, or one of two words   *)
(* strtol does not convert.  A parser may be used for several texts; the   *)
(* errno of the C library outlives each of them.                           *)
(***************************************************************************)
EXTENDS ProblemDefinition

CONSTANTS
  Junk,            \* a word without a numeric prefix
  Overflow,        \* a number strtol answers with ERANGE
  Inputs,          \* the texts parsed first
  FollowUps,       \* the texts parsed after one another parse
  Configurations   \* ParserConfiguration values

ASSUME DimacsParserAssumption ==
  /\ Junk \notin Int /\ Overflow \notin Int
  /\ \A in \in Inputs \cup FollowUps :
       /\ in.header \in {"valid", "invalid", "overflow"}
       /\ in.numClauses \in Nat
       /\ in.lines \in Seq(Seq(Int \cup {Junk, Overflow}))
       /\ 0 .. Len(in.lines) \subseteq ClauseIds
  /\ \A c \in Configurations :
       c.performUnitPropagation \in BOOLEAN /\ c.recordParsingErrors \in BOOLEAN

VARIABLES
  phase,          \* where parseDimacsContent stands
  input,          \* the text being parsed
  configuration,  \* of the parser
  counter,        \* processedClauseCounter: lines tried after the header
  unsat,          \* wasFormulaDeterminedToBeUnsat
  erange,         \* errno = ERANGE
  sticky,         \* clauseParsingError.text is not empty
  anyErrors,      \* foundErrorsDuringCurrentParsingAttempt
  foundErrors,    \* the line number of each recorded error
  simplified,     \* how many trail literals the clauses are simplified by
  returned        \* a formula was returned

parserVars == <<phase, input, configuration, counter, unsat, erange, sticky,
                anyErrors, foundErrors, simplified, returned>>
allVars == <<vars, parserVars>>

Phases == {"header", "line", "propagate", "drop", "erase", "finish", "done"}
-----------------------------------------------------------------------------
(* Lines.                                                                  *)

\* The line getline delivers next; none is left: the empty one.
Line == IF counter < Len(input.lines) THEN input.lines[counter + 1] ELSE <<>>

\* splitStringAtDelimiter finds no part unless there are two: such a line is skipped.
Blank(line) == Len(line) <= 1

\* Token p stops parseClauseDefinition; erangeSet is errno as it was before.
Rejects(line, p, erangeSet) ==
  IF p = Len(line) THEN line[p] # 0 ELSE line[p] \notin Literals \/ erangeSet

Malformed(line, erangeSet) ==
  ~Blank(line) /\ \E p \in DOMAIN line : Rejects(line, p, erangeSet)

\* strtol meets a number out of its range before any other token stops the line.
Overflows(line) ==
  /\ ~Blank(line)
  /\ \E p \in DOMAIN line :
       line[p] = Overflow /\ \A q \in 1 .. p - 1 : ~Rejects(line, q, FALSE)

\* The literals of a well-formed line, and how often each occurs.
Written(line) == {line[p] : p \in 1 .. Len(line) - 1}
Count(line, l) == Cardinality({p \in 1 .. Len(line) - 1 : line[p] = l})

\* Variant: any assigned literal counts as true.
AssignmentTouches(line) == \E l \in Written(line) : LiteralValue(l) # "Unknown"

SatisfiedByAssignment(line) == \E l \in Written(line) : IsTrue(l)

\* What is left of a line: the literals whose variable has no value.
Remaining(line) ==
  Unassigned([l \in KnownLiterals |-> Count(line, l)])

\* couldDetermineCurrentClauseIsUnsat is assigned anew for each literal, so it
\* ends up telling about the last one.
DeterminedUnsat(line) ==
  /\ ~SatisfiedByAssignment(line)
  /\ LiteralValue(line[Len(line) - 1]) = ConflictingValue(line[Len(line) - 1])

\* parseClauseDefinition returns a clause.
YieldsClause(line) ==
  ~Blank(line) /\ ~Malformed(line, erange) /\ ~SatisfiedByAssignment(line)

IsUnitClause(bag) == \E l \in KnownLiterals : IsUnit(bag, l)

IsTautology(bag) == \E l \in Literals : bag[l] > 0 /\ bag[-l] > 0
-----------------------------------------------------------------------------
(* Errors.                                                                 *)

\* recordError for each of the given line numbers.
Record(lineNumbers) ==
  /\ anyErrors' = (anyErrors \/ lineNumbers # <<>>)
  /\ foundErrors' =
       IF configuration.recordParsingErrors THEN foundErrors \o lineNumbers ELSE foundErrors

\* The header is line 1; currProcessedLine of the line read last.
CurrentLine == counter + 1
-----------------------------------------------------------------------------
(* Beginning a parse.                                                      *)

\* Variant: the text of an earlier parsing error is still there.
BeginWithOldError(in) ==
  /\ input' = in
  /\ phase' = "header"
  /\ counter' = 0
  /\ unsat' = FALSE
  /\ sticky' = sticky
  /\ anyErrors' = FALSE
  /\ foundErrors' = <<>>
  /\ simplified' = 0
  /\ returned' = FALSE

Begin(in) ==
  /\ input' = in
  /\ phase' = "header"
  /\ counter' = 0
  /\ unsat' = FALSE
  /\ sticky' = FALSE
  /\ anyErrors' = FALSE
  /\ foundErrors' = <<>>
  /\ simplified' = 0
  /\ returned' = FALSE

ParserInit ==
  /\ Init
  /\ input \in Inputs
  /\ configuration \in Configurations
  /\ phase = "header"
  /\ counter = 0
  /\ unsat = FALSE
  /\ erange = FALSE
  /\ sticky = FALSE
  /\ anyErrors = FALSE
  /\ foundErrors = <<>>
  /\ simplified = 0
  /\ returned = FALSE

\* resetInternals for the next text, which gets a ProblemDefinition of its own.
ParseNext(in) ==
  /\ phase = "done"
  /\ Begin(in)
  /\ clauses' = [i \in {} |-> [literals |-> [l \in KnownLiterals |-> 0], satisified |-> FALSE]]
  /\ occurrences' = [l \in Literals |-> {}]
  /\ values' = [v \in Variables |-> "Unknown"]
  /\ trail' = <<>>
  /\ stack' = <<>>
  /\ result' = "Ok"
  /\ UNCHANGED <<configuration, erange>>

\* Both numbers of the header are converted: 0 without a look at errno, others with one.
HeaderConverts ==
  /\ input.header = "valid"
  /\ ~erange \/ (NumVariables = 0 /\ input.numClauses = 0)

\* processProblemDefinitionLine; the parse ends here unless it succeeds.
ReadHeader ==
  /\ phase = "header"
  /\ erange' = (erange \/ input.header = "overflow")
  /\ IF HeaderConverts
     THEN phase' = "line" /\ Record(<<>>)
     ELSE phase' = "done" /\ Record(<<1>>)
  /\ UNCHANGED <<vars, input, configuration, counter, unsat, sticky, simplified, returned>>
-----------------------------------------------------------------------------
(* One round of the loop.                                                  *)

\* Variant: the end of the stream is noticed one line late.
AfterRoundLate == IF counter' <= Len(input.lines) THEN "line" ELSE "finish"

\* The loop goes on while the stream has more to read.
AfterRound == IF counter' < Len(input.lines) THEN "line" ELSE "finish"

\* What every round does with its line before it looks at the clause.
Consume ==
  /\ phase = "line"
  /\ counter' = counter + 1
  /\ erange' = (erange \/ Overflows(Line))
  /\ sticky' = (sticky \/ (configuration.recordParsingErrors /\ Malformed(Line, erange)))
  /\ unsat' = (unsat \/ (YieldsClause(Line) /\ DeterminedUnsat(Line)))
  /\ UNCHANGED <<input, configuration, returned>>

StickyError == IF sticky' THEN <<CurrentLine + 1>> ELSE <<>>

SurplusLine ==
  /\ Consume
  /\ counter + 1 > input.numClauses
  /\ phase' = "finish"
  /\ Record(StickyError)
  /\ UNCHANGED <<vars, simplified>>

LineWithoutClause ==
  /\ Consume
  /\ counter + 1 <= input.numClauses
  /\ ~YieldsClause(Line)
  /\ phase' = AfterRound
  /\ Record(StickyError)
  /\ UNCHANGED <<vars, simplified>>

\* A clause among the declared ones, which the following three dispose of.
ConsumeClause ==
  /\ Consume
  /\ counter + 1 <= input.numClauses
  /\ YieldsClause(Line)

PropagatesLine == configuration.performUnitPropagation /\ IsUnitClause(Remaining(Line))

PropagateUnit ==
  /\ ConsumeClause
  /\ PropagatesLine
  /\ \E l \in Literals : IsUnit(Remaining(Line), l) /\ Call(l, <<>>)
  /\ simplified' = Len(trail)
  /\ phase' = "propagate"
  /\ Record(StickyError)

RejectTautology ==
  /\ ConsumeClause
  /\ ~PropagatesLine
  /\ IsTautology(Remaining(Line))
  /\ phase' = AfterRound
  /\ Record(StickyError \o <<CurrentLine + 1>>)
  /\ UNCHANGED <<vars, simplified>>

\* addClause(processedClauseCounter - 1, clause); its answer is not looked at.
StoreLine ==
  /\ ConsumeClause
  /\ ~PropagatesLine
  /\ ~IsTautology(Remaining(Line))
  /\ StoreClause(counter, Remaining(Line))
  /\ phase' = AfterRound
  /\ Record(StickyError)
  /\ UNCHANGED <<assignment, stack, result, simplified>>

\* The recursion of propagate().
Propagating ==
  /\ phase = "propagate"
  /\ PropagationStep
  /\ UNCHANGED parserVars
-----------------------------------------------------------------------------
(* After propagate() has returned.                                         *)

NextRound == IF counter < Len(input.lines) THEN "line" ELSE "finish"

\* A conflict is a verdict, a failure an error; both leave the assignments made so
\* far in place and the clauses as they are.  A call that assigned nothing would
\* end the parse without formula and without error.
PropagationReturned ==
  /\ phase = "propagate" /\ Idle
  /\ unsat' = (unsat \/ result = "Conflict")
  /\ Record(IF result = "ErrorDuringPropagation" THEN <<CurrentLine - 1>> ELSE <<>>)
  /\ phase' = IF result # "Ok" THEN NextRound
              ELSE IF Len(trail) <= simplified THEN "done" ELSE "drop"
  /\ UNCHANGED <<vars, input, configuration, counter, erange, sticky, simplified, returned>>

\* Variant: only the newest assignment is used.
PendingNewest == trail[Len(trail)]

\* The literals the clauses are not simplified by yet, in trail order: first the
\* clauses that contain the literal go, then its negation goes from the others.
Pending == trail[simplified + 1]

\* removeClausesSatisfiedByUnitPropagation stops at an index without a clause.
DropSatisfied ==
  /\ phase = "drop"
  /\ IF MissingClauses(Pending) = {}
     THEN DropClauses(occurrences[Pending]) /\ Record(<<>>)
     ELSE /\ \E S \in SUBSET (occurrences[Pending] \cap DOMAIN clauses) : DropClauses(S)
          /\ Record(<<CurrentLine>>)
  /\ phase' = "erase"
  /\ UNCHANGED <<assignment, stack, result, input, configuration, counter, unsat, erange,
                 sticky, simplified, returned>>

EraseFalsified ==
  /\ phase = "erase"
  /\ IF MissingClauses(-Pending) = {}
     THEN EraseLiteral(-Pending, occurrences[-Pending]) /\ Record(<<>>)
     ELSE /\ \E S \in SUBSET (occurrences[-Pending] \cap DOMAIN clauses) :
               EraseLiteral(-Pending, S)
          /\ Record(<<CurrentLine>>)
  /\ simplified' = simplified + 1
  /\ phase' = IF simplified' < Len(trail) THEN "drop" ELSE NextRound
  /\ UNCHANGED <<assignment, stack, result, input, configuration, counter, unsat, erange,
                 sticky, returned>>

\* The number of lines tried must be the declared number of clauses.
Finish ==
  /\ phase = "finish"
  /\ Record(IF counter # input.numClauses THEN <<CurrentLine>> ELSE <<>>)
  /\ returned' = ~anyErrors'
  /\ phase' = "done"
  /\ UNCHANGED <<vars, input, configuration, counter, unsat, erange, sticky, simplified>>

ParserStep ==
  \/ ReadHeader
  \/ SurplusLine
  \/ LineWithoutClause
  \/ PropagateUnit
  \/ RejectTautology
  \/ StoreLine
  \/ Propagating
  \/ PropagationReturned
  \/ DropSatisfied
  \/ EraseFalsified
  \/ Finish

ParserNext == ParserStep \/ \E in \in FollowUps : ParseNext(in)

\* The parser runs to its end by itself; that another text follows is up to the caller.
ParserSpec == ParserInit /\ [][ParserNext]_allVars /\ WF_allVars(ParserStep)
-----------------------------------------------------------------------------
(* Properties.                                                             *)

\* The state has the shape the code's types give it.
ParserTypeOK ==
  /\ TypeOK
  /\ phase \in Phases
  /\ counter \in Nat
  /\ {unsat, erange, sticky, anyErrors, returned} \subseteq BOOLEAN
  /\ foundErrors \in Seq(Nat \ {0})
  /\ simplified \in 0 .. Len(trail)
  /\ phase # "propagate" => Idle

\* The lines whose clauses belong to the formula read so far.
ClauseLines == {p \in 1 .. Len(input.lines) :
  /\ p <= counter /\ p <= input.numClauses
  /\ ~Blank(input.lines[p]) /\ ~Malformed(input.lines[p], FALSE)}

\* Between two rounds, as long as no error and no conflict was met.
Undisturbed == phase \in {"line", "done"} /\ ~anyErrors /\ ~unsat

\* Between rounds the store is exactly the text read so far under the assignment:
\* clause i is line i + 1 without its assigned literals, and is there unless one of
\* them is true.  Nothing is lost to the simplification, nothing escapes it, and no
\* clause changes its index.
StoreIsTextUnderAssignment ==
  (Undisturbed /\ configuration.recordParsingErrors) =>
    /\ DOMAIN clauses = {p - 1 : p \in {q \in ClauseLines : ~SatisfiedByAssignment(input.lines[q])}}
    /\ \A i \in DOMAIN clauses : clauses[i].literals = Remaining(input.lines[i + 1])

SatisfiesLine(total, line) == \E l \in Written(line) : total[Variable(l)] = SatisfyingValue(l)

\* A model of the store that extends the assignment is a model of every clause read:
\* whoever solves the returned formula solves the text.
NoConstraintLost ==
  Undisturbed =>
    \A total \in TotalAssignments :
      (/\ \A v \in Variables : values[v] # "Unknown" => total[v] = values[v]
       /\ \A i \in DOMAIN clauses : Satisfies(total, clauses[i].literals))
      => \A p \in ClauseLines : SatisfiesLine(total, input.lines[p])

\* With unit propagation no clause is left that is unit or empty, whether it became so
\* when it was read or when a later line simplified it; only a line that repeats a
\* literal may leave one behind.
NoUnitLeft ==
  (Undisturbed /\ configuration.performUnitPropagation) =>
    \A i \in DOMAIN clauses :
      (\A l \in Literals : Count(input.lines[i + 1], l) <= 1) =>
        \E k, l \in Literals :
          k # l /\ clauses[i].literals[k] > 0 /\ clauses[i].literals[l] > 0

\* A text whose lines are all clauses of the declared variables, as many as declared,
\* none a tautology.
WellFormedInput ==
  /\ input.header = "valid"
  /\ Len(input.lines) = input.numClauses
  /\ \A p \in 1 .. Len(input.lines) :
       /\ ~Blank(input.lines[p]) /\ ~Malformed(input.lines[p], FALSE)
       /\ ~\E l \in Written(input.lines[p]) : -l \in Written(input.lines[p])

\* A well-formed text with clauses is accepted, whatever was parsed before.
WellFormedInputAccepted ==
  (phase = "done" /\ WellFormedInput /\ input.numClauses > 0) => returned /\ ~anyErrors

\* Why an error may name line e: the header, which an errno of an earlier text may make
\* fail; a malformed line at e or before it, as its message is never cleared; a tautology
\* at e; at the end, another number of lines than declared.
HeaderAtFault(e) == e = 1 /\ ~HeaderConverts
MalformedUpTo(e) ==
  \E p \in 1 .. Len(input.lines) : p + 1 <= e /\ Malformed(input.lines[p], FALSE)
TautologyAt(e) ==
  \E p \in 1 .. Len(input.lines) :
    p + 1 = e /\ \E l \in Written(input.lines[p]) \cap Literals : -l \in Written(input.lines[p])
MiscountedAt(e) == e = counter + 1 /\ counter # input.numClauses

\* With errors recorded, a parse ends either with a formula or with errors; each
\* malformed line it read is among them, and each of them has a cause at or before the line
\* it names: what an earlier text left behind shows in the header's line only, and neither
\* propagation nor simplification fails.
ErrorsExplainRejection ==
  (phase = "done" /\ configuration.recordParsingErrors) =>
    /\ returned <=> foundErrors = <<>>
    /\ \A p \in 1 .. Len(input.lines) :
         (p <= counter /\ Malformed(input.lines[p], FALSE))
           => \E e \in DOMAIN foundErrors : foundErrors[e] = p + 1
    /\ \A d \in DOMAIN foundErrors :
         \/ HeaderAtFault(foundErrors[d])
         \/ MalformedUpTo(foundErrors[d])
         \/ TautologyAt(foundErrors[d])
         \/ MiscountedAt(foundErrors[d])

\* A formula reported as unsatisfiable has no model.
UnsatVerdictSound ==
  (phase = "done" /\ returned /\ unsat) =>
    \A total \in TotalAssignments :
      \E p \in ClauseLines : ~SatisfiesLine(total, input.lines[p])

\* Every text is parsed to an end: the recursion of propagate() and the loops finish.
ParseTerminates == (phase # "done") ~> (phase = "done")
=============================================================================
