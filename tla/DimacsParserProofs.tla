------------------------- MODULE DimacsParserProofs -------------------------
(***************************************************************************)
(* Proofs about DimacsParser, for every text, every configuration and      *)
(* every sequence of texts: the parser keeps the formula it builds and     *)
(* simplifies in step with its lookup, whichever way propagate() goes; it  *)
(* loses no constraint, leaves no unit clause, explains each rejection and *)
(* accepts what is well-formed.                                            *)
(***************************************************************************)
EXTENDS DimacsParser, ProblemDefinitionProofs, FiniteSetTheorems, TLAPS

Texts == Inputs \cup FollowUps

\* Where the parser stands in its text and in the simplification.
ProgressInv ==
  /\ phase \in Phases /\ input \in Texts /\ configuration \in Configurations
  /\ counter \in Nat
  /\ phase = "header" => counter = 0
  /\ phase = "line" => counter <= Len(input.lines)
  /\ phase = "propagate" => counter # 0
  /\ simplified \in 0 .. Len(trail)
  /\ phase \in {"drop", "erase"} => simplified < Len(trail)
  /\ phase # "propagate" => Idle

\* What is recorded of errors.
RecordsTypeOK ==
  /\ {unsat, erange, sticky, anyErrors, returned} \subseteq BOOLEAN
  /\ foundErrors \in Seq(Nat \ {0})

\* The inductive invariant.
ParserInv == Inv /\ ProgressInv /\ RecordsTypeOK
-----------------------------------------------------------------------------
(* Lines.                                                                  *)

\* What the assumption says of a text.
LEMMA TextFacts ==
  ASSUME NEW in \in Texts
  PROVE  /\ in.header \in {"valid", "invalid", "overflow"}
         /\ in.numClauses \in Nat
         /\ in.lines \in Seq(Seq(Int \cup {Junk, Overflow}))
         /\ Len(in.lines) \in Nat
         /\ 0 .. Len(in.lines) \subseteq ClauseIds
<1>1. /\ in.header \in {"valid", "invalid", "overflow"}
      /\ in.numClauses \in Nat
      /\ in.lines \in Seq(Seq(Int \cup {Junk, Overflow}))
      /\ 0 .. Len(in.lines) \subseteq ClauseIds
  BY DimacsParserAssumption DEF DimacsParserAssumption, Texts
<1>2. Len(in.lines) \in Nat
  BY <1>1, LenProperties
<1> QED BY <1>1, <1>2

\* Each line is a sequence of tokens, the one behind the last is empty.
LEMMA LineType ==
  ASSUME input \in Texts, counter \in Nat
  PROVE  Line \in Seq(Int \cup {Junk, Overflow})
<1>1. input.lines \in Seq(Seq(Int \cup {Junk, Overflow})) /\ Len(input.lines) \in Nat
  BY TextFacts
<1>2. CASE counter < Len(input.lines)
  <2>1. counter + 1 \in 1 .. Len(input.lines)
    BY <1>1, <1>2
  <2> QED BY <1>1, <1>2, <2>1, ElementOfSeq DEF Line
<1>3. CASE ~(counter < Len(input.lines))
  BY <1>3, EmptySeq DEF Line
<1> QED BY <1>2, <1>3

\* How often a literal occurs in a line is a number, positive if it occurs.
LEMMA CountType ==
  ASSUME NEW T, NEW line \in Seq(T), NEW l
  PROVE  /\ Count(line, l) \in Nat
         /\ Count(line, l) > 0 <=> l \in Written(line)
<1> DEFINE P == {p \in 1 .. Len(line) - 1 : line[p] = l}
<1>1. Len(line) \in Nat
  BY LenProperties
<1>2. IsFiniteSet(1 .. Len(line) - 1)
  BY <1>1, FS_Interval
<1>3. IsFiniteSet(P)
  BY <1>2, FS_Subset
<1>4. Cardinality(P) \in Nat /\ (Cardinality(P) = 0 <=> P = {})
  BY <1>3, FS_CardinalityType, FS_EmptySet
<1>5. P # {} <=> l \in Written(line)
  BY DEF Written
<1> QED BY <1>4, <1>5 DEF Count

\* What is left of a line is a bag of the literals written in it.
LEMMA RemainingType ==
  ASSUME input \in Texts, counter \in Nat
  PROVE  /\ Remaining(Line) \in Bags
         /\ \A l \in KnownLiterals : Remaining(Line)[l] > 0 => l \in Written(Line)
<1> DEFINE bag == [l \in KnownLiterals |-> Count(Line, l)]
<1>1. \A l \in KnownLiterals : Count(Line, l) \in Nat /\ (Count(Line, l) > 0 <=> l \in Written(Line))
  BY LineType, CountType
<1>2. bag \in Bags
  BY <1>1 DEF Bags
<1>3. Remaining(Line) = Unassigned(bag)
  BY DEF Remaining
<1>4. Remaining(Line) \in Bags
  BY <1>2, <1>3, UnassignedType
<1>5. \A l \in KnownLiterals : Remaining(Line)[l] > 0 => Count(Line, l) > 0
  BY <1>1, <1>3 DEF Unassigned
<1> QED BY <1>1, <1>4, <1>5

\* What is written in a well-formed line are declared literals.
LEMMA WrittenInRange ==
  ASSUME input \in Texts, counter \in Nat, ~Blank(Line), ~Malformed(Line, erange)
  PROVE  Written(Line) \subseteq Literals
<1>1. Len(Line) \in Nat
  BY LineType, LenProperties
<1>2. \A p \in DOMAIN Line : ~Rejects(Line, p, erange)
  BY DEF Malformed
<1>3. DOMAIN Line = 1 .. Len(Line)
  BY LineType, LenProperties
<1>4. \A n \in Nat : \A p \in 1 .. n - 1 : p \in 1 .. n /\ p # n
  OBVIOUS
<1>5. ASSUME NEW p \in 1 .. Len(Line) - 1
      PROVE  Line[p] \in Literals
  <2>1. p \in DOMAIN Line /\ p # Len(Line)
    BY <1>1, <1>3, <1>4, Zenon
  <2> QED BY <1>2, <2>1 DEF Rejects
<1> QED BY <1>5 DEF Written

LEMMA YieldedInRange ==
  ASSUME input \in Texts, counter \in Nat, YieldsClause(Line)
  PROVE  InRange(Remaining(Line))
  BY WrittenInRange, RemainingType DEF YieldsClause, InRange
-----------------------------------------------------------------------------
(* Errors.                                                                 *)

\* Recording line numbers keeps the record well-formed.
LEMMA RecordType ==
  ASSUME RecordsTypeOK, NEW s \in Seq(Nat \ {0}), Record(s)
  PROVE  anyErrors' \in BOOLEAN /\ foundErrors' \in Seq(Nat \ {0})
<1>1. foundErrors \o s \in Seq(Nat \ {0})
  BY ConcatProperties DEF RecordsTypeOK
<1>2. foundErrors' \in Seq(Nat \ {0})
  BY <1>1 DEF Record, RecordsTypeOK
<1>3. anyErrors' \in BOOLEAN
  BY DEF Record, RecordsTypeOK
<1> QED BY <1>2, <1>3

\* The line numbers the code records.
LEMMA LineNumbers ==
  ASSUME counter \in Nat
  PROVE  /\ <<>> \in Seq(Nat \ {0}) /\ <<1>> \in Seq(Nat \ {0})
         /\ <<CurrentLine>> \in Seq(Nat \ {0}) /\ <<CurrentLine + 1>> \in Seq(Nat \ {0})
         /\ StickyError \in Seq(Nat \ {0})
         /\ StickyError \o <<CurrentLine + 1>> \in Seq(Nat \ {0})
         /\ counter # 0 => <<CurrentLine - 1>> \in Seq(Nat \ {0})
<1>1. CurrentLine \in Nat \ {0} /\ CurrentLine + 1 \in Nat \ {0}
  BY DEF CurrentLine
<1>2. counter # 0 => CurrentLine - 1 \in Nat \ {0}
  BY DEF CurrentLine
<1>3. <<>> \in Seq(Nat \ {0}) /\ <<1>> \in Seq(Nat \ {0})
  OBVIOUS
<1>4. <<CurrentLine>> \in Seq(Nat \ {0}) /\ <<CurrentLine + 1>> \in Seq(Nat \ {0})
  BY <1>1
<1>5. StickyError \in Seq(Nat \ {0})
  BY <1>3, <1>4 DEF StickyError
<1>6. StickyError \o <<CurrentLine + 1>> \in Seq(Nat \ {0})
  BY <1>4, <1>5, ConcatProperties
<1> QED BY <1>2, <1>3, <1>4, <1>5, <1>6
-----------------------------------------------------------------------------
(* The trail only grows.                                                   *)

\* Entering propagate() assigns one literal at most.
LEMMA CallGrowsTrail ==
  ASSUME AssignmentInv, NEW callers, NEW l, Call(l, callers)
  PROVE  Len(trail') \in Nat /\ Len(trail) \in Nat /\ Len(trail) <= Len(trail')
<1>1. trail \in Seq(Literals) /\ Len(trail) \in Nat
  BY LenProperties DEF AssignmentInv, AssignmentTypeOK
<1>2. trail' = trail \/ trail' = Append(trail, l)
  BY DEF Call, CallAssigned, CallRefused, CallAssigns, RecordAssignment, assignment
<1>3. Len(Append(trail, l)) = Len(trail) + 1
  BY <1>1
<1> QED BY <1>1, <1>2, <1>3

LEMMA PropagationGrowsTrail ==
  ASSUME AssignmentInv, PropagationStep
  PROVE  Len(trail') \in Nat /\ Len(trail) \in Nat /\ Len(trail) <= Len(trail')
<1>1. CASE trail' = trail
  BY <1>1, LenProperties DEF AssignmentInv, AssignmentTypeOK
<1>2. CASE \E l, callers : Call(l, callers)
  BY <1>2, CallGrowsTrail
<1> QED BY <1>1, <1>2 DEF PropagationStep, VisitClause, ReturnFromCall, assignment

\* Entering propagate() extends the trail, and changes the literals of no clause.
LEMMA CallKeeps ==
  ASSUME StoreInv, AssignmentInv, NEW callers, NEW l, Call(l, callers)
  PROVE  /\ \A p \in 1 .. Len(trail) : trail'[p] = trail[p]
         /\ DOMAIN clauses' = DOMAIN clauses
         /\ \A j \in DOMAIN clauses : clauses'[j].literals = clauses[j].literals
<1>1. CASE UNCHANGED <<store, assignment>>
  BY <1>1 DEF store, assignment
<1>2. CASE CallAssigns(l, callers)
  <2>1. trail \in Seq(Literals) /\ l \in Literals /\ trail' = Append(trail, l)
    BY <1>2 DEF CallAssigns, RecordAssignment, ConflictVerdicts, AssignmentInv, AssignmentTypeOK
  <2>2. PICK S : MarkSatisfied(S)
    BY <1>2 DEF CallAssigns
  <2> QED BY <2>1, <2>2, AppendProperties, MarkSatisfiedKeepsLiterals
<1> QED BY <1>1, <1>2 DEF Call, CallAssigned, CallRefused

LEMMA PropagationKeeps ==
  ASSUME StoreInv, AssignmentInv, PropagationStep
  PROVE  /\ \A p \in 1 .. Len(trail) : trail'[p] = trail[p]
         /\ DOMAIN clauses' = DOMAIN clauses
         /\ \A j \in DOMAIN clauses : clauses'[j].literals = clauses[j].literals
<1>1. CASE UNCHANGED <<store, assignment>>
  BY <1>1 DEF store, assignment
<1>2. CASE \E l, callers : Call(l, callers)
  BY <1>2, CallKeeps
<1> QED BY <1>1, <1>2 DEF PropagationStep, VisitClause, ReturnFromCall
-----------------------------------------------------------------------------
(* The steps.                                                              *)

\* A step that leaves the formula and the assignment alone.
LEMMA FormulaUnchanged ==
  ASSUME Inv, UNCHANGED vars
  PROVE  Inv' /\ trail' = trail /\ (Idle' <=> Idle)
<1>1. Inv'
  BY InvInductive
<1> QED BY <1>1 DEF vars, Idle

LEMMA ParserInvInitially == ParserInit => ParserInv
<1> SUFFICES ASSUME ParserInit PROVE ParserInv
  OBVIOUS
<1>1. Inv /\ Idle /\ trail = <<>>
  BY InvInitially DEF ParserInit, Init, Idle
<1>2. Len(trail) = 0 /\ 0 \in 0 .. 0
  BY <1>1, EmptySeq
<1>3. ProgressInv
  BY <1>1, <1>2 DEF ParserInit, ProgressInv, Phases, Texts
<1>4. foundErrors \in Seq(Nat \ {0})
  BY EmptySeq DEF ParserInit
<1>5. RecordsTypeOK
  BY <1>4 DEF ParserInit, RecordsTypeOK
<1> QED BY <1>1, <1>3, <1>5 DEF ParserInv

LEMMA ParseNextInv ==
  ASSUME ParserInv, NEW in \in FollowUps, ParseNext(in)
  PROVE  ParserInv'
<1>1. Init'
  BY DEF ParseNext, Init
<1>2. Inv' /\ Idle' /\ trail' = <<>>
  <2>1. Inv'
    BY <1>1, InvInitially, PTL
  <2> QED BY <2>1 DEF ParseNext, Idle
<1>3. Len(trail') = 0 /\ 0 \in 0 .. 0
  BY <1>2, EmptySeq
<1>4. ProgressInv'
  BY <1>2, <1>3 DEF ParserInv, ParseNext, Begin, ProgressInv, Phases, Texts
<1>5. <<>> \in Seq(Nat \ {0})
  BY EmptySeq
<1>6. RecordsTypeOK'
  BY <1>5 DEF ParserInv, ParseNext, Begin, RecordsTypeOK
<1> QED BY <1>2, <1>4, <1>6 DEF ParserInv

LEMMA ReadHeaderInv ==
  ASSUME ParserInv, ReadHeader
  PROVE  ParserInv'
<1>1. Inv' /\ trail' = trail /\ (Idle' <=> Idle)
  BY FormulaUnchanged DEF ParserInv, ReadHeader
<1>2. /\ phase = "header" /\ phase' \in {"line", "done"}
      /\ erange' = (erange \/ input.header = "overflow")
      /\ \E s \in {<<>>, <<1>>} : Record(s)
      /\ UNCHANGED <<input, configuration, counter, unsat, sticky, simplified, returned>>
  BY DEF ReadHeader
<1>3. Len(input.lines) \in Nat
  BY TextFacts DEF ParserInv, ProgressInv
<1>4. ProgressInv'
  BY <1>1, <1>2, <1>3 DEF ParserInv, ProgressInv, Phases
<1>5. anyErrors' \in BOOLEAN /\ foundErrors' \in Seq(Nat \ {0})
  BY <1>2, RecordType, LineNumbers DEF ParserInv, ProgressInv
<1>6. RecordsTypeOK'
  BY <1>2, <1>5 DEF ParserInv, RecordsTypeOK
<1> QED BY <1>1, <1>4, <1>6 DEF ParserInv

\* The invariant after a round, whatever was done with its clause.
LEMMA ConsumeInv ==
  ASSUME ParserInv, Consume, NEW s \in Seq(Nat \ {0}), Record(s), Inv',
         \/ phase' \in {AfterRound, "finish"} /\ Idle' /\ UNCHANGED <<trail, simplified>>
         \/ phase' = "propagate" /\ simplified' \in 0 .. Len(trail')
  PROVE  ParserInv'
<1>1. /\ phase = "line" /\ counter' = counter + 1 /\ counter \in Nat
      /\ UNCHANGED <<input, configuration, returned>>
  BY DEF Consume, ParserInv, ProgressInv
<1>2. Len(input.lines) \in Nat
  BY TextFacts DEF ParserInv, ProgressInv
<1>3. AfterRound \in {"line", "finish"} /\ (AfterRound = "line" => counter' <= Len(input'.lines))
  BY <1>1, <1>2 DEF AfterRound
<1>4. simplified' \in 0 .. Len(trail')
  BY DEF ParserInv, ProgressInv
<1>5. counter' \in Nat /\ counter' # 0
  BY <1>1
<1>6. ProgressInv'
  BY <1>1, <1>3, <1>4, <1>5 DEF ParserInv, ProgressInv, Phases
<1>7. anyErrors' \in BOOLEAN /\ foundErrors' \in Seq(Nat \ {0})
  BY RecordType DEF ParserInv
<1>8. {erange', sticky', unsat', returned'} \subseteq BOOLEAN
  BY <1>1 DEF Consume, ParserInv, RecordsTypeOK
<1>9. RecordsTypeOK'
  BY <1>7, <1>8 DEF RecordsTypeOK
<1> QED BY <1>6, <1>9 DEF ParserInv

LEMMA SurplusLineInv ==
  ASSUME ParserInv, SurplusLine
  PROVE  ParserInv'
<1>1. Inv' /\ Idle'
  BY FormulaUnchanged DEF ParserInv, ProgressInv, SurplusLine, Consume
<1> QED BY <1>1, ConsumeInv, LineNumbers DEF SurplusLine, ParserInv, ProgressInv, vars

LEMMA LineWithoutClauseInv ==
  ASSUME ParserInv, LineWithoutClause
  PROVE  ParserInv'
<1>1. Inv' /\ Idle'
  BY FormulaUnchanged DEF ParserInv, ProgressInv, LineWithoutClause, Consume
<1> QED BY <1>1, ConsumeInv, LineNumbers DEF LineWithoutClause, ParserInv, ProgressInv, vars

LEMMA RejectTautologyInv ==
  ASSUME ParserInv, RejectTautology
  PROVE  ParserInv'
<1>1. Inv' /\ Idle'
  BY FormulaUnchanged DEF ParserInv, ProgressInv, RejectTautology, ConsumeClause, Consume
<1> QED BY <1>1, ConsumeInv, LineNumbers DEF RejectTautology, ConsumeClause, ParserInv, ProgressInv, vars

LEMMA PropagateUnitInv ==
  ASSUME ParserInv, PropagateUnit
  PROVE  ParserInv'
<1>1. PICK l \in Literals : Call(l, <<>>)
  BY DEF PropagateUnit
<1>2. l \in KnownLiterals
  BY LiteralFacts
<1>3. Inv'
  BY <1>1, <1>2, CallInvariant, NoCallersOK DEF ParserInv, Inv
<1>4. Len(trail) \in Nat /\ Len(trail') \in Nat /\ Len(trail) <= Len(trail')
  BY <1>1, CallGrowsTrail DEF ParserInv, Inv
<1>5. phase' = "propagate" /\ simplified' \in 0 .. Len(trail')
  BY <1>4 DEF PropagateUnit
<1> QED BY <1>3, <1>5, ConsumeInv, LineNumbers DEF PropagateUnit, ConsumeClause, ParserInv, ProgressInv

LEMMA StoreLineInv ==
  ASSUME ParserInv, StoreLine
  PROVE  ParserInv'
<1>1. phase = "line" /\ Idle /\ input \in Texts /\ counter \in Nat /\ counter <= Len(input.lines)
  BY DEF ParserInv, ProgressInv, StoreLine, ConsumeClause, Consume
<1>2. counter \in ClauseIds
  BY <1>1, TextFacts
<1>3. StoreInv'
  BY <1>1, <1>2, RemainingType, StoreClauseInv DEF StoreLine, ParserInv, Inv
<1>4. Inv' /\ Idle'
  BY <1>1, <1>3, StoreOperationInv DEF ParserInv, StoreLine, assignment, Idle
<1> QED BY <1>4, ConsumeInv, LineNumbers DEF StoreLine, ConsumeClause, ParserInv, ProgressInv, assignment

LEMMA PropagatingInv ==
  ASSUME ParserInv, Propagating
  PROVE  ParserInv'
<1>1. Inv'
  BY PropagationStepInv DEF ParserInv, Propagating
<1>2. Len(trail') \in Nat /\ Len(trail) \in Nat /\ Len(trail) <= Len(trail')
  BY PropagationGrowsTrail DEF ParserInv, Inv, Propagating
<1>3. phase = "propagate" /\ UNCHANGED parserVars
  BY DEF Propagating
<1>4. ProgressInv'
  BY <1>2, <1>3 DEF ParserInv, ProgressInv, parserVars
<1>5. RecordsTypeOK'
  BY <1>3 DEF ParserInv, RecordsTypeOK, parserVars
<1> QED BY <1>1, <1>4, <1>5 DEF ParserInv

\* Where the parser goes on after a simplification.
LEMMA NextRoundFacts ==
  NextRound \in {"line", "finish"} /\ (NextRound = "line" => counter < Len(input.lines))
  BY DEF NextRound

LEMMA PropagationReturnedInv ==
  ASSUME ParserInv, PropagationReturned
  PROVE  ParserInv'
<1>1. Inv' /\ trail' = trail /\ Idle'
  BY FormulaUnchanged DEF ParserInv, PropagationReturned
<1>2. /\ phase = "propagate" /\ counter \in Nat /\ counter # 0 /\ simplified \in 0 .. Len(trail)
      /\ phase' = IF result # "Ok" THEN NextRound
                  ELSE IF Len(trail) <= simplified THEN "done" ELSE "drop"
      /\ UNCHANGED <<input, configuration, counter, erange, sticky, simplified, returned>>
  BY DEF ParserInv, ProgressInv, PropagationReturned
<1>3. Len(trail) \in Nat /\ Len(input.lines) \in Nat
  BY TextFacts, LenProperties DEF ParserInv, ProgressInv, Inv, AssignmentInv, AssignmentTypeOK
<1>4. /\ phase' \in {"line", "finish", "done", "drop"}
      /\ phase' = "drop" => simplified < Len(trail)
      /\ phase' = "line" => counter < Len(input.lines)
  BY <1>2, <1>3, NextRoundFacts
<1>5. ProgressInv'
  BY <1>1, <1>2, <1>3, <1>4 DEF ParserInv, ProgressInv, Phases
<1>6. \E s \in Seq(Nat \ {0}) : Record(s)
  BY <1>2, LineNumbers DEF PropagationReturned
<1>7. anyErrors' \in BOOLEAN /\ foundErrors' \in Seq(Nat \ {0})
  BY <1>6, RecordType DEF ParserInv
<1>8. unsat' \in BOOLEAN
  BY DEF PropagationReturned
<1>9. RecordsTypeOK'
  BY <1>2, <1>7, <1>8 DEF ParserInv, RecordsTypeOK
<1> QED BY <1>1, <1>5, <1>9 DEF ParserInv

\* The literal the clauses are simplified by next is assigned.
LEMMA PendingType ==
  ASSUME ParserInv, phase \in {"drop", "erase"}
  PROVE  /\ Pending \in Literals /\ -Pending \in Literals
         /\ simplified \in Nat /\ Len(trail) \in Nat /\ simplified < Len(trail)
<1>1. trail \in Seq(Literals) /\ Len(trail) \in Nat
  BY LenProperties DEF ParserInv, Inv, AssignmentInv, AssignmentTypeOK
<1>2. simplified \in Nat /\ simplified < Len(trail)
  BY <1>1 DEF ParserInv, ProgressInv
<1>3. simplified + 1 \in 1 .. Len(trail)
  BY <1>1, <1>2
<1>4. Pending \in Literals
  BY <1>1, <1>3, ElementOfSeq DEF Pending
<1> QED BY <1>1, <1>2, <1>4, LiteralFacts

LEMMA DropSatisfiedInv ==
  ASSUME ParserInv, DropSatisfied
  PROVE  ParserInv'
<1>1. /\ phase = "drop" /\ phase' = "erase" /\ Idle /\ counter \in Nat
      /\ UNCHANGED <<values, trail, stack, result, input, configuration, counter, unsat, erange,
                     sticky, simplified, returned>>
  BY DEF ParserInv, ProgressInv, DropSatisfied, assignment
<1>2. \E S : DropClauses(S)
  BY DEF DropSatisfied
<1>3. Inv'
  BY <1>1, <1>2, DropClausesInv, StoreOperationInv DEF ParserInv, Inv
<1>4. ProgressInv'
  BY <1>1 DEF ParserInv, ProgressInv, Phases, Idle
<1>5. \E s \in Seq(Nat \ {0}) : Record(s)
  BY <1>1, LineNumbers DEF DropSatisfied
<1>6. anyErrors' \in BOOLEAN /\ foundErrors' \in Seq(Nat \ {0})
  BY <1>5, RecordType DEF ParserInv
<1>7. RecordsTypeOK'
  BY <1>1, <1>6 DEF ParserInv, RecordsTypeOK
<1> QED BY <1>3, <1>4, <1>7 DEF ParserInv

LEMMA EraseFalsifiedInv ==
  ASSUME ParserInv, EraseFalsified
  PROVE  ParserInv'
<1>1. /\ phase = "erase" /\ simplified' = simplified + 1 /\ Idle /\ counter \in Nat
      /\ phase' = IF simplified' < Len(trail) THEN "drop" ELSE NextRound
      /\ UNCHANGED <<values, trail, stack, result, input, configuration, counter, unsat, erange,
                     sticky, returned>>
  BY DEF ParserInv, ProgressInv, EraseFalsified, assignment
<1>2. \E S : EraseLiteral(-Pending, S)
  BY DEF EraseFalsified
<1>3. Inv'
  BY <1>1, <1>2, PendingType, EraseLiteralInv, StoreOperationInv DEF ParserInv, Inv
<1>4. simplified \in Nat /\ Len(trail) \in Nat /\ simplified < Len(trail) /\ Len(input.lines) \in Nat
  BY <1>1, PendingType, TextFacts DEF ParserInv, ProgressInv
<1>5. /\ phase' \in {"drop", "line", "finish"}
      /\ phase' = "drop" => simplified' < Len(trail)
      /\ phase' = "line" => counter < Len(input.lines)
  BY <1>1, NextRoundFacts
<1>6. simplified' \in 0 .. Len(trail)
  BY <1>1, <1>4
<1>7. ProgressInv'
  BY <1>1, <1>4, <1>5, <1>6 DEF ParserInv, ProgressInv, Phases, Idle
<1>8. \E s \in Seq(Nat \ {0}) : Record(s)
  BY <1>1, LineNumbers DEF EraseFalsified
<1>9. anyErrors' \in BOOLEAN /\ foundErrors' \in Seq(Nat \ {0})
  BY <1>8, RecordType DEF ParserInv
<1>10. RecordsTypeOK'
  BY <1>1, <1>9 DEF ParserInv, RecordsTypeOK
<1> QED BY <1>3, <1>7, <1>10 DEF ParserInv

LEMMA FinishInv ==
  ASSUME ParserInv, Finish
  PROVE  ParserInv'
<1>1. Inv' /\ trail' = trail /\ (Idle' <=> Idle)
  BY FormulaUnchanged DEF ParserInv, Finish
<1>2. /\ phase = "finish" /\ phase' = "done" /\ returned' = ~anyErrors' /\ counter \in Nat
      /\ UNCHANGED <<input, configuration, counter, unsat, erange, sticky, simplified>>
  BY DEF Finish, ParserInv, ProgressInv
<1>3. ProgressInv'
  BY <1>1, <1>2 DEF ParserInv, ProgressInv, Phases
<1>4. \E s \in Seq(Nat \ {0}) : Record(s)
  BY <1>2, LineNumbers DEF Finish
<1>5. anyErrors' \in BOOLEAN /\ foundErrors' \in Seq(Nat \ {0})
  BY <1>4, RecordType DEF ParserInv
<1>6. RecordsTypeOK'
  BY <1>2, <1>5 DEF ParserInv, RecordsTypeOK
<1> QED BY <1>1, <1>3, <1>6 DEF ParserInv

LEMMA ParserStepInv ==
  ASSUME ParserInv, ParserStep
  PROVE  ParserInv'
  BY ReadHeaderInv, SurplusLineInv, LineWithoutClauseInv, PropagateUnitInv, RejectTautologyInv,
    StoreLineInv, PropagatingInv, PropagationReturnedInv, DropSatisfiedInv, EraseFalsifiedInv,
    FinishInv DEF ParserStep

\* The invariant is a function of the parser's variables.
LEMMA ParserInvUnchanged ==
  ASSUME ParserInv, UNCHANGED allVars
  PROVE  ParserInv'
<1>1. UNCHANGED vars /\ UNCHANGED parserVars
  BY DEF allVars
<1>2. Inv' /\ trail' = trail /\ (Idle' <=> Idle)
  BY <1>1, FormulaUnchanged DEF ParserInv
<1> QED BY <1>1, <1>2 DEF ParserInv, ProgressInv, RecordsTypeOK, parserVars

THEOREM ParserInvariance == ParserSpec => []ParserInv
<1>1. ParserInit => ParserInv
  BY ParserInvInitially
<1>2. ParserInv /\ [ParserNext]_allVars => ParserInv'
  BY ParserStepInv, ParseNextInv, ParserInvUnchanged DEF ParserNext
<1> QED BY <1>1, <1>2, PTL DEF ParserSpec

\* The parser's state keeps its shape over any sequence of texts: no call of propagate()
\* is left behind, and the clauses are simplified by literals of the trail only.
THEOREM ParserTypeCorrectness == ParserSpec => []ParserTypeOK
<1>1. ParserInv => ParserTypeOK
  BY InvMeaning DEF ParserInv, ProgressInv, RecordsTypeOK, ParserTypeOK
<1> QED BY <1>1, ParserInvariance, PTL
-----------------------------------------------------------------------------
(* The lookup stays the inverse of the store.                              *)

LEMMA ExactUnchanged ==
  ASSUME LookupIsInverse, UNCHANGED <<clauses, occurrences>>
  PROVE  LookupIsInverse'
  BY DEF LookupIsInverse

LEMMA ParserStepExact ==
  ASSUME ParserInv, LookupIsInverse, ParserStep
  PROVE  LookupIsInverse'
<1>1. StoreInv /\ input \in Texts /\ counter \in Nat
  BY DEF ParserInv, Inv, ProgressInv
<1>2. CASE UNCHANGED vars
  BY <1>2, ExactUnchanged DEF vars
<1>3. CASE PropagateUnit
  BY <1>1, <1>3, CallExact DEF PropagateUnit
<1>4. CASE StoreLine
  <2>1. counter \in ClauseIds
    BY <1>1, <1>4, TextFacts DEF ParserInv, ProgressInv, StoreLine, ConsumeClause, Consume
  <2>2. YieldsClause(Line) /\ StoreClause(counter, Remaining(Line))
    BY <1>4 DEF StoreLine, ConsumeClause
  <2> QED BY <1>1, <2>1, <2>2, YieldedInRange, RemainingType, StoreClauseExact
<1>5. CASE Propagating
  BY <1>1, <1>5, PropagationStepExact DEF Propagating
<1>6. CASE DropSatisfied
  BY <1>1, <1>6, DropClausesExact DEF DropSatisfied
<1>7. CASE EraseFalsified
  <2>1. -Pending \in Literals
    BY <1>7, PendingType DEF EraseFalsified
  <2> QED BY <1>1, <1>7, <2>1, EraseLiteralExact DEF EraseFalsified
<1> QED BY <1>2, <1>3, <1>4, <1>5, <1>6, <1>7 DEF ParserStep, ReadHeader, SurplusLine,
  LineWithoutClause, RejectTautology, PropagationReturned, Finish

LEMMA ParseNextExact ==
  ASSUME NEW in, ParseNext(in)
  PROVE  LookupIsInverse'
  BY DEF ParseNext, LookupIsInverse

LEMMA ExactInitially == ParserInit => LookupIsInverse
  BY DEF ParserInit, Init, LookupIsInverse

\* The lookup is exact, so that the walks over it meet no missing clause.
LEMMA NothingMissing ==
  ASSUME LookupIsInverse, NEW l \in Literals
  PROVE  MissingClauses(l) = {}
  BY DEF LookupIsInverse, MissingClauses

THEOREM ParserExactness == ParserSpec => []LookupIsInverse
<1>1. ParserInv /\ LookupIsInverse /\ [ParserNext]_allVars => LookupIsInverse'
  BY ParserStepExact, ParseNextExact, ExactUnchanged DEF ParserNext, allVars, vars
<1> QED BY <1>1, ExactInitially, ParserInvariance, PTL DEF ParserSpec

\* While a text is parsed no stale or missing index ever appears, whatever its lines
\* are: the parser hands declared literals only to the formula, so that none of its
\* simplifications stops half-way.
THEOREM ParserOccurrencesAreExact == ParserSpec => []OccurrencesExact
<1>1. LookupIsInverse => OccurrencesExact
  BY DEF OccurrencesExact
<1> QED BY <1>1, ParserExactness, PTL
-----------------------------------------------------------------------------
(* What an exact lookup is good for.                                       *)

\* Where the lookup is exact, no call of propagate() fails.
LEMMA CallSucceeds ==
  ASSUME LookupIsInverse, NEW l \in Literals, NEW callers, Call(l, callers)
  PROVE  result' # "ErrorDuringPropagation"
<1>1. MissingClauses(l) = {} /\ MissingClauses(-l) = {}
  BY NothingMissing, LiteralFacts
<1>2. "ErrorDuringPropagation" \notin ConflictVerdicts(l)
  BY <1>1 DEF ConflictVerdicts
<1> QED BY <1>1, <1>2 DEF Call, CallAssigned, CallRefused, CallAssigns, Abort

LEMMA PropagationSucceeds ==
  ASSUME ParserInv, LookupIsInverse, PropagationStep
  PROVE  result' # "ErrorDuringPropagation"
<1>1. CASE ReturnFromCall
  BY <1>1 DEF ReturnFromCall
<1>2. ASSUME NEW i \in ClauseIds, VisitClause(i)
      PROVE  result' # "ErrorDuringPropagation"
  <2>1. i \in DOMAIN clauses /\ StoreInv /\ result \in Results
    BY <1>2 DEF VisitClause, ParserInv, Inv, CallInv, CallTypeOK
  <2>2. CASE result' = result
    BY <1>2, <2>2 DEF VisitClause, Idle, ParserInv, Inv, CallInv, CallTypeOK
  <2>3. ASSUME NEW l \in KnownLiterals, IsUnit(Unassigned(clauses[i].literals), l),
               Call(l, Visited(i))
        PROVE  result' # "ErrorDuringPropagation"
    <3>1. clauses[i].literals[l] > 0
      BY <2>3 DEF IsUnit, Unassigned
    <3>2. l \in Literals
      BY <2>1, <3>1 DEF StoreInv, OccurrencesComplete
    <3> QED BY <2>3, <3>2, CallSucceeds
  <2> QED BY <1>2, <2>2, <2>3 DEF VisitClause
<1> QED BY <1>1, <1>2 DEF PropagationStep
-----------------------------------------------------------------------------
(* Propagation as the parser uses it.                                      *)

\* The parser enters, continues and leaves propagate() as any client of the formula does.
LEMMA PropagationIsUsedAsIs ==
  ASSUME ParserInv, [ParserNext]_allVars, ~Idle \/ ~Idle'
  PROVE  [Next]_vars
<1>1. CASE Idle
  <2>1. CASE PropagateUnit
    <3>1. PICK l \in Literals : Call(l, <<>>)
      BY <2>1 DEF PropagateUnit
    <3>2. l \in KnownLiterals
      BY ProblemDefinitionAssumption
    <3> QED BY <1>1, <3>1, <3>2 DEF Next, StartPropagation
  <2>2. CASE stack' = stack \/ stack' = <<>>
    BY <1>1, <2>2 DEF Idle
  <2>3. CASE Propagating
    BY <2>3 DEF Propagating, Next
  <2>4. CASE StoreLine \/ DropSatisfied \/ EraseFalsified
    BY <1>1, <2>4 DEF StoreLine, DropSatisfied, EraseFalsified, Idle
  <2>5. CASE UNCHANGED vars
    BY <2>5
  <2>6. ASSUME NEW in, ParseNext(in)
        PROVE  stack' = <<>>
    BY <2>6 DEF ParseNext
  <2> QED BY <2>1, <2>2, <2>3, <2>4, <2>5, <2>6 DEF ParserNext, ParserStep, ReadHeader, SurplusLine,
    LineWithoutClause, RejectTautology, PropagationReturned, Finish, allVars
<1>2. CASE ~Idle
  <2>1. phase = "propagate"
    BY <1>2 DEF ParserInv, ProgressInv
  <2>2. ParserNext => Propagating
    BY <1>2, <2>1 DEF ParserNext, ParserStep, ParseNext, ReadHeader, SurplusLine, LineWithoutClause,
      PropagateUnit, RejectTautology, StoreLine, ConsumeClause, Consume, PropagationReturned,
      DropSatisfied, EraseFalsified, Finish
  <2> QED BY <2>2 DEF Propagating, Next, allVars
<1> QED BY <1>1, <1>2

\* No propagation the parser starts overlooks a unit clause or a conflict, whatever it has
\* stored and simplified before (parseDimacsContent, propagate).
THEOREM ParserPropagationIsSaturated == ParserSpec => PropagationSaturates
<1>1. ParserInit => SaturationInv
  BY DEF ParserInit, Init, SaturationInv, Idle
<1>2. ParserInv /\ SaturationInv /\ [ParserNext]_allVars => SaturationInv'
  BY PropagationIsUsedAsIs, SaturationInductive DEF ParserInv, SaturationInv
<1>3. ParserInv /\ SaturationInv /\ [ParserNext]_allVars
        => ((~Idle /\ Idle' /\ result' = "Ok") =>
             \A i \in DOMAIN clauses : \A l \in AssignedByCall :
               (clauses[i].literals[-l] > 0 /\ DuplicateFree(clauses[i].literals))
                 => Settled(clauses[i].literals))
  BY PropagationIsUsedAsIs, ReturnSaturates DEF ParserInv
<1> QED BY <1>1, <1>2, <1>3, ParserInvariance, PTL DEF ParserSpec, PropagationSaturates

\* Unless a satisfied clause with one literal left has misled the propagation, the parser
\* meets a conflict only if the unit clause refutes what is stored (propagate).
THEOREM ParserConflictsAreReal == ParserSpec => ConflictRealUnlessMisled
<1>1. ParserInit => SoundnessInv
  BY DEF ParserInit, Init, SoundnessInv, Idle
<1>2. ParserInv /\ SoundnessInv /\ [ParserNext]_allVars => SoundnessInv'
  BY PropagationIsUsedAsIs, SoundnessInductive DEF ParserInv, SoundnessInv
<1>3. ParserInv /\ SoundnessInv /\ [ParserNext]_allVars
        => ((~Idle /\ Idle' /\ result' = "Conflict") =>
             \/ MisledCall
             \/ MisledVerdict
             \/ ~\E total \in TotalAssignments : Solves(total))
  BY PropagationIsUsedAsIs, ConflictIsReal DEF ParserInv
<1> QED BY <1>1, <1>2, <1>3, ParserInvariance, PTL DEF ParserSpec, ConflictRealUnlessMisled
-----------------------------------------------------------------------------
(* No constraint of the text is lost.                                      *)

\* A number out of range is met, or a line is malformed, only if an error is recorded.
ErrorsKnown ==
  /\ phase = "header" => ~sticky
  /\ (/\ configuration.recordParsingErrors /\ phase # "header"
      /\ sticky \/ (erange /\ ~(NumVariables = 0 /\ input.numClauses = 0))) => anyErrors

\* A total assignment that extends the assignment and satisfies the store.
Model(total) ==
  /\ \A v \in Variables : values[v] # "Unknown" => total[v] = values[v]
  /\ \A i \in DOMAIN clauses : Satisfies(total, clauses[i].literals)

\* propagate() has returned with something else than Ok, or something did before.
Disturbed == anyErrors \/ unsat \/ (phase = "propagate" /\ result # "Ok")

\* NoConstraintLost at every moment, in the middle of a simplification too.
ConstraintInv ==
  ~Disturbed =>
    \A total \in TotalAssignments :
      Model(total) => \A p \in ClauseLines : SatisfiesLine(total, input.lines[p])

\* A line with a number out of range is malformed.
LEMMA OverflowIsMalformed ==
  ASSUME NEW line, NEW e, Overflows(line)
  PROVE  Malformed(line, e)
<1>1. PICK p \in DOMAIN line : line[p] = Overflow
  BY DEF Overflows
<1>2. ~Blank(line) /\ Overflow # 0 /\ Overflow \notin Literals
  BY DimacsParserAssumption DEF Overflows, DimacsParserAssumption, Literals
<1>3. Rejects(line, p, e)
  BY <1>1, <1>2 DEF Rejects
<1> QED BY <1>2, <1>3 DEF Malformed

\* Whatever is recorded, an error that was found stays found.
LEMMA RecordKeeps ==
  ASSUME NEW s, Record(s)
  PROVE  anyErrors => anyErrors'
  BY DEF Record

\* With a sticky error another one is recorded.
LEMMA StickyRecorded ==
  ASSUME counter \in Nat, Record(StickyError), sticky'
  PROVE  anyErrors'
<1>1. StickyError # <<>>
  BY DEF StickyError
<1> QED BY <1>1 DEF Record

LEMMA TautologyRecorded ==
  ASSUME counter \in Nat, Record(StickyError \o <<CurrentLine + 1>>)
  PROVE  anyErrors'
<1>1. Len(StickyError \o <<CurrentLine + 1>>) = Len(StickyError) + 1 /\ Len(StickyError) \in Nat
  BY LineNumbers, LenProperties
<1>2. StickyError \o <<CurrentLine + 1>> # <<>>
  BY <1>1, EmptySeq
<1> QED BY <1>2 DEF Record

LEMMA ErrorsKnownStep ==
  ASSUME ParserInv, ErrorsKnown, ParserStep
  PROVE  ErrorsKnown'
<1>1. CASE ReadHeader
  <2>1. CASE phase' = "line"
    BY <1>1, <2>1, DimacsParserAssumption DEF ReadHeader, HeaderConverts, ErrorsKnown,
      DimacsParserAssumption
  <2>2. CASE phase' = "done" /\ Record(<<1>>)
    BY <2>2 DEF Record, ErrorsKnown
  <2> QED BY <1>1, <2>1, <2>2 DEF ReadHeader
<1>2. CASE Consume /\ (Record(StickyError) \/ Record(StickyError \o <<CurrentLine + 1>>))
  <2>1. /\ phase = "line" /\ counter \in Nat /\ configuration' = configuration
        /\ erange' = (erange \/ Overflows(Line)) /\ input' = input
        /\ sticky' = (sticky \/ (configuration.recordParsingErrors /\ Malformed(Line, erange)))
    BY <1>2 DEF Consume, ParserInv, ProgressInv
  <2>2. sticky' => anyErrors'
    BY <1>2, <2>1, StickyRecorded, TautologyRecorded
  <2>3. (configuration.recordParsingErrors /\ erange') => (erange \/ sticky')
    BY <2>1, OverflowIsMalformed
  <2>4. anyErrors => anyErrors'
    BY <1>2, RecordKeeps
  <2>5. phase' # "header"
    BY <1>2, <2>1 DEF ParserStep, ReadHeader, SurplusLine, LineWithoutClause, PropagateUnit,
      RejectTautology, StoreLine, AfterRound, Propagating, PropagationReturned, DropSatisfied,
      EraseFalsified, Finish
  <2> QED BY <2>1, <2>2, <2>3, <2>4, <2>5 DEF ErrorsKnown
<1>3. CASE Propagating
  BY <1>3 DEF Propagating, parserVars, ErrorsKnown
<1>4. CASE PropagationReturned \/ DropSatisfied \/ EraseFalsified \/ Finish
  <2>1. /\ phase # "header" /\ phase' # "header"
        /\ UNCHANGED <<input, configuration, erange, sticky>>
    BY <1>4 DEF PropagationReturned, DropSatisfied, EraseFalsified, Finish, NextRound
  <2>2. anyErrors => anyErrors'
    BY <1>4, RecordKeeps DEF PropagationReturned, DropSatisfied, EraseFalsified, Finish
  <2> QED BY <2>1, <2>2 DEF ErrorsKnown
<1> QED BY <1>1, <1>2, <1>3, <1>4 DEF ParserStep, SurplusLine, LineWithoutClause, PropagateUnit,
  RejectTautology, StoreLine, ConsumeClause

\* A round adds at most its own line to the lines that count, and as long as no error is
\* known this line is a clause or true already.
LEMMA RoundAddsLine ==
  ASSUME ParserInv, ErrorsKnown, configuration.recordParsingErrors, ~anyErrors, Consume,
         NEW p \in ClauseLines', p \notin ClauseLines
  PROVE  /\ input' = input /\ input.lines[p] = Line /\ counter + 1 <= input.numClauses
         /\ Written(Line) \subseteq Literals
         /\ YieldsClause(Line) \/ SatisfiedByAssignment(Line)
<1>1. /\ phase = "line" /\ counter \in Nat /\ counter' = counter + 1 /\ input' = input
      /\ input \in Texts
  BY DEF Consume, ParserInv, ProgressInv
<1>2. Len(input.lines) \in Nat /\ input.numClauses \in Nat
  BY <1>1, TextFacts
<1>3. /\ p \in 1 .. Len(input.lines) /\ p <= counter + 1 /\ p <= input.numClauses
      /\ ~Blank(input.lines[p]) /\ ~Malformed(input.lines[p], FALSE)
  BY <1>1 DEF ClauseLines
<1>4. erange = FALSE
  <2>1. input.numClauses # 0
    BY <1>2, <1>3
  <2> QED BY <1>1, <2>1 DEF ParserInv, RecordsTypeOK, ErrorsKnown
<1>5. p = counter + 1
  <2>1. ~(p <= counter)
    BY <1>3 DEF ClauseLines
  <2>2. p \in Nat
    BY <1>2, <1>3
  <2> QED BY <1>1, <1>3, <2>1, <2>2
<1>6. counter < Len(input.lines)
  BY <1>1, <1>2, <1>3, <1>5, SMT
<1>7. Line = input.lines[p]
  BY <1>5, <1>6 DEF Line
<1> QED BY <1>1, <1>3, <1>4, <1>5, <1>7, WrittenInRange DEF YieldsClause

\* A total assignment that extends the assignment makes the true literals true.
LEMMA ModelSatisfies ==
  ASSUME AssignmentInv, NEW total, Model(total), NEW l \in Literals, IsTrue(l)
  PROVE  total[Variable(l)] = SatisfyingValue(l)
<1>1. /\ Variable(l) \in Variables /\ LiteralValue(l) = values[Variable(l)]
      /\ SatisfyingValue(l) # "Unknown"
  BY LiteralFacts DEF LiteralValue
<1> QED BY <1>1 DEF Model, IsTrue

LEMMA ModelSatisfiesLine ==
  ASSUME ParserInv, NEW total, Model(total), SatisfiedByAssignment(Line),
         Written(Line) \subseteq Literals
  PROVE  SatisfiesLine(total, Line)
<1>1. PICK l \in Written(Line) : IsTrue(l)
  BY DEF SatisfiedByAssignment
<1>2. l \in Literals
  BY <1>1
<1>3. total[Variable(l)] = SatisfyingValue(l)
  BY <1>1, <1>2, ModelSatisfies DEF ParserInv, Inv
<1> QED BY <1>1, <1>3 DEF SatisfiesLine

\* A step whose models are models before, and satisfy the line it adds, if any.
LEMMA ConstraintKept ==
  ASSUME ConstraintInv, ~Disturbed, input' = input,
         \A total \in TotalAssignments : Model(total)' =>
            /\ Model(total)
            /\ \A p \in ClauseLines' \ ClauseLines : SatisfiesLine(total, input.lines[p])
  PROVE  ConstraintInv'
<1>1. ASSUME NEW total \in TotalAssignments, Model(total)', NEW p \in ClauseLines'
      PROVE  SatisfiesLine(total, input.lines[p])
  BY <1>1 DEF ConstraintInv
<1> QED BY <1>1 DEF ConstraintInv, TotalAssignments, Variables, SatisfiesLine

\* Nothing that disturbs is ever taken back.
LEMMA DisturbedBefore ==
  ASSUME ParserInv, ParserStep, ~Disturbed'
  PROVE  /\ ~anyErrors' /\ ~anyErrors /\ ~unsat
         /\ ~Disturbed
<1>1. anyErrors => anyErrors'
  BY RecordKeeps DEF ParserStep, ReadHeader, SurplusLine, LineWithoutClause, PropagateUnit,
    RejectTautology, StoreLine, Propagating, parserVars, PropagationReturned, DropSatisfied,
    EraseFalsified, Finish
<1>2. unsat => unsat'
  BY DEF ParserStep, ReadHeader, SurplusLine, LineWithoutClause, PropagateUnit, ConsumeClause,
    Consume, RejectTautology, StoreLine, Propagating, parserVars, PropagationReturned,
    DropSatisfied, EraseFalsified, Finish
<1>3. ASSUME phase = "propagate"
      PROVE  result = "Ok"
  <2>1. CASE Propagating
    BY <2>1 DEF Propagating, PropagationStep, VisitClause, ReturnFromCall, Idle, ParserInv, Inv,
      CallInv, CallTypeOK
  <2>2. CASE PropagationReturned
    <3>1. result \in Results
      BY DEF ParserInv, Inv, CallInv, CallTypeOK
    <3>2. result # "Conflict"
      BY <2>2 DEF PropagationReturned, Disturbed
    <3>3. result # "ErrorDuringPropagation"
      BY <2>2 DEF PropagationReturned, Disturbed, Record
    <3> QED BY <3>1, <3>2, <3>3 DEF Results
  <2> QED BY <1>3, <2>1, <2>2 DEF ParserStep, ReadHeader, SurplusLine, LineWithoutClause,
    PropagateUnit, RejectTautology, StoreLine, ConsumeClause, Consume, DropSatisfied,
    EraseFalsified, Finish
<1> QED BY <1>1, <1>2, <1>3 DEF Disturbed

\* propagate() only narrows the models: it assigns, and keeps the literals of the clauses.
LEMMA CallModels ==
  ASSUME StoreInv, AssignmentInv, NEW callers, NEW l, Call(l, callers),
         NEW total, Model(total)'
  PROVE  /\ Model(total)
         /\ CallAssigns(l, callers) => l \in Literals /\ total[Variable(l)] = SatisfyingValue(l)
<1>1. CASE UNCHANGED <<store, assignment>> /\ ~CallAssigns(l, callers)
  BY <1>1 DEF Model, store, assignment
<1>2. CASE CallAssigns(l, callers)
  <2>1. l \in Literals
    BY <1>2 DEF CallAssigns, ConflictVerdicts
  <2>2. /\ Variable(l) \in Variables /\ values[Variable(l)] = "Unknown"
        /\ SatisfyingValue(l) # "Unknown"
    BY <1>2, <2>1, LiteralFacts DEF CallAssigns, LiteralValue
  <2>3. values' = [values EXCEPT ![Variable(l)] = SatisfyingValue(l)] /\ values \in [Variables -> Values]
    BY <1>2 DEF CallAssigns, RecordAssignment, AssignmentInv, AssignmentTypeOK
  <2>4. PICK S : MarkSatisfied(S)
    BY <1>2 DEF CallAssigns
  <2>5. /\ DOMAIN clauses' = DOMAIN clauses
        /\ \A j \in DOMAIN clauses : clauses'[j].literals = clauses[j].literals
    BY <2>4, MarkSatisfiedKeepsLiterals
  <2>6. \A v \in Variables : values[v] # "Unknown" => total[v] = values[v]
    BY <2>2, <2>3 DEF Model
  <2>7. \A j \in DOMAIN clauses : Satisfies(total, clauses[j].literals)
    BY <2>5 DEF Model, Satisfies
  <2>8. total[Variable(l)] = SatisfyingValue(l)
    BY <2>2, <2>3 DEF Model
  <2> QED BY <2>1, <2>6, <2>7, <2>8 DEF Model
<1> QED BY <1>1, <1>2 DEF Call, CallAssigned, CallRefused

LEMMA PropagationModels ==
  ASSUME StoreInv, AssignmentInv, PropagationStep, NEW total, Model(total)'
  PROVE  Model(total)
<1>1. CASE UNCHANGED <<store, assignment>>
  BY <1>1 DEF Model, store, assignment
<1>2. CASE \E l, callers : Call(l, callers)
  BY <1>2, CallModels
<1> QED BY <1>1, <1>2 DEF PropagationStep, VisitClause, ReturnFromCall

\* A clause read is satisfied by what is stored of it.
LEMMA StoreLineModels ==
  ASSUME ParserInv, StoreLine, NEW total, Model(total)'
  PROVE  Model(total) /\ SatisfiesLine(total, Line)
<1>1. input \in Texts /\ counter \in Nat /\ YieldsClause(Line) /\ values' = values
  BY DEF ParserInv, ProgressInv, StoreLine, ConsumeClause, assignment
<1>2. InRange(Remaining(Line)) /\ StoreClause(counter, Remaining(Line))
  BY <1>1, YieldedInRange DEF StoreLine
<1>3. /\ DOMAIN clauses' = DOMAIN clauses \cup {counter} /\ clauses'[counter].literals = Remaining(Line)
      /\ \A j \in DOMAIN clauses : clauses'[j] = clauses[j]
  BY <1>2 DEF StoreClause
<1>4. Model(total)
  BY <1>1, <1>3 DEF Model, Satisfies
<1>5. Satisfies(total, Remaining(Line))
  BY <1>3 DEF Model, Satisfies
<1>6. PICK l \in Literals : Remaining(Line)[l] > 0 /\ total[Variable(l)] = SatisfyingValue(l)
  BY <1>5 DEF Satisfies
<1>7. l \in Written(Line)
  BY <1>1, <1>6, RemainingType, LiteralFacts
<1> QED BY <1>4, <1>6, <1>7 DEF SatisfiesLine

\* The unit clause that is propagated is satisfied by the assignment of its literal.
LEMMA PropagateUnitModels ==
  ASSUME ParserInv, PropagateUnit, result' = "Ok", NEW total, Model(total)'
  PROVE  Model(total) /\ SatisfiesLine(total, Line)
<1>1. PICK l \in Literals : IsUnit(Remaining(Line), l) /\ Call(l, <<>>)
  BY DEF PropagateUnit
<1>2. input \in Texts /\ counter \in Nat /\ l \in KnownLiterals
  BY <1>1, LiteralFacts DEF ParserInv, ProgressInv
<1>3. Remaining(Line)[l] > 0
  BY <1>1 DEF IsUnit
<1>4. l \in Written(Line) /\ LiteralValue(l) = "Unknown"
  BY <1>2, <1>3, RemainingType DEF Remaining, Unassigned
<1>5. CallAssigns(l, <<>>)
  BY <1>1, <1>4 DEF Call, CallAssigned, CallRefused, Abort
<1>6. Model(total) /\ total[Variable(l)] = SatisfyingValue(l)
  BY <1>1, <1>5, CallModels DEF ParserInv, Inv
<1> QED BY <1>4, <1>6 DEF SatisfiesLine

\* The clauses that are dropped hold a true literal.
LEMMA DropSatisfiedModels ==
  ASSUME ParserInv, LookupIsInverse, DropSatisfied, NEW total, Model(total)'
  PROVE  Model(total)
<1>1. phase = "drop" /\ values' = values
  BY DEF DropSatisfied, assignment
<1>2. Pending \in Literals /\ simplified \in Nat /\ Len(trail) \in Nat /\ simplified < Len(trail)
  BY <1>1, PendingType
<1>3. PICK S \in SUBSET occurrences[Pending] : DropClauses(S)
  BY DEF DropSatisfied
<1>4. /\ DOMAIN clauses' = DOMAIN clauses \ S
      /\ \A j \in DOMAIN clauses \ S : clauses'[j] = clauses[j]
  BY <1>3 DEF DropClauses
<1>5. IsTrue(Pending)
  <2>1. simplified + 1 \in 1 .. Len(trail)
    BY <1>2
  <2>2. values[Variable(Pending)] = SatisfyingValue(Pending)
    BY <2>1 DEF ParserInv, Inv, AssignmentInv, TrailMatchesValues, Pending
  <2> QED BY <1>2, <2>2, LiteralFacts DEF IsTrue, LiteralValue
<1>6. total[Variable(Pending)] = SatisfyingValue(Pending)
  <2>1. \A v \in Variables : values[v] # "Unknown" => total[v] = values[v]
    BY <1>1 DEF Model
  <2> QED BY <1>2, <1>5, <2>1, LiteralFacts DEF IsTrue, LiteralValue
<1>7. \A j \in DOMAIN clauses : Satisfies(total, clauses[j].literals)
  <2>1. ASSUME NEW j \in DOMAIN clauses, j \in S
        PROVE  Satisfies(total, clauses[j].literals)
    BY <1>2, <1>3, <1>6, <2>1 DEF LookupIsInverse, Satisfies
  <2>2. ASSUME NEW j \in DOMAIN clauses, j \notin S
        PROVE  Satisfies(total, clauses[j].literals)
    BY <1>4, <2>2 DEF Model, Satisfies
  <2> QED BY <2>1, <2>2
<1> QED BY <1>1, <1>7 DEF Model

\* A clause that is satisfied after a literal was erased is satisfied with it.
LEMMA EraseFalsifiedModels ==
  ASSUME ParserInv, EraseFalsified, NEW total, Model(total)'
  PROVE  Model(total)
<1>1. phase = "erase" /\ values' = values
  BY DEF EraseFalsified, assignment
<1>2. -Pending \in Literals /\ StoreInv
  BY <1>1, PendingType DEF ParserInv, Inv
<1>3. PICK S : EraseLiteral(-Pending, S)
  BY DEF EraseFalsified
<1>4. /\ DOMAIN clauses' = DOMAIN clauses
      /\ \A j \in DOMAIN clauses, k \in Literals :
           clauses'[j].literals[k] > 0 => clauses[j].literals[k] > 0
  BY <1>2, <1>3, LiteralFacts DEF EraseLiteral, StoreInv, StoreTypeOK, Bags
<1> QED BY <1>1, <1>4 DEF Model, Satisfies

LEMMA ConstraintStep ==
  ASSUME ParserInv, LookupIsInverse, ErrorsKnown, configuration.recordParsingErrors,
         ConstraintInv, ParserStep
  PROVE  ConstraintInv'
<1> SUFFICES ASSUME ~Disturbed' PROVE ConstraintInv'
  BY DEF ConstraintInv
<1>1. ~anyErrors' /\ ~anyErrors /\ ~Disturbed
  BY DisturbedBefore
<1>2. input' = input
  BY DEF ParserStep, ReadHeader, SurplusLine, LineWithoutClause, PropagateUnit, ConsumeClause,
    Consume, RejectTautology, StoreLine, Propagating, parserVars, PropagationReturned,
    DropSatisfied, EraseFalsified, Finish
<1>3. StoreInv /\ AssignmentInv /\ counter \in Nat
  BY DEF ParserInv, Inv, ProgressInv
<1>4. SUFFICES ASSUME NEW total \in TotalAssignments, Model(total)'
               PROVE  /\ Model(total)
                      /\ \A p \in ClauseLines' \ ClauseLines : SatisfiesLine(total, input.lines[p])
  BY <1>1, <1>2, ConstraintKept
<1>5. CASE counter' = counter
  <2>1. ClauseLines' = ClauseLines
    BY <1>2, <1>5 DEF ClauseLines
  <2>2. CASE UNCHANGED vars
    BY <2>1, <2>2, <1>4 DEF vars, Model
  <2>3. CASE Propagating
    BY <1>3, <1>4, <2>1, <2>3, PropagationModels DEF Propagating
  <2>4. CASE DropSatisfied
    BY <1>4, <2>1, <2>4, DropSatisfiedModels
  <2>5. CASE EraseFalsified
    BY <1>4, <2>1, <2>5, EraseFalsifiedModels
  <2>6. CASE Consume
    BY <1>3, <1>5, <2>6 DEF Consume
  <2> QED BY <2>2, <2>3, <2>4, <2>5, <2>6 DEF ParserStep, ReadHeader, SurplusLine, LineWithoutClause,
    PropagateUnit, RejectTautology, StoreLine, ConsumeClause, PropagationReturned, Finish
<1>6. CASE Consume
  <2>1. \A p \in ClauseLines' \ ClauseLines :
          /\ input.lines[p] = Line /\ counter + 1 <= input.numClauses
          /\ Written(Line) \subseteq Literals
          /\ YieldsClause(Line) \/ SatisfiedByAssignment(Line)
    BY <1>1, <1>6, RoundAddsLine
  <2>2. input.numClauses \in Nat
    BY TextFacts DEF ParserInv, ProgressInv
  <2>3. CASE SurplusLine
    <3>1. Model(total)
      BY <1>4, <2>3 DEF SurplusLine, vars, Model
    <3>2. ClauseLines' \ ClauseLines = {}
      BY <1>3, <2>1, <2>2, <2>3 DEF SurplusLine
    <3> QED BY <3>1, <3>2
  <2>4. CASE LineWithoutClause
    <3>1. Model(total)
      BY <1>4, <2>4 DEF LineWithoutClause, vars, Model
    <3> QED BY <2>1, <2>4, <3>1, ModelSatisfiesLine DEF LineWithoutClause
  <2>5. CASE RejectTautology
    BY <1>1, <1>3, <2>5, TautologyRecorded DEF RejectTautology
  <2>6. CASE PropagateUnit
    <3>1. result' = "Ok"
      BY <2>6 DEF PropagateUnit, Disturbed
    <3> QED BY <1>4, <2>1, <2>6, <3>1, PropagateUnitModels
  <2>7. CASE StoreLine
    BY <1>4, <2>1, <2>7, StoreLineModels
  <2>8. phase = "line"
    BY <1>6 DEF Consume
  <2> QED BY <2>3, <2>4, <2>5, <2>6, <2>7, <2>8 DEF ParserStep, ReadHeader, Propagating,
    PropagationReturned, DropSatisfied, EraseFalsified, Finish
<1> QED BY <1>5, <1>6 DEF ParserStep, ReadHeader, SurplusLine, LineWithoutClause, PropagateUnit,
  RejectTautology, StoreLine, ConsumeClause, Propagating, parserVars, PropagationReturned,
  DropSatisfied, EraseFalsified, Finish

LEMMA NoLineBeforeTheFirst ==
  ASSUME NEW n \in Nat, NEW p \in 1 .. n
  PROVE  ~(p <= 0)
  OBVIOUS

\* What a parse starts from.
LEMMA ConstraintInitially == ParserInit => ErrorsKnown /\ ConstraintInv
<1> SUFFICES ASSUME ParserInit PROVE ErrorsKnown /\ ConstraintInv
  OBVIOUS
<1>1. counter = 0 /\ phase = "header" /\ sticky = FALSE /\ Len(input.lines) \in Nat
  BY TextFacts DEF ParserInit, Texts
<1>2. ClauseLines = {}
  BY <1>1, NoLineBeforeTheFirst DEF ClauseLines
<1> QED BY <1>1, <1>2 DEF ErrorsKnown, ConstraintInv

LEMMA ParseNextConstraint ==
  ASSUME NEW in \in FollowUps, ParseNext(in)
  PROVE  ErrorsKnown' /\ ConstraintInv'
<1>1. /\ counter' = 0 /\ phase' = "header" /\ sticky' = FALSE
      /\ input' = in /\ Len(in.lines) \in Nat
  BY TextFacts DEF ParseNext, Begin, Texts
<1>2. ClauseLines' = {}
  BY <1>1, NoLineBeforeTheFirst DEF ClauseLines
<1> QED BY <1>1, <1>2 DEF ErrorsKnown, ConstraintInv

LEMMA ConstraintUnchanged ==
  ASSUME ErrorsKnown, ConstraintInv, UNCHANGED allVars
  PROVE  ErrorsKnown' /\ ConstraintInv'
<1>1. UNCHANGED parserVars /\ UNCHANGED vars
  BY DEF allVars
<1>2. ErrorsKnown'
  BY <1>1 DEF parserVars, ErrorsKnown
<1>3. ClauseLines' = ClauseLines /\ input' = input /\ (Disturbed' <=> Disturbed)
  BY <1>1 DEF parserVars, vars, ClauseLines, Disturbed
<1>4. \A total : Model(total)' <=> Model(total)
  BY <1>1 DEF vars, Model
<1>5. ConstraintInv'
  BY <1>3, <1>4, ConstraintKept DEF ConstraintInv
<1> QED BY <1>2, <1>5

\* Whoever solves the formula the parser returns solves the text: the simplifications of
\* the store and of the lines lose no constraint, in whatever order the lines come and
\* the hash sets are walked.  A parser that records errors never drops a line unnoticed.
THEOREM NoConstraintIsLost ==
  ASSUME \A c \in Configurations : c.recordParsingErrors
  PROVE  ParserSpec => []NoConstraintLost
<1>1. ParserInv => configuration.recordParsingErrors
  BY DEF ParserInv, ProgressInv
<1>2. ParserInv /\ LookupIsInverse /\ ErrorsKnown /\ ConstraintInv /\ [ParserNext]_allVars
        => ErrorsKnown' /\ ConstraintInv'
  BY <1>1, ErrorsKnownStep, ConstraintStep, ParseNextConstraint, ConstraintUnchanged DEF ParserNext
<1>3. ConstraintInv => NoConstraintLost
  BY DEF ConstraintInv, NoConstraintLost, Undisturbed, Disturbed, Model
<1> QED BY <1>2, <1>3, ConstraintInitially, ParserInvariance, ParserExactness, PTL DEF ParserSpec
-----------------------------------------------------------------------------
(* A parse is rejected for a reason that is recorded.                      *)

\* The malformed lines read so far are among the errors.
MalformedLinesListed ==
  \A p \in 1 .. Len(input.lines) :
    (p <= counter /\ Malformed(input.lines[p], FALSE))
      => \E e \in DOMAIN foundErrors : foundErrors[e] = p + 1

\* The verdict of a parse follows from its errors: propagate() that returns Ok has
\* assigned something, so that the exit without formula and without error is not taken.
RejectionInv ==
  /\ (phase = "propagate" /\ result = "Ok") => simplified < Len(trail)
  /\ configuration.recordParsingErrors =>
       /\ anyErrors <=> foundErrors # <<>>
       /\ returned <=> (phase = "done" /\ ~anyErrors)
       /\ MalformedLinesListed

\* What a concatenation holds.
LEMMA ConcatFacts ==
  ASSUME NEW T, NEW r \in Seq(T), NEW s \in Seq(T)
  PROVE  /\ r \o s # <<>> <=> (r # <<>> \/ s # <<>>)
         /\ \A e \in DOMAIN r : e \in DOMAIN (r \o s) /\ (r \o s)[e] = r[e]
         /\ s # <<>> => \E e \in DOMAIN (r \o s) : (r \o s)[e] = s[1]
<1>1. /\ r \o s \in Seq(T) /\ Len(r \o s) = Len(r) + Len(s)
      /\ \A e \in 1 .. Len(r) + Len(s) :
           (r \o s)[e] = IF e <= Len(r) THEN r[e] ELSE s[e - Len(r)]
  BY ConcatProperties
<1>2. /\ Len(r) \in Nat /\ Len(s) \in Nat
      /\ DOMAIN r = 1 .. Len(r) /\ DOMAIN (r \o s) = 1 .. Len(r) + Len(s)
  BY <1>1, LenProperties
<1>3. \A q \in Seq(T) : q # <<>> <=> Len(q) # 0
  BY EmptySeq
<1>4. r \o s # <<>> <=> (r # <<>> \/ s # <<>>)
  BY ConcatEqualIffEmpty
<1>5. \A e \in 1 .. Len(r) : (r \o s)[e] = r[e] /\ e \in 1 .. Len(r) + Len(s)
  BY <1>1, <1>2
<1>6. s # <<>> => Len(r) + 1 \in 1 .. Len(r) + Len(s) /\ (r \o s)[Len(r) + 1] = s[1]
  BY <1>1, <1>2, <1>3
<1> QED BY <1>2, <1>4, <1>5, <1>6

\* Errors are listed at the end, so that none is lost.
LEMMA RecordLists ==
  ASSUME RecordsTypeOK, configuration.recordParsingErrors, anyErrors <=> foundErrors # <<>>,
         NEW s \in Seq(Nat \ {0}), Record(s)
  PROVE  /\ anyErrors' <=> foundErrors' # <<>>
         /\ \A e \in DOMAIN foundErrors : e \in DOMAIN foundErrors' /\ foundErrors'[e] = foundErrors[e]
         /\ s # <<>> => \E e \in DOMAIN foundErrors' : foundErrors'[e] = s[1]
<1>1. foundErrors' = foundErrors \o s /\ (anyErrors' <=> (anyErrors \/ s # <<>>))
  BY DEF Record
<1>2. foundErrors \in Seq(Nat \ {0})
  BY DEF RecordsTypeOK
<1> DEFINE both == foundErrors \o s
<1>3. /\ both # <<>> <=> (foundErrors # <<>> \/ s # <<>>)
      /\ \A e \in DOMAIN foundErrors : e \in DOMAIN both /\ both[e] = foundErrors[e]
      /\ s # <<>> => \E e \in DOMAIN both : both[e] = s[1]
  BY <1>2, ConcatFacts
<1> HIDE DEF both
<1>4. foundErrors' = both
  BY <1>1 DEF both
<1> QED BY <1>1, <1>3, <1>4

\* A malformed line stays malformed when errno is set, and is recorded.
LEMMA MalformedRecorded ==
  ASSUME ParserInv, configuration.recordParsingErrors, anyErrors <=> foundErrors # <<>>,
         Consume, Malformed(Line, FALSE),
         Record(StickyError) \/ Record(StickyError \o <<CurrentLine + 1>>)
  PROVE  \E e \in DOMAIN foundErrors' : foundErrors'[e] = counter + 2
<1>1. Malformed(Line, erange)
  BY DEF Malformed, Rejects
<1>2. sticky' /\ counter \in Nat /\ RecordsTypeOK
  BY <1>1 DEF Consume, ParserInv, ProgressInv
<1>3. StickyError = <<counter + 2>>
  BY <1>2 DEF StickyError, CurrentLine
<1>4. /\ StickyError # <<>> /\ StickyError[1] = counter + 2
      /\ StickyError \o <<CurrentLine + 1>> # <<>> /\ (StickyError \o <<CurrentLine + 1>>)[1] = counter + 2
  BY <1>2, <1>3 DEF CurrentLine
<1> QED BY <1>2, <1>4, RecordLists, LineNumbers

\* A step that reads no line.
LEMMA ListedKept ==
  ASSUME MalformedLinesListed, UNCHANGED <<input, counter>>,
         \A e \in DOMAIN foundErrors : e \in DOMAIN foundErrors' /\ foundErrors'[e] = foundErrors[e]
  PROVE  MalformedLinesListed'
  BY DEF MalformedLinesListed

\* A step that reads one.
LEMMA RoundListed ==
  ASSUME ParserInv, RejectionInv, configuration.recordParsingErrors, Consume,
         Record(StickyError) \/ Record(StickyError \o <<CurrentLine + 1>>)
  PROVE  /\ anyErrors' <=> foundErrors' # <<>>
         /\ MalformedLinesListed'
<1>1. /\ counter \in Nat /\ counter' = counter + 1 /\ input' = input /\ Len(input.lines) \in Nat
      /\ RecordsTypeOK /\ (anyErrors <=> foundErrors # <<>>) /\ MalformedLinesListed
  BY TextFacts DEF Consume, ParserInv, ProgressInv, RejectionInv
<1>2. /\ anyErrors' <=> foundErrors' # <<>>
      /\ \A e \in DOMAIN foundErrors : e \in DOMAIN foundErrors' /\ foundErrors'[e] = foundErrors[e]
  BY <1>1, RecordLists, LineNumbers
<1>3. ASSUME NEW p \in 1 .. Len(input.lines), p <= counter + 1, Malformed(input.lines[p], FALSE)
      PROVE  \E e \in DOMAIN foundErrors' : foundErrors'[e] = p + 1
  <2>1. CASE p <= counter
    BY <1>1, <1>2, <1>3, <2>1 DEF MalformedLinesListed
  <2>2. CASE ~(p <= counter)
    <3>1. p = counter + 1 /\ counter < Len(input.lines) /\ p + 1 = counter + 2
      BY <1>1, <1>3, <2>2
    <3>2. Line = input.lines[p]
      BY <3>1 DEF Line
    <3> QED BY <1>1, <1>3, <3>1, <3>2, MalformedRecorded
  <2> QED BY <2>1, <2>2
<1> QED BY <1>1, <1>2, <1>3 DEF MalformedLinesListed

\* A unit clause that is propagated without failure assigns its literal.
LEMMA PropagateUnitAssigns ==
  ASSUME ParserInv, PropagateUnit, result' = "Ok"
  PROVE  simplified' < Len(trail')
<1>1. PICK l \in Literals : IsUnit(Remaining(Line), l) /\ Call(l, <<>>)
  BY DEF PropagateUnit
<1>2. l \in KnownLiterals /\ Remaining(Line)[l] > 0
  BY <1>1, LiteralFacts DEF IsUnit
<1>3. LiteralValue(l) = "Unknown"
  BY <1>2 DEF Remaining, Unassigned
<1>4. trail' = Append(trail, l)
  BY <1>1, <1>3 DEF Call, CallAssigned, CallRefused, CallAssigns, RecordAssignment, Abort
<1>5. trail \in Seq(Literals) /\ Len(trail) \in Nat
  BY LenProperties DEF ParserInv, Inv, AssignmentInv, AssignmentTypeOK
<1>6. Len(trail') = Len(trail) + 1
  BY <1>1, <1>4, <1>5, AppendProperties
<1> QED BY <1>5, <1>6 DEF PropagateUnit

\* Propagation that goes on has assigned something all along.
LEMMA PropagatingAssigned ==
  ASSUME ParserInv, RejectionInv, Propagating, result' = "Ok"
  PROVE  simplified' < Len(trail')
<1>1. PropagationStep /\ phase = "propagate" /\ simplified' = simplified
  BY DEF Propagating, parserVars
<1>2. result = "Ok"
  BY <1>1 DEF PropagationStep, VisitClause, ReturnFromCall, Idle, ParserInv, Inv, CallInv, CallTypeOK
<1>3. Len(trail) \in Nat /\ Len(trail') \in Nat /\ Len(trail) <= Len(trail')
  BY <1>1, PropagationGrowsTrail DEF ParserInv, Inv
<1>4. simplified \in 0 .. Len(trail) /\ simplified < Len(trail)
  BY <1>1, <1>2 DEF ParserInv, ProgressInv, RejectionInv
<1> QED BY <1>1, <1>3, <1>4

\* A step that records errors and reads no line.
LEMMA RejectionKept ==
  ASSUME RecordsTypeOK, RejectionInv, NEW s \in Seq(Nat \ {0}), Record(s),
         UNCHANGED <<configuration, input, counter>>, phase' # "propagate",
         configuration.recordParsingErrors => (returned' <=> (phase' = "done" /\ ~anyErrors'))
  PROVE  RejectionInv'
<1>1. CASE configuration.recordParsingErrors
  <2>1. (anyErrors <=> foundErrors # <<>>) /\ MalformedLinesListed
    BY <1>1 DEF RejectionInv
  <2>2. (anyErrors' <=> foundErrors' # <<>>) /\ MalformedLinesListed'
    BY <1>1, <2>1, RecordLists, ListedKept
  <2> QED BY <2>2 DEF RejectionInv
<1>2. CASE ~configuration.recordParsingErrors
  BY <1>2 DEF RejectionInv
<1> QED BY <1>1, <1>2

LEMMA RejectionStep ==
  ASSUME ParserInv, RejectionInv, ParserStep
  PROVE  RejectionInv'
<1>1. counter \in Nat /\ RecordsTypeOK
  BY DEF ParserInv, ProgressInv
<1>2. CASE ReadHeader
  <2>1. PICK s \in {<<>>, <<1>>} :
           Record(s) /\ phase' \in {"line", "done"} /\ (phase' = "done" => s = <<1>>)
    BY <1>2 DEF ReadHeader
  <2>2. s \in Seq(Nat \ {0})
    BY <1>1, <2>1, LineNumbers
  <2>3. s = <<1>> => anyErrors'
    <3>1. anyErrors' <=> (anyErrors \/ s # <<>>)
      BY <2>1 DEF Record
    <3>2. <<1>> # <<>>
      OBVIOUS
    <3> QED BY <3>1, <3>2
  <2>4. /\ UNCHANGED <<configuration, input, counter, returned>>
        /\ configuration.recordParsingErrors => ~returned
    BY <1>2 DEF ReadHeader, RejectionInv
  <2> QED BY <1>1, <2>1, <2>2, <2>3, <2>4, RejectionKept
<1>3. CASE Consume /\ (Record(StickyError) \/ Record(StickyError \o <<CurrentLine + 1>>))
  <2>1. /\ configuration' = configuration /\ returned' = returned /\ phase = "line"
        /\ configuration.recordParsingErrors => ~returned
    BY <1>3 DEF Consume, RejectionInv
  <2>2. phase' \in {"line", "finish", "propagate"} /\ (phase' = "propagate" => PropagateUnit)
    BY <1>3, <2>1 DEF ParserStep, ReadHeader, SurplusLine, LineWithoutClause, PropagateUnit,
      RejectTautology, StoreLine, AfterRound, Propagating, PropagationReturned, DropSatisfied,
      EraseFalsified, Finish
  <2>3. configuration.recordParsingErrors =>
          (anyErrors' <=> foundErrors' # <<>>) /\ MalformedLinesListed'
    BY <1>3, RoundListed
  <2> QED BY <2>1, <2>2, <2>3, PropagateUnitAssigns DEF RejectionInv
<1>4. CASE Propagating
  <2>1. result' = "Ok" => simplified' < Len(trail')
    BY <1>4, PropagatingAssigned
  <2>2. UNCHANGED parserVars
    BY <1>4 DEF Propagating
  <2> QED BY <2>1, <2>2 DEF RejectionInv, parserVars, MalformedLinesListed
<1>5. CASE PropagationReturned
  <2>1. PICK s \in Seq(Nat \ {0}) : Record(s)
    BY <1>1, <1>5, LineNumbers DEF PropagationReturned, ParserInv, ProgressInv
  <2>2. simplified \in 0 .. Len(trail) /\ Len(trail) \in Nat
    BY LenProperties DEF ParserInv, ProgressInv, Inv, AssignmentInv, AssignmentTypeOK
  <2>3. phase' \in {"line", "finish", "drop"}
    BY <1>5, <2>2, NextRoundFacts DEF PropagationReturned, RejectionInv
  <2>4. /\ UNCHANGED <<configuration, input, counter, returned>>
        /\ configuration.recordParsingErrors => ~returned
    BY <1>5 DEF PropagationReturned, RejectionInv
  <2> QED BY <1>1, <2>1, <2>3, <2>4, RejectionKept
<1>6. CASE DropSatisfied \/ EraseFalsified
  <2>1. PICK s \in Seq(Nat \ {0}) : Record(s)
    BY <1>1, <1>6, LineNumbers DEF DropSatisfied, EraseFalsified
  <2>2. phase' \in {"erase", "drop", "line", "finish"}
    BY <1>6, NextRoundFacts DEF DropSatisfied, EraseFalsified
  <2>3. /\ UNCHANGED <<configuration, input, counter, returned>>
        /\ configuration.recordParsingErrors => ~returned
    BY <1>6 DEF DropSatisfied, EraseFalsified, RejectionInv
  <2> QED BY <1>1, <2>1, <2>2, <2>3, RejectionKept
<1>7. CASE Finish
  <2>1. PICK s \in Seq(Nat \ {0}) : Record(s)
    BY <1>1, <1>7, LineNumbers DEF Finish
  <2>2. /\ UNCHANGED <<configuration, input, counter>>
        /\ phase' = "done" /\ (returned' <=> ~anyErrors')
    BY <1>7 DEF Finish
  <2> QED BY <1>1, <2>1, <2>2, RejectionKept
<1> QED BY <1>2, <1>3, <1>4, <1>5, <1>6, <1>7 DEF ParserStep, SurplusLine, LineWithoutClause,
  PropagateUnit, RejectTautology, StoreLine, ConsumeClause

LEMMA RejectionInitially == ParserInit => RejectionInv
<1> SUFFICES ASSUME ParserInit PROVE RejectionInv
  OBVIOUS
<1>1. /\ counter = 0 /\ phase = "header" /\ foundErrors = <<>> /\ anyErrors = FALSE
      /\ returned = FALSE /\ Len(input.lines) \in Nat
  BY TextFacts DEF ParserInit, Texts
<1>2. MalformedLinesListed
  BY <1>1, NoLineBeforeTheFirst DEF MalformedLinesListed
<1> QED BY <1>1, <1>2 DEF RejectionInv

LEMMA ParseNextRejection ==
  ASSUME NEW in \in FollowUps, ParseNext(in)
  PROVE  RejectionInv'
<1>1. /\ counter' = 0 /\ phase' = "header" /\ foundErrors' = <<>> /\ anyErrors' = FALSE
      /\ returned' = FALSE /\ input' = in /\ Len(in.lines) \in Nat
  BY TextFacts DEF ParseNext, Begin, Texts
<1>2. MalformedLinesListed'
  BY <1>1, NoLineBeforeTheFirst DEF MalformedLinesListed
<1> QED BY <1>1, <1>2 DEF RejectionInv

LEMMA RejectionInvariance == ParserSpec => []RejectionInv
<1>1. ParserInv /\ RejectionInv /\ [ParserNext]_allVars => RejectionInv'
  <2>1. ASSUME RejectionInv, UNCHANGED allVars
        PROVE  RejectionInv'
    <3>1. UNCHANGED parserVars /\ UNCHANGED vars
      BY <2>1 DEF allVars
    <3>2. MalformedLinesListed' <=> MalformedLinesListed
      BY <3>1 DEF parserVars, MalformedLinesListed
    <3> QED BY <2>1, <3>1, <3>2 DEF parserVars, vars, RejectionInv
  <2> QED BY <2>1, RejectionStep, ParseNextRejection DEF ParserNext
<1> QED BY <1>1, RejectionInitially, ParserInvariance, PTL DEF ParserSpec

-----------------------------------------------------------------------------
(* Each recorded error has a cause in the text.                            *)

\* What is known of an error before the parse is over.
Blamed(e) == HeaderAtFault(e) \/ MalformedUpTo(e) \/ TautologyAt(e)

\* A malformed line among those read; where no variable is declared each line with a token
\* before its last is malformed, so that errno does not matter.
Culprit == \E p \in 1 .. Len(input.lines) : p <= counter /\ Malformed(input.lines[p], FALSE)

\* Past the header both errno and the parsing error that is never cleared go back to a line
\* of this text, no propagation has failed, and every error has a cause.
CausesInv ==
  /\ phase = "header" => ~sticky
  /\ phase \notin {"header", "done"} => (sticky \/ (erange /\ NumVariables # 0) => Culprit)
  /\ phase = "propagate" => result # "ErrorDuringPropagation"
  /\ \A d \in DOMAIN foundErrors :
       \/ Blamed(foundErrors[d])
       \/ phase = "done" /\ MiscountedAt(foundErrors[d])

\* An error that is recorded was recorded before, or is one of the new ones.
LEMMA RecordedErrors ==
  ASSUME RecordsTypeOK, NEW s \in Seq(Nat \ {0}), Record(s), NEW d \in DOMAIN foundErrors'
  PROVE  \/ \E e \in DOMAIN foundErrors : foundErrors'[d] = foundErrors[e]
         \/ \E e \in DOMAIN s : foundErrors'[d] = s[e]
<1>1. CASE foundErrors' = foundErrors
  BY <1>1
<1>2. CASE foundErrors' = foundErrors \o s
  <2>1. /\ foundErrors \in Seq(Nat \ {0})
        /\ Len(foundErrors) \in Nat /\ DOMAIN foundErrors = 1 .. Len(foundErrors)
        /\ Len(s) \in Nat /\ DOMAIN s = 1 .. Len(s)
    BY LenProperties DEF RecordsTypeOK
  <2> DEFINE both == foundErrors \o s
  <2>2. /\ both \in Seq(Nat \ {0}) /\ Len(both) = Len(foundErrors) + Len(s)
        /\ \A e \in 1 .. Len(foundErrors) + Len(s) :
             both[e] = IF e <= Len(foundErrors) THEN foundErrors[e] ELSE s[e - Len(foundErrors)]
    BY <2>1, ConcatProperties
  <2>3. DOMAIN both = 1 .. Len(foundErrors) + Len(s)
    BY <2>2, LenProperties
  <2> HIDE DEF both
  <2>4. d \in 1 .. Len(foundErrors) + Len(s) /\ foundErrors'[d] = both[d]
    BY <1>2, <2>3 DEF both
  <2>5. CASE d <= Len(foundErrors)
    BY <2>1, <2>2, <2>4, <2>5
  <2>6. CASE ~(d <= Len(foundErrors))
    <3>1. d - Len(foundErrors) \in DOMAIN s
      BY <2>1, <2>4, <2>6
    <3> QED BY <2>2, <2>4, <2>6, <3>1
  <2> QED BY <2>5, <2>6
<1> QED BY <1>1, <1>2 DEF Record

\* What an error was blamed for stays to blame.
LEMMA BlameStays ==
  ASSUME input' = input, erange => erange', NEW e, Blamed(e)
  PROVE  Blamed(e)'
<1>1. HeaderAtFault(e) => HeaderAtFault(e)'
  BY DEF HeaderAtFault, HeaderConverts
<1>2. MalformedUpTo(e)' <=> MalformedUpTo(e)
  BY DEF MalformedUpTo
<1>3. TautologyAt(e)' <=> TautologyAt(e)
  BY DEF TautologyAt
<1> QED BY <1>1, <1>2, <1>3 DEF Blamed

\* A step after which each new error has a cause.
LEMMA CausesKept ==
  ASSUME RecordsTypeOK, CausesInv, phase # "done", input' = input, erange => erange',
         NEW s \in Seq(Nat \ {0}), Record(s),
         \A e \in DOMAIN s : Blamed(s[e])' \/ (phase' = "done" /\ MiscountedAt(s[e])')
  PROVE  \A d \in DOMAIN foundErrors' :
           Blamed(foundErrors[d])' \/ (phase' = "done" /\ MiscountedAt(foundErrors[d])')
<1> SUFFICES ASSUME NEW d \in DOMAIN foundErrors'
             PROVE  Blamed(foundErrors[d])' \/ (phase' = "done" /\ MiscountedAt(foundErrors[d])')
  OBVIOUS
<1>1. PICK e : e = foundErrors'[d]
  OBVIOUS
<1>2. CASE \E c \in DOMAIN foundErrors : e = foundErrors[c]
  <2>1. Blamed(e)
    BY <1>2 DEF CausesInv
  <2>2. Blamed(e)'
    BY <2>1, BlameStays
  <2> QED BY <1>1, <2>2 DEF Blamed, HeaderAtFault, MalformedUpTo, TautologyAt
<1>3. CASE \E c \in DOMAIN s : e = s[c]
  <2>1. Blamed(e)' \/ (phase' = "done" /\ MiscountedAt(e)')
    BY <1>3
  <2> QED BY <1>1, <2>1 DEF Blamed, HeaderAtFault, MalformedUpTo, TautologyAt, MiscountedAt
<1> QED BY <1>1, <1>2, <1>3, RecordedErrors

\* The line that is read: when an error is sticky or errno set after it, a line up to it is
\* malformed.
LEMMA RoundCulprit ==
  ASSUME ParserInv, CausesInv, Consume, sticky' \/ (erange' /\ NumVariables # 0)
  PROVE  Culprit'
<1>1. /\ counter \in Nat /\ counter' = counter + 1 /\ input' = input /\ Len(input.lines) \in Nat
      /\ phase = "line" /\ input \in Texts /\ erange \in BOOLEAN
  BY TextFacts DEF Consume, ParserInv, ProgressInv, RecordsTypeOK
<1>2. Culprit' <=> \E p \in 1 .. Len(input.lines) :
                     p <= counter + 1 /\ Malformed(input.lines[p], FALSE)
  BY <1>1, Zenon DEF Culprit
<1>3. ASSUME Malformed(Line, FALSE)
      PROVE  Culprit'
  <2>1. ~(counter >= Len(input.lines))
    <3>1. Blank(<<>>)
      BY DEF Blank
    <3> QED BY <1>1, <1>3, <3>1 DEF Line, Malformed
  <2>2. counter + 1 \in 1 .. Len(input.lines) /\ Line = input.lines[counter + 1]
    BY <1>1, <2>1 DEF Line
  <2>3. PICK n : n = counter + 1 /\ n <= counter + 1
    BY <1>1
  <2>4. n \in 1 .. Len(input.lines) /\ Malformed(input.lines[n], FALSE)
    BY <1>3, <2>2, <2>3
  <2> QED BY <1>2, <2>3, <2>4, Zenon
<1>4. Culprit => Culprit'
  <2>1. ASSUME NEW p \in 1 .. Len(input.lines), p <= counter
        PROVE  p <= counter + 1
    BY <1>1, <2>1
  <2> QED BY <1>2, <2>1, Zenon DEF Culprit
<1>5. ASSUME Malformed(Line, erange), ~Malformed(Line, FALSE)
      PROVE  Culprit'
  <2>1. erange
    BY <1>1, <1>5
  <2>2. CASE NumVariables # 0
    BY <1>1, <1>4, <2>1, <2>2 DEF CausesInv
  <2>3. CASE NumVariables = 0
    <3>1. Literals = {}
      BY <2>3 DEF Literals
    <3>2. Line \in Seq(Int \cup {Junk, Overflow})
      BY <1>1, LineType
    <3>3. /\ DOMAIN Line = 1 .. Len(Line) /\ Len(Line) \in Nat /\ ~(Len(Line) <= 1)
      BY <1>5, <3>2, LenProperties DEF Malformed, Blank
    <3>4. 1 \in DOMAIN Line /\ 1 # Len(Line)
      BY <3>3
    <3>5. Rejects(Line, 1, FALSE)
      BY <3>1, <3>4 DEF Rejects
    <3> QED BY <1>5, <3>4, <3>5 DEF Malformed
  <2> QED BY <2>2, <2>3
<1>6. Overflows(Line) => Malformed(Line, FALSE)
  BY OverflowIsMalformed
<1>7. /\ sticky' => sticky \/ Malformed(Line, erange)
      /\ erange' => erange \/ Overflows(Line)
  BY DEF Consume
<1>8. CASE sticky \/ (erange /\ NumVariables # 0)
  BY <1>1, <1>4, <1>8 DEF CausesInv
<1>9. CASE ~(sticky \/ (erange /\ NumVariables # 0))
  BY <1>3, <1>5, <1>6, <1>7, <1>9
<1> QED BY <1>8, <1>9

\* The error of a round stands at its line.
LEMMA RoundErrors ==
  ASSUME ParserInv, CausesInv, Consume, NEW s \in {StickyError, StickyError \o <<CurrentLine + 1>>},
         s = StickyError \/ IsTautology(Remaining(Line)),
         NEW e \in DOMAIN s
  PROVE  Blamed(s[e])'
<1>1. /\ counter \in Nat /\ counter' = counter + 1 /\ input' = input /\ Len(input.lines) \in Nat
      /\ input \in Texts
  BY TextFacts DEF Consume, ParserInv, ProgressInv
<1>2. PICK m : m = counter + 2 /\ m = CurrentLine + 1
  BY <1>1 DEF CurrentLine
<1>3. ASSUME sticky' PROVE Blamed(m)'
  <2>1. PICK p \in 1 .. Len(input.lines) : p <= counter + 1 /\ Malformed(input.lines[p], FALSE)
    BY <1>1, <1>3, RoundCulprit DEF Culprit
  <2>2. p + 1 <= m
    BY <1>1, <1>2, <2>1
  <2> QED BY <1>1, <2>1, <2>2 DEF Blamed, MalformedUpTo
<1>4. ASSUME IsTautology(Remaining(Line)) PROVE Blamed(m)'
  <2>1. PICK l \in Literals : Remaining(Line)[l] > 0 /\ Remaining(Line)[-l] > 0
    BY <1>4 DEF IsTautology
  <2>2. l \in KnownLiterals /\ -l \in KnownLiterals
    BY LiteralFacts
  <2>3. Count(Line, l) > 0 /\ Count(Line, -l) > 0
    BY <2>1, <2>2 DEF Remaining, Unassigned
  <2>4. l \in Written(Line) /\ -l \in Written(Line)
    BY <1>1, <2>3, LineType, CountType
  <2>5. counter < Len(input.lines)
    BY <1>1, <2>4 DEF Line, Written
  <2>6. counter + 1 \in 1 .. Len(input.lines) /\ Line = input.lines[counter + 1]
    BY <1>1, <2>5 DEF Line
  <2> QED BY <1>1, <1>2, <2>4, <2>6 DEF Blamed, TautologyAt
<1>5. s[e] = m /\ (sticky' \/ IsTautology(Remaining(Line)))
  <2>1. CASE s = StickyError
    BY <1>2, <2>1 DEF StickyError
  <2>2. CASE s = StickyError \o <<CurrentLine + 1>> /\ IsTautology(Remaining(Line))
    BY <1>2, <2>2 DEF StickyError
  <2> QED BY <2>1, <2>2
<1> QED BY <1>3, <1>4, <1>5 DEF Blamed, HeaderAtFault, MalformedUpTo, TautologyAt

LEMMA CausesStep ==
  ASSUME ParserInv, LookupIsInverse, CausesInv, ParserStep
  PROVE  CausesInv'
<1>1. /\ input' = input /\ (erange => erange') /\ RecordsTypeOK /\ counter \in Nat
      /\ erange \in BOOLEAN /\ phase # "done"
  BY DEF ParserStep, ReadHeader, SurplusLine, LineWithoutClause, PropagateUnit, RejectTautology,
    StoreLine, ConsumeClause, Consume, Propagating, parserVars, PropagationReturned, DropSatisfied,
    EraseFalsified, Finish, ParserInv, ProgressInv, RecordsTypeOK
<1>2. /\ <<>> \in Seq(Nat \ {0}) /\ <<1>> \in Seq(Nat \ {0}) /\ DOMAIN <<>> = {}
      /\ DOMAIN <<1>> = {1} /\ <<1>>[1] = 1
  BY <1>1, LineNumbers
<1>3. CASE ReadHeader
  <2>1. /\ phase = "header" /\ phase' \in {"line", "done"} /\ sticky' = sticky
        /\ phase' = "line" => HeaderConverts /\ erange' = (erange \/ input.header = "overflow")
        /\ Record(<<>>) \/ (Record(<<1>>) /\ ~HeaderConverts)
    BY <1>3 DEF ReadHeader
  <2>2. ~HeaderConverts => Blamed(1)'
    BY <1>1 DEF Blamed, HeaderAtFault, HeaderConverts
  <2>3. \A d \in DOMAIN foundErrors' :
          Blamed(foundErrors[d])' \/ (phase' = "done" /\ MiscountedAt(foundErrors[d])')
    <3>1. CASE Record(<<>>)
      BY <1>1, <1>2, <3>1, CausesKept
    <3>2. CASE Record(<<1>>) /\ ~HeaderConverts
      <4>1. \A e \in DOMAIN <<1>> : Blamed(<<1>>[e])'
        BY <1>2, <2>2, <3>2 DEF Blamed, HeaderAtFault, MalformedUpTo, TautologyAt
      <4> QED BY <1>1, <1>2, <3>2, <4>1, CausesKept
    <3> QED BY <2>1, <3>1, <3>2
  <2>4. phase' = "line" => ~sticky' /\ ~(erange' /\ NumVariables # 0)
    BY <2>1 DEF CausesInv, HeaderConverts
  <2> QED BY <2>1, <2>3, <2>4 DEF CausesInv
<1>4. CASE Consume /\ (SurplusLine \/ LineWithoutClause \/ PropagateUnit \/ RejectTautology \/ StoreLine)
  <2>1. PICK s \in {StickyError, StickyError \o <<CurrentLine + 1>>} :
          Record(s) /\ (s = StickyError \/ IsTautology(Remaining(Line)))
    BY <1>4 DEF SurplusLine, LineWithoutClause, PropagateUnit, RejectTautology, StoreLine
  <2>2. s \in Seq(Nat \ {0})
    BY <1>1, <2>1, LineNumbers
  <2>3. \A e \in DOMAIN s : Blamed(s[e])'
    BY <1>4, <2>1, RoundErrors
  <2>4. \A d \in DOMAIN foundErrors' :
          Blamed(foundErrors[d])' \/ (phase' = "done" /\ MiscountedAt(foundErrors[d])')
    BY <1>1, <2>1, <2>2, <2>3, CausesKept
  <2>5. phase' \in {"line", "finish", "propagate"} /\ (phase' = "propagate" => PropagateUnit)
    BY <1>4 DEF SurplusLine, LineWithoutClause, PropagateUnit, RejectTautology, StoreLine, AfterRound
  <2>6. PropagateUnit => result' # "ErrorDuringPropagation"
    BY CallSucceeds DEF PropagateUnit
  <2>7. sticky' \/ (erange' /\ NumVariables # 0) => Culprit'
    BY <1>4, RoundCulprit
  <2> QED BY <2>4, <2>5, <2>6, <2>7 DEF CausesInv
<1>5. CASE Propagating
  <2>1. UNCHANGED parserVars /\ result' # "ErrorDuringPropagation"
    BY <1>5, PropagationSucceeds DEF Propagating
  <2>2. UNCHANGED <<phase, input, counter, erange, sticky, foundErrors>>
    BY <2>1 DEF parserVars
  <2> QED BY <2>1, <2>2 DEF CausesInv, Culprit, Blamed, HeaderAtFault, HeaderConverts, MalformedUpTo,
    TautologyAt, MiscountedAt
<1>6. CASE PropagationReturned \/ DropSatisfied \/ EraseFalsified
  <2>1. Record(<<>>)
    <3>1. phase \in {"drop", "erase"} => MissingClauses(Pending) = {} /\ MissingClauses(-Pending) = {}
      BY PendingType, NothingMissing
    <3> QED BY <1>6, <3>1 DEF PropagationReturned, DropSatisfied, EraseFalsified, CausesInv
  <2>2. \A d \in DOMAIN foundErrors' :
          Blamed(foundErrors[d])' \/ (phase' = "done" /\ MiscountedAt(foundErrors[d])')
    BY <1>1, <1>2, <2>1, CausesKept
  <2>3. /\ phase \notin {"header", "done"} /\ phase' \notin {"header", "propagate"}
        /\ UNCHANGED <<input, counter, erange, sticky>>
    BY <1>6 DEF PropagationReturned, DropSatisfied, EraseFalsified, NextRound
  <2> QED BY <2>2, <2>3 DEF CausesInv, Culprit
<1>7. CASE Finish
  <2>1. phase' = "done" /\ UNCHANGED <<input, counter>>
    BY <1>7 DEF Finish
  <2>2. PICK m : m = CurrentLine
    OBVIOUS
  <2>3. counter # input.numClauses => MiscountedAt(m)'
    BY <2>1, <2>2 DEF MiscountedAt, CurrentLine
  <2>4. <<m>> \in Seq(Nat \ {0}) /\ DOMAIN <<m>> = {1} /\ <<m>>[1] = m
    BY <1>1, <2>2, LineNumbers
  <2>5. \A d \in DOMAIN foundErrors' :
          Blamed(foundErrors[d])' \/ (phase' = "done" /\ MiscountedAt(foundErrors[d])')
    <3>1. CASE Record(<<>>)
      BY <1>1, <1>2, <3>1, CausesKept
    <3>2. CASE Record(<<m>>) /\ counter # input.numClauses
      <4>1. \A e \in DOMAIN <<m>> : MiscountedAt(<<m>>[e])'
        BY <2>3, <2>4, <3>2 DEF MiscountedAt
      <4> QED BY <1>1, <2>1, <2>4, <3>2, <4>1, CausesKept
    <3> QED BY <1>7, <2>2, <3>1, <3>2 DEF Finish
  <2> QED BY <2>1, <2>5 DEF CausesInv
<1> QED BY <1>3, <1>4, <1>5, <1>6, <1>7 DEF ParserStep, SurplusLine, LineWithoutClause,
  PropagateUnit, RejectTautology, StoreLine, ConsumeClause

LEMMA CausesInvariance == ParserSpec => []CausesInv
<1>1. ParserInit => CausesInv
  BY DEF ParserInit, CausesInv
<1>2. ParserInv /\ LookupIsInverse /\ CausesInv /\ [ParserNext]_allVars => CausesInv'
  <2>1. ASSUME NEW in \in FollowUps, ParseNext(in)
        PROVE  CausesInv'
    BY <2>1 DEF ParseNext, Begin, CausesInv
  <2>2. ASSUME CausesInv, UNCHANGED allVars
        PROVE  CausesInv'
    <3>1. UNCHANGED <<phase, input, counter, erange, sticky, foundErrors, result>>
      BY <2>2 DEF allVars, parserVars, vars
    <3> QED BY <2>2, <3>1 DEF CausesInv, Culprit, Blamed, HeaderAtFault, HeaderConverts,
      MalformedUpTo, TautologyAt, MiscountedAt
  <2> QED BY <2>1, <2>2, CausesStep DEF ParserNext
<1> QED BY <1>1, <1>2, ParserInvariance, ParserExactness, PTL DEF ParserSpec

\* A parser that records errors either returns a formula or says what is wrong, every
\* malformed line it read included; and all it says has a cause in the text, at or before
\* the line it names.  Neither errno, nor a failed or refused propagation, nor the exit for
\* a propagation without assignment lets a parse end in silence, and no earlier text shows
\* but in a header that errno makes fail.
THEOREM RejectionIsExplained == ParserSpec => []ErrorsExplainRejection
<1>1. RejectionInv /\ CausesInv => ErrorsExplainRejection
  BY DEF RejectionInv, MalformedLinesListed, CausesInv, Blamed, ErrorsExplainRejection
<1> QED BY <1>1, RejectionInvariance, CausesInvariance, PTL
-----------------------------------------------------------------------------
(* A well-formed text is accepted.                                         *)

\* A text the parser should accept, as long as errno is clear.
Acceptable == ~erange /\ WellFormedInput /\ input.numClauses > 0

\* The parse of such a text goes through its lines and meets no error: no propagation
\* fails, and no index without a clause stops a simplification.
AcceptInv ==
  Acceptable =>
    /\ ~anyErrors /\ ~sticky
    /\ phase = "line" => counter < Len(input.lines)
    /\ phase \in {"propagate", "drop", "erase"} => counter <= Len(input.lines)
    /\ phase = "propagate" => result # "ErrorDuringPropagation"
    /\ phase = "finish" => counter = Len(input.lines)
    /\ phase = "done" => returned

\* The line that is read.
LEMMA AcceptableLine ==
  ASSUME ParserInv, Acceptable, AcceptInv, Consume
  PROVE  /\ counter \in Nat /\ Len(input.lines) \in Nat /\ counter + 1 <= Len(input.lines)
         /\ input.numClauses = Len(input.lines) /\ counter' = counter + 1 /\ input' = input
         /\ ~Malformed(Line, erange) /\ ~sticky' /\ StickyError = <<>>
         /\ \A l \in Written(Line) : -l \notin Written(Line)
<1>1. /\ phase = "line" /\ counter \in Nat /\ Len(input.lines) \in Nat
      /\ counter < Len(input.lines) /\ erange = FALSE /\ sticky = FALSE
  BY TextFacts DEF Consume, ParserInv, ProgressInv, RecordsTypeOK, AcceptInv, Acceptable
<1>2. Line = input.lines[counter + 1] /\ counter + 1 \in 1 .. Len(input.lines)
  BY <1>1 DEF Line
<1>3. /\ input.numClauses = Len(input.lines) /\ ~Malformed(Line, erange)
      /\ \A l \in Written(Line) : -l \notin Written(Line)
  BY <1>1, <1>2 DEF Acceptable, WellFormedInput
<1>4. ~sticky'
  BY <1>1, <1>3 DEF Consume
<1> QED BY <1>1, <1>3, <1>4 DEF Consume, StickyError

LEMMA AcceptRound ==
  ASSUME ParserInv, LookupIsInverse, Acceptable, AcceptInv, Consume,
         SurplusLine \/ LineWithoutClause \/ PropagateUnit \/ RejectTautology \/ StoreLine
  PROVE  AcceptInv'
<1>1. /\ counter \in Nat /\ Len(input.lines) \in Nat /\ counter + 1 <= Len(input.lines)
      /\ input.numClauses = Len(input.lines) /\ counter' = counter + 1 /\ input' = input
      /\ ~Malformed(Line, erange) /\ ~sticky' /\ StickyError = <<>>
      /\ \A l \in Written(Line) : -l \notin Written(Line)
  BY AcceptableLine
<1>2. ~anyErrors /\ input \in Texts
  BY DEF AcceptInv, ParserInv, ProgressInv
<1>3. ~SurplusLine
  BY <1>1 DEF SurplusLine
<1>4. ~RejectTautology
  <2>1. \A l \in KnownLiterals : Remaining(Line)[l] > 0 => l \in Written(Line)
    BY <1>1, <1>2, RemainingType
  <2>2. \A l \in Literals : l \in KnownLiterals /\ -l \in KnownLiterals
    BY LiteralFacts
  <2> QED BY <1>1, <2>1, <2>2 DEF RejectTautology, IsTautology
<1>5. Record(<<>>)
  BY <1>1, <1>3, <1>4 DEF LineWithoutClause, PropagateUnit, StoreLine
<1>6. ~anyErrors'
  BY <1>2, <1>5 DEF Record
<1>7. CASE LineWithoutClause \/ StoreLine
  <2>1. phase' = AfterRound
    BY <1>7 DEF LineWithoutClause, StoreLine
  <2>2. /\ phase' = "line" => counter' < Len(input'.lines)
        /\ phase' = "finish" => counter' = Len(input'.lines)
        /\ phase' \in {"line", "finish"}
    BY <1>1, <2>1 DEF AfterRound
  <2> QED BY <1>1, <1>6, <2>2 DEF AcceptInv
<1>8. CASE PropagateUnit
  <2>1. phase' = "propagate" /\ result' # "ErrorDuringPropagation"
    BY <1>8, CallSucceeds DEF PropagateUnit
  <2>2. counter' <= Len(input'.lines)
    BY <1>1
  <2> QED BY <1>1, <1>6, <2>1, <2>2 DEF AcceptInv
<1> QED BY <1>3, <1>4, <1>7, <1>8

\* After a propagation and each simplification the parser goes on with the next line.
LEMMA AcceptNextRound ==
  ASSUME ParserInv, Acceptable, AcceptInv, phase \in {"propagate", "drop", "erase"},
         UNCHANGED <<input, counter, sticky>>, ~anyErrors',
         phase' \in {"drop", "erase", NextRound}
  PROVE  AcceptInv'
<1>1. /\ counter \in Nat /\ Len(input.lines) \in Nat /\ counter <= Len(input.lines) /\ ~sticky
  BY TextFacts DEF ParserInv, ProgressInv, AcceptInv
<1>2. CASE phase' = NextRound
  <2> DEFINE n == Len(input.lines)
  <2>1. counter \in Nat /\ n \in Nat /\ counter <= n
    BY <1>1
  <2>2. NextRound = IF counter < n THEN "line" ELSE "finish"
    BY DEF NextRound
  <2> HIDE DEF n
  <2>3. /\ NextRound = "line" => counter < n
        /\ NextRound = "finish" => counter = n
        /\ NextRound \in {"line", "finish"}
    BY <2>1, <2>2
  <2> QED BY <1>1, <1>2, <2>3 DEF AcceptInv, n
<1>3. CASE phase' \in {"drop", "erase"}
  BY <1>1, <1>3 DEF AcceptInv
<1> QED BY <1>2, <1>3

LEMMA AcceptStep ==
  ASSUME ParserInv, LookupIsInverse, RejectionInv, AcceptInv, ParserStep
  PROVE  AcceptInv'
<1> SUFFICES ASSUME Acceptable' PROVE AcceptInv'
  BY DEF AcceptInv
<1>1. /\ input' = input /\ (erange => erange')
      /\ erange \in BOOLEAN
  BY DEF ParserStep, ReadHeader, SurplusLine, LineWithoutClause, PropagateUnit, RejectTautology,
    StoreLine, ConsumeClause, Consume, Propagating, parserVars, PropagationReturned, DropSatisfied,
    EraseFalsified, Finish, ParserInv, RecordsTypeOK
<1>2. Acceptable
  BY <1>1 DEF Acceptable, WellFormedInput
<1>3. ~anyErrors /\ ~sticky
  BY <1>2 DEF AcceptInv
<1>4. CASE ReadHeader
  <2>1. erange = FALSE /\ input.header = "valid"
    BY <1>1, <1>2 DEF Acceptable, WellFormedInput
  <2>2. phase' = "line" /\ Record(<<>>) /\ UNCHANGED <<input, counter, sticky>> /\ counter = 0
    BY <1>4, <2>1 DEF ReadHeader, HeaderConverts, ParserInv, ProgressInv
  <2>3. ~anyErrors'
    BY <1>3, <2>2 DEF Record
  <2>4. counter < Len(input.lines)
    <3>1. input.numClauses \in Nat /\ Len(input.lines) = input.numClauses /\ input.numClauses > 0
      BY <1>2, TextFacts DEF Acceptable, WellFormedInput, ParserInv, ProgressInv
    <3> QED BY <2>2, <3>1
  <2> QED BY <1>3, <2>2, <2>3, <2>4 DEF AcceptInv
<1>5. CASE SurplusLine \/ LineWithoutClause \/ PropagateUnit \/ RejectTautology \/ StoreLine
  BY <1>2, <1>5, AcceptRound DEF SurplusLine, LineWithoutClause, PropagateUnit, RejectTautology,
    StoreLine, ConsumeClause
<1>6. CASE Propagating
  <2>1. UNCHANGED parserVars /\ phase = "propagate" /\ result' # "ErrorDuringPropagation"
    BY <1>6, PropagationSucceeds DEF Propagating
  <2> QED BY <1>2, <2>1 DEF AcceptInv, parserVars
<1>7. CASE PropagationReturned
  <2>1. /\ phase = "propagate" /\ result # "ErrorDuringPropagation"
        /\ UNCHANGED <<input, counter, sticky>>
    BY <1>2, <1>7 DEF PropagationReturned, AcceptInv
  <2>2. ~anyErrors'
    BY <1>3, <1>7, <2>1 DEF PropagationReturned, Record
  <2>3. phase' \in {"drop", NextRound}
    <3>1. CASE result = "Ok"
      <4>1. simplified < Len(trail) /\ simplified \in Nat /\ Len(trail) \in Nat
        BY <2>1, <3>1, LenProperties DEF RejectionInv, ParserInv, ProgressInv, Inv, AssignmentInv,
          AssignmentTypeOK
      <4> QED BY <1>7, <3>1, <4>1 DEF PropagationReturned
    <3>2. CASE result # "Ok"
      BY <1>7, <3>2 DEF PropagationReturned
    <3> QED BY <3>1, <3>2
  <2> QED BY <1>2, <2>1, <2>2, <2>3, AcceptNextRound
<1>8. CASE DropSatisfied
  <2>1. phase = "drop" /\ phase' = "erase" /\ UNCHANGED <<input, counter, sticky>>
    BY <1>8 DEF DropSatisfied
  <2>2. Record(<<>>)
    BY <1>8, <2>1, PendingType, NothingMissing DEF DropSatisfied
  <2>3. ~anyErrors'
    BY <1>3, <2>2 DEF Record
  <2> QED BY <1>2, <2>1, <2>3, AcceptNextRound
<1>9. CASE EraseFalsified
  <2>1. phase = "erase" /\ phase' \in {"drop", NextRound} /\ UNCHANGED <<input, counter, sticky>>
    BY <1>9 DEF EraseFalsified
  <2>2. Record(<<>>)
    BY <1>9, <2>1, PendingType, NothingMissing DEF EraseFalsified
  <2>3. ~anyErrors'
    BY <1>3, <2>2 DEF Record
  <2> QED BY <1>2, <2>1, <2>3, AcceptNextRound
<1>10. CASE Finish
  <2>1. phase = "finish" /\ phase' = "done" /\ counter = input.numClauses /\ sticky' = sticky
    BY <1>2, <1>10 DEF Finish, AcceptInv, Acceptable, WellFormedInput
  <2>2. Record(<<>>) /\ (returned' <=> ~anyErrors')
    BY <1>10, <2>1 DEF Finish
  <2>3. ~anyErrors'
    BY <1>3, <2>2 DEF Record
  <2> QED BY <1>3, <2>1, <2>2, <2>3 DEF AcceptInv
<1> QED BY <1>4, <1>5, <1>6, <1>7, <1>8, <1>9, <1>10 DEF ParserStep

LEMMA AcceptInvariance == ParserSpec => []AcceptInv
<1>1. ParserInit => AcceptInv
  BY DEF ParserInit, AcceptInv
<1>2. ParserInv /\ LookupIsInverse /\ RejectionInv /\ AcceptInv /\ [ParserNext]_allVars => AcceptInv'
  <2>1. ASSUME NEW in \in FollowUps, ParseNext(in)
        PROVE  AcceptInv'
    BY <2>1 DEF ParseNext, Begin, AcceptInv
  <2>2. ASSUME AcceptInv, UNCHANGED allVars
        PROVE  AcceptInv'
    BY <2>2 DEF allVars, parserVars, vars, AcceptInv, Acceptable, WellFormedInput
  <2> QED BY <2>1, <2>2, AcceptStep DEF ParserNext
<1> QED BY <1>1, <1>2, ParserInvariance, ParserExactness, RejectionInvariance, PTL DEF ParserSpec

\* A well-formed text is accepted, with and without unit propagation, whatever the
\* parser was used for before, as long as strtol has met no number out of its range: the
\* errno it leaves is the one thing that makes parseDimacsContent reject such a text.
THEOREM WellFormedAcceptedUnlessErrno == ParserSpec => [](~erange => WellFormedInputAccepted)
<1>1. AcceptInv => (~erange => WellFormedInputAccepted)
  BY DEF AcceptInv, Acceptable, WellFormedInputAccepted
<1> QED BY <1>1, AcceptInvariance, PTL

\* No text has a number that strtol answers with ERANGE.
NumbersInRange ==
  \A in \in Inputs \cup FollowUps :
    /\ in.header # "overflow"
    /\ \A q \in DOMAIN in.lines : \A p \in DOMAIN in.lines[q] : in.lines[q][p] # Overflow

\* Where every number of every text fits a long, each well-formed text is accepted, also
\* after texts that were not (parseDimacsContent, resetInternals).
THEOREM WellFormedAccepted ==
  ASSUME NumbersInRange
  PROVE  ParserSpec => []WellFormedInputAccepted
<1>1. ParserInit => ~erange
  BY DEF ParserInit
<1>2. ParserInv /\ ~erange /\ [ParserNext]_allVars => ~erange'
  <2> SUFFICES ASSUME ParserInv, ~erange, [ParserNext]_allVars PROVE ~erange'
    OBVIOUS
  <2>1. CASE ReadHeader
    <3>1. input.header # "overflow"
      BY NumbersInRange DEF NumbersInRange, ParserInv, ProgressInv, Texts
    <3> QED BY <2>1, <3>1 DEF ReadHeader
  <2>2. CASE Consume
    <3>1. input \in Texts /\ counter \in Nat /\ Len(input.lines) \in Nat
      BY TextFacts DEF ParserInv, ProgressInv
    <3>2. ~Overflows(Line)
      <4>1. CASE counter < Len(input.lines)
        <5>1. Line = input.lines[counter + 1] /\ counter + 1 \in 1 .. Len(input.lines)
          BY <3>1, <4>1 DEF Line
        <5>2. DOMAIN input.lines = 1 .. Len(input.lines)
          BY <3>1, TextFacts, LenProperties
        <5> QED BY <3>1, <5>1, <5>2, NumbersInRange DEF NumbersInRange, Overflows, Texts
      <4>2. CASE ~(counter < Len(input.lines))
        <5>1. Line = <<>>
          BY <4>2 DEF Line
        <5>2. Blank(<<>>)
          BY DEF Blank
        <5> QED BY <5>1, <5>2 DEF Overflows
      <4> QED BY <4>1, <4>2
    <3> QED BY <2>2, <3>2 DEF Consume
  <2>3. CASE UNCHANGED erange
    BY <2>3
  <2> QED BY <2>1, <2>2, <2>3 DEF ParserNext, ParserStep, SurplusLine, LineWithoutClause,
    PropagateUnit, RejectTautology, StoreLine, ConsumeClause, Propagating, parserVars,
    PropagationReturned, DropSatisfied, EraseFalsified, Finish, ParseNext, allVars
<1> QED BY <1>1, <1>2, ParserInvariance, WellFormedAcceptedUnlessErrno, PTL DEF ParserSpec
-----------------------------------------------------------------------------
(***************************************************************************)
(* The formula the parser builds is the text it has read, simplified by    *)
(* the assignments, and nothing else: for every text and every order in    *)
(* which propagate() and the loops walk the hash sets.                     *)
(*                                                                         *)
(* In the middle of a simplification the clauses are those without a       *)
(* literal of a first part of the trail, and have lost the negations of    *)
(* such a part.  The line of the unit clause that is being propagated is   *)
(* not stored, and true by the time the simplification is over.            *)
(*                                                                         *)
(* The last part proves that no unit clause is left in this formula, from  *)
(* what ProblemDefinitionProofs says of propagate(): a clause it has to do *)
(* something about is one some call will look at again.                    *)
(***************************************************************************)
\* The first literals of the trail, those the clauses are dropped and erased for.
Assigned(n) == {trail[p] : p \in 1 .. n}
DroppedFor == Assigned(IF phase = "erase" THEN simplified + 1 ELSE simplified)
ErasedFor == Assigned(simplified)

Simplifying == phase \in {"propagate", "drop", "erase"}

\* The lines whose clauses are stored.
Kept ==
  {q \in ClauseLines :
     (Simplifying => q # counter) /\ Written(input.lines[q]) \cap DroppedFor = {}}

StoreIsKept ==
  /\ \A i \in DOMAIN clauses : i \in Nat /\ i + 1 \in Kept
  /\ \A q \in Kept : q - 1 \in DOMAIN clauses

LiteralsAreLeft ==
  \A i \in DOMAIN clauses, k \in KnownLiterals :
    clauses[i].literals[k] = IF -k \in ErasedFor THEN 0 ELSE Count(input.lines[i + 1], k)

UnitInUse ==
  /\ Simplifying => counter \in ClauseLines /\ SatisfiedByAssignment(input.lines[counter])
  /\ ~Simplifying => simplified = Len(trail)
  /\ phase = "propagate" => simplified < Len(trail)

\* Nothing has disturbed the parse, and nothing escapes its record.
Clean == ~Disturbed /\ configuration.recordParsingErrors

\* StoreIsTextUnderAssignment at every moment.
TextInv == Clean => StoreIsKept /\ LiteralsAreLeft /\ UnitInUse
-----------------------------------------------------------------------------
(* Lines and the trail.                                                    *)

\* The lines of clauses hold declared literals.
LEMMA ClauseLineFacts ==
  ASSUME input \in Texts, NEW q \in ClauseLines
  PROVE  /\ q \in Nat /\ q \in 1 .. Len(input.lines) /\ q <= counter
         /\ input.lines[q] \in Seq(Int \cup {Junk, Overflow})
         /\ Written(input.lines[q]) \subseteq Literals
<1> DEFINE line == input.lines[q]
<1>1. q \in 1 .. Len(input.lines) /\ ~Blank(line) /\ ~Malformed(line, FALSE) /\ q <= counter
  BY DEF ClauseLines
<1>2. input.lines \in Seq(Seq(Int \cup {Junk, Overflow})) /\ Len(input.lines) \in Nat
  BY TextFacts
<1>3. line \in Seq(Int \cup {Junk, Overflow})
  BY <1>1, <1>2, ElementOfSeq
<1>4. Len(line) \in Nat /\ DOMAIN line = 1 .. Len(line)
  BY <1>3, LenProperties
<1>5. \A p \in DOMAIN line : ~Rejects(line, p, FALSE)
  BY <1>1 DEF Malformed
<1>6. \A n \in Nat : \A p \in 1 .. n - 1 : p \in 1 .. n /\ p # n
  OBVIOUS
<1>7. ASSUME NEW p \in 1 .. Len(line) - 1
      PROVE  line[p] \in Literals
  <2>1. p \in DOMAIN line /\ p # Len(line)
    BY <1>4, <1>6, Zenon
  <2> QED BY <1>5, <2>1 DEF Rejects
<1>8. q \in Nat
  BY <1>1, <1>2
<1> QED BY <1>1, <1>3, <1>7, <1>8 DEF Written

\* The true literals are those on the trail; those with a value, and their negations.
LEMMA TrueIsAssigned ==
  ASSUME AssignmentInv, NEW l \in Literals
  PROVE  /\ IsTrue(l) <=> l \in Assigned(Len(trail))
         /\ LiteralValue(l) # "Unknown" <=> (l \in Assigned(Len(trail)) \/ -l \in Assigned(Len(trail)))
<1>1. /\ Variable(l) \in Variables /\ LiteralValue(l) = values[Variable(l)]
      /\ SatisfyingValue(l) # "Unknown"
  BY LiteralFacts DEF LiteralValue
<1>2. ASSUME NEW p \in 1 .. Len(trail)
      PROVE  /\ trail[p] \in Literals
             /\ values[Variable(trail[p])] = SatisfyingValue(trail[p])
  BY DEF AssignmentInv, AssignmentTypeOK, TrailMatchesValues
<1>3. \A k \in Literals : Variable(k) = Variable(l) => k = l \/ k = -l
  BY LiteralFacts DEF Variable
<1>4. SatisfyingValue(-l) # SatisfyingValue(l)
  BY DEF SatisfyingValue, Literals
<1>5. ASSUME values[Variable(l)] # "Unknown"
      PROVE  \E p \in 1 .. Len(trail) : trail[p] = l \/ trail[p] = -l
  <2>1. PICK p \in 1 .. Len(trail) : Variable(trail[p]) = Variable(l)
    BY <1>1, <1>5 DEF AssignmentInv, TrailMatchesValues
  <2> QED BY <1>2, <1>3, <2>1
<1>6. ASSUME NEW p \in 1 .. Len(trail), trail[p] = l \/ trail[p] = -l
      PROVE  values[Variable(l)] = SatisfyingValue(trail[p]) /\ values[Variable(l)] # "Unknown"
  BY <1>2, <1>6, LiteralFacts
<1> QED BY <1>1, <1>4, <1>5, <1>6 DEF IsTrue, Assigned

\* A variable is on the trail with one polarity only.
LEMMA TrailIsConsistent ==
  ASSUME AssignmentInv, NEW p \in 1 .. Len(trail), NEW q \in 1 .. Len(trail)
  PROVE  trail[p] # -trail[q]
<1>1. trail[p] \in Literals /\ trail[q] \in Literals
  BY DEF AssignmentInv, AssignmentTypeOK
<1>2. SUFFICES ASSUME trail[p] = -trail[q] PROVE FALSE
  OBVIOUS
<1>3. Variable(trail[p]) = Variable(trail[q])
  BY <1>1, <1>2, LiteralFacts
<1>4. trail[p] = trail[q]
  BY <1>3 DEF AssignmentInv, TrailMatchesValues
<1> QED BY <1>1, <1>2, <1>4 DEF Literals

\* A round adds its own line at most.
LEMMA RoundLines ==
  ASSUME ParserInv, Consume
  PROVE  /\ ClauseLines \subseteq ClauseLines' /\ counter + 1 \notin ClauseLines
         /\ \A p \in ClauseLines' : p \in ClauseLines \/ p = counter + 1
<1>1. counter \in Nat /\ counter' = counter + 1 /\ input' = input /\ input \in Texts
  BY DEF Consume, ParserInv, ProgressInv
<1>2. Len(input.lines) \in Nat
  BY <1>1, TextFacts
<1>3. \A p \in 1 .. Len(input.lines) :
        /\ p <= counter => p <= counter + 1
        /\ p <= counter + 1 => p <= counter \/ p = counter + 1
  BY <1>1, <1>2
<1>4. ~(counter + 1 <= counter)
  BY <1>1
<1> QED BY <1>1, <1>3, <1>4 DEF ClauseLines

\* A clause that is read is the one of its line.
LEMMA LineIsClause ==
  ASSUME ParserInv, ConsumeClause, erange = FALSE
  PROVE  /\ counter + 1 \in ClauseLines' /\ input.lines[counter + 1] = Line
         /\ Written(Line) \subseteq Literals
<1>1. /\ counter \in Nat /\ counter' = counter + 1 /\ input' = input /\ input \in Texts
      /\ counter + 1 <= input.numClauses /\ YieldsClause(Line)
  BY DEF ConsumeClause, Consume, ParserInv, ProgressInv
<1>2. Len(input.lines) \in Nat
  BY <1>1, TextFacts
<1>3. ~Blank(Line) /\ ~Malformed(Line, FALSE)
  BY <1>1 DEF YieldsClause
<1>4. counter < Len(input.lines)
  BY <1>3, EmptySeq DEF Line, Blank
<1>5. Line = input.lines[counter + 1] /\ counter + 1 \in 1 .. Len(input.lines)
  BY <1>1, <1>2, <1>4 DEF Line
<1>6. counter + 1 \in ClauseLines'
  <2>1. ~Blank(input.lines[counter + 1]) /\ ~Malformed(input.lines[counter + 1], FALSE)
    BY <1>3, <1>5, Zenon
  <2>2. counter + 1 <= counter' /\ counter + 1 \in 1 .. Len(input'.lines)
    BY <1>1, <1>5
  <2> QED BY <1>1, <2>1, <2>2 DEF ClauseLines
<1>7. Written(Line) \subseteq Literals
  BY <1>1, <1>3, WrittenInRange
<1> QED BY <1>5, <1>6, <1>7
-----------------------------------------------------------------------------
(* The steps.                                                              *)

\* A step that keeps the lines kept and what is left of them.
LEMMA StoreKept ==
  ASSUME StoreIsKept, LiteralsAreLeft, input' = input, Kept' = Kept, ErasedFor' = ErasedFor,
         DOMAIN clauses' = DOMAIN clauses,
         \A j \in DOMAIN clauses : clauses'[j].literals = clauses[j].literals
  PROVE  StoreIsKept' /\ LiteralsAreLeft'
  BY DEF StoreIsKept, LiteralsAreLeft

\* A first part of the trail stays what it is.
LEMMA TrailExtended ==
  ASSUME AssignmentInv, NEW n \in 0 .. Len(trail),
         \A p \in 1 .. Len(trail) : trail'[p] = trail[p]
  PROVE  {trail'[p] : p \in 1 .. n} = Assigned(n)
<1>1. Len(trail) \in Nat
  BY LenProperties DEF AssignmentInv, AssignmentTypeOK
<1>2. \A p \in 1 .. n : p \in 1 .. Len(trail)
  BY <1>1
<1> QED BY <1>2 DEF Assigned

\* A line that is true stays true.
LEMMA LineStaysTrue ==
  ASSUME AssignmentInv, AssignmentInv', NEW line, Written(line) \subseteq Literals,
         Len(trail) <= Len(trail'), Len(trail) \in Nat, Len(trail') \in Nat,
         \A p \in 1 .. Len(trail) : trail'[p] = trail[p],
         SatisfiedByAssignment(line)
  PROVE  \E l \in Written(line) : IsTrue(l)'
<1>1. PICK l \in Written(line) : IsTrue(l)
  BY DEF SatisfiedByAssignment
<1>2. PICK p \in 1 .. Len(trail) : trail[p] = l
  BY <1>1, TrueIsAssigned DEF Assigned
<1>3. p \in 1 .. Len(trail') /\ trail'[p] = l
  BY <1>2
<1>4. l \in Literals
  BY <1>1
<1>5. /\ values'[Variable(l)] = SatisfyingValue(l)
  BY <1>3 DEF AssignmentInv, TrailMatchesValues
<1>6. IsTrue(l)'
  BY <1>4, <1>5, LiteralFacts DEF IsTrue, LiteralValue
<1> QED BY <1>1, <1>6

\* Between two rounds a line is true if and only if its clause would be dropped.
LEMMA SettledLine ==
  ASSUME AssignmentInv, ~Simplifying, simplified = Len(trail),
         NEW line, Written(line) \subseteq Literals
  PROVE  SatisfiedByAssignment(line) <=> Written(line) \cap DroppedFor # {}
<1>1. DroppedFor = Assigned(Len(trail))
  BY DEF DroppedFor, Simplifying
<1>2. \A l \in Written(line) : IsTrue(l) <=> l \in Assigned(Len(trail))
  BY TrueIsAssigned
<1> QED BY <1>1, <1>2 DEF SatisfiedByAssignment
-----------------------------------------------------------------------------
(* The rounds of the loop.                                                 *)

\* A clean state comes from a clean one, by a step that records no error.
LEMMA CleanBefore ==
  ASSUME ParserInv, ParserStep, Clean'
  PROVE  /\ Clean /\ ~anyErrors' /\ ~anyErrors /\ ~unsat' /\ ~unsat
         /\ input' = input /\ configuration' = configuration
<1>1. input' = input /\ configuration' = configuration
  BY DEF ParserStep, ReadHeader, SurplusLine, LineWithoutClause, PropagateUnit, ConsumeClause,
    Consume, RejectTautology, StoreLine, Propagating, parserVars, PropagationReturned,
    DropSatisfied, EraseFalsified, Finish
<1>2. ~unsat'
  BY DEF Clean, Disturbed
<1> QED BY <1>1, <1>2, DisturbedBefore DEF Clean

\* As long as the position in the trail and the phase are the same, so is what is
\* dropped and erased.
LEMMA ProgressKept ==
  ASSUME ParserInv, simplified' = simplified, phase = "erase" <=> phase' = "erase",
         \A p \in 1 .. Len(trail) : trail'[p] = trail[p]
  PROVE  DroppedFor' = DroppedFor /\ ErasedFor' = ErasedFor
<1>1. Len(trail) \in Nat /\ simplified \in 0 .. Len(trail)
  BY LenProperties DEF ParserInv, ProgressInv, Inv, AssignmentInv, AssignmentTypeOK
<1>2. ErasedFor' = ErasedFor
  BY <1>1, TrailExtended DEF ErasedFor, Assigned, ParserInv, Inv
<1>3. CASE phase = "erase"
  <2>1. simplified + 1 \in 0 .. Len(trail)
    BY <1>1, <1>3 DEF ParserInv, ProgressInv
  <2> QED BY <1>2, <1>3, <2>1, TrailExtended DEF DroppedFor, Assigned, ParserInv, Inv
<1>4. CASE phase # "erase"
  BY <1>2, <1>4 DEF DroppedFor, ErasedFor, Assigned
<1> QED BY <1>2, <1>3, <1>4

\* What holds when a line is read.
LEMMA RoundFacts ==
  ASSUME ParserInv, ErrorsKnown, Clean, UnitInUse, Consume
  PROVE  /\ phase = "line" /\ ~Simplifying /\ simplified = Len(trail)
         /\ counter \in Nat /\ counter' = counter + 1 /\ input' = input
         /\ counter + 1 <= input.numClauses => erange = FALSE
         /\ ~anyErrors /\ configuration.recordParsingErrors
         /\ input \in Texts /\ StoreInv /\ AssignmentInv
<1>1. phase = "line" /\ ~Simplifying
  BY DEF Consume, Simplifying
<1>2. ASSUME counter + 1 <= input.numClauses
      PROVE  erange = FALSE
  <2>1. input.numClauses # 0
    BY <1>2 DEF ParserInv, ProgressInv
  <2> QED BY <1>1, <2>1 DEF ErrorsKnown, Clean, Disturbed, ParserInv, RecordsTypeOK
<1> QED BY <1>1, <1>2 DEF UnitInUse, Consume, Clean, Disturbed, ParserInv, ProgressInv, Inv

\* A line that is not one of the declared ones, or that holds no clause, or one that is
\* true already.
LEMMA LineWithoutClauseText ==
  ASSUME ParserInv, ErrorsKnown, Clean, StoreIsKept, LiteralsAreLeft, UnitInUse,
         SurplusLine \/ LineWithoutClause
  PROVE  StoreIsKept' /\ LiteralsAreLeft' /\ UnitInUse'
<1>1. /\ Consume /\ UNCHANGED vars /\ simplified' = simplified
      /\ phase' \in {"line", "finish"}
      /\ SurplusLine => ~(counter + 1 <= input.numClauses)
      /\ LineWithoutClause => ~YieldsClause(Line)
  <2>1. input.numClauses \in Nat /\ counter \in Nat
    BY TextFacts DEF ParserInv, ProgressInv
  <2> QED BY <2>1 DEF SurplusLine, LineWithoutClause, AfterRound
<1>2. /\ phase = "line" /\ ~Simplifying /\ simplified = Len(trail)
      /\ counter \in Nat /\ counter' = counter + 1 /\ input' = input
      /\ ~anyErrors /\ configuration.recordParsingErrors /\ AssignmentInv
  BY <1>1, RoundFacts
<1>3. DroppedFor' = DroppedFor /\ ErasedFor' = ErasedFor /\ ~Simplifying'
  BY <1>1, <1>2, ProgressKept DEF vars, Simplifying
<1>4. ASSUME NEW q \in ClauseLines', q \notin ClauseLines
      PROVE  Written(input.lines[q]) \cap DroppedFor # {}
  BY <1>1, <1>2, <1>4, RoundAddsLine, SettledLine
<1>5. Kept' = Kept
  BY <1>1, <1>2, <1>3, <1>4, RoundLines DEF Kept
<1>6. UnitInUse'
  BY <1>1, <1>2, <1>3 DEF UnitInUse, vars, Simplifying
<1> QED BY <1>1, <1>2, <1>3, <1>5, <1>6, StoreKept DEF vars

\* The clause of a line is stored without its assigned literals.
LEMMA StoreLineText ==
  ASSUME ParserInv, ErrorsKnown, Clean, StoreIsKept, LiteralsAreLeft, UnitInUse, StoreLine
  PROVE  StoreIsKept' /\ LiteralsAreLeft' /\ UnitInUse'
<1>1. /\ Consume /\ ConsumeClause /\ YieldsClause(Line) /\ simplified' = simplified
      /\ phase' \in {"line", "finish"} /\ trail' = trail /\ values' = values
      /\ StoreClause(counter, Remaining(Line))
  BY DEF StoreLine, ConsumeClause, AfterRound, assignment
<1>2. /\ phase = "line" /\ ~Simplifying /\ simplified = Len(trail) /\ erange = FALSE
      /\ counter \in Nat /\ counter' = counter + 1 /\ input' = input /\ input \in Texts
      /\ AssignmentInv
  BY <1>1, RoundFacts DEF ConsumeClause
<1>3. DroppedFor' = DroppedFor /\ ErasedFor' = ErasedFor /\ ~Simplifying'
  BY <1>1, <1>2, ProgressKept DEF Simplifying
<1>4. /\ counter + 1 \in ClauseLines' /\ input.lines[counter + 1] = Line
      /\ Written(Line) \subseteq Literals
  BY <1>1, <1>2, LineIsClause
<1>5. Written(Line) \cap DroppedFor = {}
  BY <1>1, <1>2, <1>4, SettledLine DEF YieldsClause
<1>6. Kept' = Kept \cup {counter + 1}
  <2>1. \A q \in ClauseLines : q \in Kept <=> q \in Kept'
    BY <1>2, <1>3, RoundLines, <1>1 DEF Kept
  <2>2. counter + 1 \in Kept'
    BY <1>2, <1>3, <1>4, <1>5 DEF Kept
  <2>3. Kept \subseteq ClauseLines /\ Kept' \subseteq ClauseLines'
    BY DEF Kept
  <2> QED BY <1>1, <2>1, <2>2, <2>3, RoundLines
<1>7. /\ DOMAIN clauses' = DOMAIN clauses \cup {counter}
      /\ clauses'[counter].literals = Remaining(Line)
      /\ \A j \in DOMAIN clauses : clauses'[j] = clauses[j]
      /\ counter \notin DOMAIN clauses
  BY <1>1, <1>2, YieldedInRange DEF StoreClause
<1>8. StoreIsKept'
  BY <1>2, <1>6, <1>7 DEF StoreIsKept
<1>9. ASSUME NEW k \in KnownLiterals
      PROVE  Remaining(Line)[k] = IF -k \in ErasedFor THEN 0 ELSE Count(Line, k)
  <2>1. Remaining(Line)[k] = IF LiteralValue(k) = "Unknown" THEN Count(Line, k) ELSE 0
    BY <1>9 DEF Remaining, Unassigned
  <2>2. ErasedFor = Assigned(Len(trail)) /\ ErasedFor \subseteq Literals /\ DroppedFor = ErasedFor
    BY <1>2 DEF ErasedFor, DroppedFor, Assigned, AssignmentInv, AssignmentTypeOK
  <2>3. Count(Line, k) \in Nat /\ (Count(Line, k) > 0 <=> k \in Written(Line))
    BY <1>2, LineType, CountType
  <2>4. CASE k \in Literals
    <3>1. LiteralValue(k) # "Unknown" <=> (k \in ErasedFor \/ -k \in ErasedFor)
      BY <1>2, <2>2, <2>4, TrueIsAssigned
    <3>2. k \in ErasedFor => k \notin Written(Line)
      BY <1>5, <2>2
    <3>3. k \in ErasedFor => Count(Line, k) = 0
      BY <2>3, <3>2
    <3> QED BY <2>1, <3>1, <3>3
  <2>5. CASE k \notin Literals
    <3>1. k \in Int
      BY ProblemDefinitionAssumption DEF ProblemDefinitionAssumption
    <3>2. -k \notin Literals
      BY <2>5, <3>1, LiteralFacts DEF Literals
    <3>3. -k \notin ErasedFor
      BY <2>2, <3>2
    <3>4. Count(Line, k) = 0
      BY <1>4, <2>3, <2>5
    <3> QED BY <2>1, <3>3, <3>4
  <2> QED BY <2>4, <2>5
<1>10. LiteralsAreLeft'
  <2>1. ASSUME NEW i \in DOMAIN clauses', NEW k \in KnownLiterals
        PROVE  clauses'[i].literals[k] = IF -k \in ErasedFor THEN 0 ELSE Count(input.lines[i + 1], k)
    BY <1>4, <1>7, <1>9, <2>1 DEF LiteralsAreLeft
  <2> QED BY <1>2, <1>3, <2>1 DEF LiteralsAreLeft
<1>11. UnitInUse'
  BY <1>1, <1>2, <1>3 DEF UnitInUse, Simplifying
<1> QED BY <1>8, <1>10, <1>11

\* The unit clause of a line is not stored, and true from now on.
LEMMA PropagateUnitText ==
  ASSUME ParserInv, ParserInv', ErrorsKnown, Clean, StoreIsKept, LiteralsAreLeft, UnitInUse,
         PropagateUnit, result' = "Ok"
  PROVE  StoreIsKept' /\ LiteralsAreLeft' /\ UnitInUse'
<1>1. PICK l \in Literals : IsUnit(Remaining(Line), l) /\ Call(l, <<>>)
  BY DEF PropagateUnit
<1>2. /\ Consume /\ ConsumeClause /\ simplified' = Len(trail) /\ phase' = "propagate"
  BY DEF PropagateUnit, ConsumeClause
<1>3. /\ phase = "line" /\ ~Simplifying /\ simplified = Len(trail) /\ erange = FALSE
      /\ counter \in Nat /\ counter' = counter + 1 /\ input' = input /\ input \in Texts
      /\ AssignmentInv /\ StoreInv
  BY <1>2, RoundFacts DEF PropagateUnit, ConsumeClause
<1>4. l \in Written(Line) /\ LiteralValue(l) = "Unknown"
  <2>1. l \in KnownLiterals /\ Remaining(Line)[l] > 0
    BY <1>1, LiteralFacts DEF IsUnit
  <2> QED BY <1>3, <2>1, RemainingType DEF Remaining, Unassigned
<1>5. CallAssigns(l, <<>>)
  BY <1>1, <1>4 DEF Call, CallAssigned, CallRefused, Abort
<1>6. /\ \A p \in 1 .. Len(trail) : trail'[p] = trail[p]
      /\ DOMAIN clauses' = DOMAIN clauses
      /\ \A j \in DOMAIN clauses : clauses'[j].literals = clauses[j].literals
  BY <1>1, <1>3, CallKeeps
<1>7. DroppedFor' = DroppedFor /\ ErasedFor' = ErasedFor
  BY <1>2, <1>3, <1>6, ProgressKept
<1>8. /\ counter + 1 \in ClauseLines' /\ input.lines[counter + 1] = Line
      /\ Written(Line) \subseteq Literals
  BY <1>2, <1>3, LineIsClause
<1>9. Kept' = Kept
  <2>1. \A q \in ClauseLines' : q # counter' => (q \in Kept <=> q \in Kept')
    BY <1>2, <1>3, <1>7, RoundLines DEF Kept
  <2>2. counter' \notin Kept' /\ counter' \notin Kept
    BY <1>2, <1>3, RoundLines DEF Kept, Simplifying
  <2>3. Kept \subseteq ClauseLines' /\ Kept' \subseteq ClauseLines'
    BY <1>2, RoundLines DEF Kept
  <2> QED BY <2>1, <2>2, <2>3
<1>10. Len(trail') = Len(trail) + 1 /\ IsTrue(l)'
  <2>1. AssignmentInv' /\ Len(trail') = Len(trail) + 1 /\ trail'[Len(trail) + 1] = l
    BY <1>3, <1>4, <1>5, RecordAssignmentInv DEF CallAssigns
  <2>2. Len(trail) + 1 \in 1 .. Len(trail')
    BY <2>1, LenProperties DEF AssignmentInv, AssignmentTypeOK
  <2>3. l \in Assigned(Len(trail))'
    BY <2>1, <2>2 DEF Assigned
  <2> QED BY <2>1, <2>3, <1>3, LiteralFacts DEF IsTrue, LiteralValue, AssignmentInv, TrailMatchesValues,
        Assigned
<1>11. UnitInUse'
  <2>1. \E k \in Written(input'.lines[counter']) : IsTrue(k)'
    BY <1>3, <1>4, <1>8, <1>10
  <2>2. simplified' < Len(trail')
    BY <1>2, <1>10, LenProperties DEF ParserInv, Inv, AssignmentInv, AssignmentTypeOK
  <2> QED BY <1>2, <1>3, <1>8, <2>1, <2>2 DEF UnitInUse, Simplifying, SatisfiedByAssignment
<1> QED BY <1>3, <1>6, <1>7, <1>9, <1>11, StoreKept
-----------------------------------------------------------------------------
(* The simplification.                                                     *)

\* What holds while the clauses are simplified.
LEMMA SimplifyingFacts ==
  ASSUME ParserInv, UnitInUse, Simplifying
  PROVE  /\ counter \in ClauseLines /\ SatisfiedByAssignment(input.lines[counter])
         /\ Written(input.lines[counter]) \subseteq Literals
         /\ input \in Texts /\ StoreInv /\ AssignmentInv
         /\ simplified \in Nat /\ Len(trail) \in Nat /\ simplified < Len(trail)
<1>1. counter \in ClauseLines /\ SatisfiedByAssignment(input.lines[counter])
  BY DEF UnitInUse
<1>2. input \in Texts /\ StoreInv /\ AssignmentInv
  BY DEF ParserInv, ProgressInv, Inv
<1>3. simplified \in Nat /\ Len(trail) \in Nat /\ simplified < Len(trail)
  BY LenProperties DEF ParserInv, ProgressInv, UnitInUse, Simplifying, Inv, AssignmentInv,
    AssignmentTypeOK
<1> QED BY <1>1, <1>2, <1>3, ClauseLineFacts

\* The recursion of propagate() assigns, and leaves the clauses as they are.
LEMMA PropagatingText ==
  ASSUME ParserInv, ParserInv', StoreIsKept, LiteralsAreLeft, UnitInUse, Propagating
  PROVE  StoreIsKept' /\ LiteralsAreLeft' /\ UnitInUse'
<1>1. phase = "propagate" /\ UNCHANGED parserVars /\ PropagationStep /\ Simplifying
  BY DEF Propagating, Simplifying
<1>2. /\ counter \in ClauseLines /\ SatisfiedByAssignment(input.lines[counter])
      /\ Written(input.lines[counter]) \subseteq Literals /\ StoreInv /\ AssignmentInv
      /\ simplified \in Nat /\ Len(trail) \in Nat /\ simplified < Len(trail)
  BY <1>1, SimplifyingFacts
<1>3. /\ \A p \in 1 .. Len(trail) : trail'[p] = trail[p]
      /\ DOMAIN clauses' = DOMAIN clauses
      /\ \A j \in DOMAIN clauses : clauses'[j].literals = clauses[j].literals
      /\ Len(trail') \in Nat /\ Len(trail) <= Len(trail')
  BY <1>1, <1>2, PropagationKeeps, PropagationGrowsTrail
<1>4. DroppedFor' = DroppedFor /\ ErasedFor' = ErasedFor
  BY <1>1, <1>3, ProgressKept DEF parserVars
<1>5. ClauseLines' = ClauseLines /\ Simplifying' /\ Kept' = Kept
  BY <1>1, <1>4 DEF ClauseLines, parserVars, Simplifying, Kept
<1>6. \E l \in Written(input.lines[counter]) : IsTrue(l)'
  BY <1>2, <1>3, LineStaysTrue DEF ParserInv, Inv
<1>7. UnitInUse'
  <2>1. simplified < Len(trail')
    BY <1>2, <1>3
  <2> QED BY <1>1, <1>2, <1>5, <1>6, <2>1 DEF UnitInUse, parserVars, SatisfiedByAssignment
<1> QED BY <1>1, <1>3, <1>4, <1>5, <1>7, StoreKept DEF parserVars

\* A call that returns Ok has assigned something: the simplification begins.
LEMMA PropagationReturnedText ==
  ASSUME ParserInv, StoreIsKept, LiteralsAreLeft, UnitInUse, PropagationReturned, Clean'
  PROVE  StoreIsKept' /\ LiteralsAreLeft' /\ UnitInUse'
<1>1. /\ phase = "propagate" /\ Simplifying /\ UNCHANGED vars
      /\ UNCHANGED <<input, counter, simplified>>
  BY DEF PropagationReturned, Simplifying
<1>2. result = "Ok"
  <2>1. result \in Results
    BY DEF ParserInv, Inv, CallInv, CallTypeOK
  <2>2. result # "Conflict"
    BY DEF PropagationReturned, Clean, Disturbed
  <2>3. result # "ErrorDuringPropagation"
    BY DEF PropagationReturned, Clean, Disturbed, Record
  <2> QED BY <2>1, <2>2, <2>3 DEF Results
<1>3. /\ counter \in ClauseLines /\ SatisfiedByAssignment(input.lines[counter])
      /\ simplified \in Nat /\ Len(trail) \in Nat /\ simplified < Len(trail)
  BY <1>1, SimplifyingFacts
<1>4. phase' = "drop"
  BY <1>2, <1>3 DEF PropagationReturned
<1>5. DroppedFor' = DroppedFor /\ ErasedFor' = ErasedFor
  BY <1>1, <1>4, ProgressKept DEF vars
<1>6. ClauseLines' = ClauseLines /\ Simplifying' /\ Kept' = Kept
  BY <1>1, <1>4, <1>5 DEF ClauseLines, Simplifying, Kept
<1>7. UnitInUse'
  <2>1. \A l : IsTrue(l)' <=> IsTrue(l)
    BY <1>1 DEF vars, IsTrue, LiteralValue
  <2>2. SatisfiedByAssignment(input.lines[counter])'
    BY <1>1, <1>3, <2>1 DEF SatisfiedByAssignment
  <2> QED BY <1>1, <1>3, <1>4, <1>6, <2>2 DEF UnitInUse
<1> QED BY <1>1, <1>5, <1>6, <1>7, StoreKept DEF vars

\* One literal more of the trail.
LEMMA PendingAssigned ==
  ASSUME ParserInv, phase \in {"drop", "erase"}
  PROVE  /\ Assigned(simplified + 1) = Assigned(simplified) \cup {Pending}
         /\ -Pending \notin Assigned(simplified + 1)
         /\ IsTrue(Pending)
<1>1. simplified \in Nat /\ Len(trail) \in Nat /\ simplified < Len(trail) /\ Pending \in Literals
  BY PendingType
<1>2. AssignmentInv
  BY DEF ParserInv, Inv
<1>3. 1 .. simplified + 1 = 1 .. simplified \cup {simplified + 1}
  BY <1>1
<1>4. Assigned(simplified + 1) = Assigned(simplified) \cup {Pending}
  BY <1>3 DEF Assigned, Pending
<1>5. simplified + 1 \in 1 .. Len(trail) /\ \A p \in 1 .. simplified + 1 : p \in 1 .. Len(trail)
  BY <1>1
<1>6. -Pending \notin Assigned(simplified + 1)
  BY <1>2, <1>5, TrailIsConsistent DEF Assigned, Pending
<1>7. IsTrue(Pending)
  BY <1>1, <1>2, <1>5, TrueIsAssigned DEF Assigned, Pending
<1> QED BY <1>4, <1>6, <1>7

\* The clauses that hold the literal are dropped: those whose lines do.
LEMMA DropSatisfiedText ==
  ASSUME ParserInv, LookupIsInverse, StoreIsKept, LiteralsAreLeft, UnitInUse, DropSatisfied
  PROVE  StoreIsKept' /\ LiteralsAreLeft' /\ UnitInUse'
<1>1. /\ phase = "drop" /\ phase' = "erase" /\ Simplifying /\ Simplifying'
      /\ UNCHANGED <<input, counter, simplified, trail, values>>
  BY DEF DropSatisfied, Simplifying, assignment
<1>2. /\ counter \in ClauseLines /\ SatisfiedByAssignment(input.lines[counter])
      /\ simplified \in Nat /\ Len(trail) \in Nat /\ simplified < Len(trail)
      /\ input \in Texts
  BY <1>1, SimplifyingFacts
<1>3. Pending \in Literals /\ -Pending \in Literals /\ Pending \in KnownLiterals
  BY <1>1, PendingType, LiteralFacts
<1>4. DropClauses(occurrences[Pending])
  BY <1>3, NothingMissing DEF DropSatisfied
<1>5. /\ DOMAIN clauses' = {j \in DOMAIN clauses : ~(clauses[j].literals[Pending] > 0)}
      /\ \A j \in DOMAIN clauses' : clauses'[j] = clauses[j]
  BY <1>3, <1>4 DEF DropClauses, LookupIsInverse
<1>6. /\ ErasedFor' = ErasedFor
      /\ DroppedFor = Assigned(simplified) /\ DroppedFor' = Assigned(simplified + 1)
      /\ ClauseLines' = ClauseLines
  BY <1>1 DEF ErasedFor, DroppedFor, Assigned, ClauseLines
<1>7. /\ DroppedFor' = DroppedFor \cup {Pending} /\ -Pending \notin ErasedFor
  BY <1>1, <1>6, PendingAssigned DEF ErasedFor
<1>8. Kept' = {q \in Kept : Pending \notin Written(input.lines[q])}
  BY <1>1, <1>6, <1>7 DEF Kept
<1>9. ASSUME NEW j \in DOMAIN clauses
      PROVE  clauses[j].literals[Pending] > 0 <=> Pending \in Written(input.lines[j + 1])
  <2>1. j + 1 \in ClauseLines
    BY DEF StoreIsKept, Kept
  <2>2. input.lines[j + 1] \in Seq(Int \cup {Junk, Overflow})
    BY <1>2, <2>1, ClauseLineFacts
  <2>3. clauses[j].literals[Pending] = Count(input.lines[j + 1], Pending)
    BY <1>3, <1>7 DEF LiteralsAreLeft
  <2> QED BY <2>2, <2>3, CountType
<1>10. StoreIsKept'
  <2>1. \A q \in Kept : q \in Nat /\ q - 1 \in DOMAIN clauses /\ (q - 1) + 1 = q
    BY <1>2, ClauseLineFacts DEF StoreIsKept, Kept
  <2>2. \A j \in DOMAIN clauses' : j \in Nat /\ j + 1 \in Kept'
    BY <1>5, <1>8, <1>9 DEF StoreIsKept
  <2>3. \A q \in Kept' : q - 1 \in DOMAIN clauses'
    BY <1>5, <1>8, <1>9, <2>1
  <2> QED BY <2>2, <2>3 DEF StoreIsKept
<1>11. LiteralsAreLeft'
  <2>1. \A j \in DOMAIN clauses' : j \in DOMAIN clauses /\ clauses'[j] = clauses[j]
    BY <1>5
  <2> QED BY <1>1, <1>6, <2>1 DEF LiteralsAreLeft
<1>12. UnitInUse'
  <2>1. \A l : IsTrue(l)' <=> IsTrue(l)
    BY <1>1 DEF IsTrue, LiteralValue
  <2>2. SatisfiedByAssignment(input.lines[counter])'
    BY <1>1, <1>2, <2>1 DEF SatisfiedByAssignment
  <2> QED BY <1>1, <1>2, <1>6, <2>2 DEF UnitInUse
<1> QED BY <1>10, <1>11, <1>12

\* The negation is erased; after the last literal the line of the unit clause counts as
\* any other line that is true.
LEMMA EraseFalsifiedText ==
  ASSUME ParserInv, LookupIsInverse, StoreIsKept, LiteralsAreLeft, UnitInUse, EraseFalsified
  PROVE  StoreIsKept' /\ LiteralsAreLeft' /\ UnitInUse'
<1>1. /\ phase = "erase" /\ phase' \in {"drop", "line", "finish"} /\ Simplifying
      /\ UNCHANGED <<input, counter, trail, values>> /\ simplified' = simplified + 1
      /\ (phase' = "drop" <=> simplified + 1 < Len(trail))
  BY DEF EraseFalsified, Simplifying, assignment, NextRound
<1>2. /\ counter \in ClauseLines /\ SatisfiedByAssignment(input.lines[counter])
      /\ Written(input.lines[counter]) \subseteq Literals
      /\ simplified \in Nat /\ Len(trail) \in Nat /\ simplified < Len(trail)
      /\ input \in Texts /\ StoreInv /\ AssignmentInv
  BY <1>1, SimplifyingFacts
<1>3. Pending \in Literals /\ -Pending \in Literals /\ Pending \in Int
  BY <1>1, PendingType, LiteralFacts
<1>4. EraseLiteral(-Pending, occurrences[-Pending])
  BY <1>3, NothingMissing DEF EraseFalsified
<1>5. /\ DOMAIN clauses' = DOMAIN clauses
      /\ \A j \in DOMAIN clauses, k \in KnownLiterals :
           clauses'[j].literals[k] = IF k = -Pending THEN 0 ELSE clauses[j].literals[k]
  <2>1. occurrences[-Pending] = {j \in DOMAIN clauses : clauses[j].literals[-Pending] > 0}
    BY <1>3 DEF LookupIsInverse
  <2>2. -Pending \in KnownLiterals
    BY <1>3, LiteralFacts
  <2>3. ASSUME NEW j \in DOMAIN clauses
        PROVE  clauses[j].literals \in [KnownLiterals -> Nat]
    BY <1>2 DEF StoreInv, StoreTypeOK, Bags
  <2> QED BY <1>4, <2>1, <2>2, <2>3 DEF EraseLiteral, StoreInv, StoreTypeOK
<1>6. /\ ErasedFor = Assigned(simplified) /\ DroppedFor = Assigned(simplified + 1)
      /\ ErasedFor' = Assigned(simplified + 1) /\ DroppedFor' = Assigned(simplified + 1)
      /\ ClauseLines' = ClauseLines
  BY <1>1 DEF ErasedFor, DroppedFor, Assigned, ClauseLines
<1>7. ErasedFor' = ErasedFor \cup {Pending} /\ DroppedFor' = DroppedFor
  BY <1>1, <1>6, PendingAssigned
<1>8. ~Simplifying' => simplified + 1 = Len(trail)
  <2>1. simplified + 1 < Len(trail) \/ simplified + 1 = Len(trail)
    <3>1. trail \in Seq(Literals)
      BY <1>2 DEF AssignmentInv, AssignmentTypeOK
    <3> QED BY <1>2, <3>1
  <2>2. ~Simplifying' => phase' # "drop"
    BY DEF Simplifying
  <2> QED BY <1>1, <2>1, <2>2
<1>9. ~Simplifying' => Written(input.lines[counter]) \cap DroppedFor # {}
  <2>1. PICK l \in Written(input.lines[counter]) : IsTrue(l)
    BY <1>2 DEF SatisfiedByAssignment
  <2>2. l \in Assigned(Len(trail))
    BY <1>2, <2>1, TrueIsAssigned
  <2> QED BY <1>6, <1>8, <2>1, <2>2
<1>10. Kept' = Kept
  BY <1>1, <1>6, <1>7, <1>9 DEF Kept
<1>11. StoreIsKept'
  BY <1>5, <1>10 DEF StoreIsKept
<1>12. LiteralsAreLeft'
  <2>1. ASSUME NEW k \in KnownLiterals
        PROVE  k \in Int /\ (k = -Pending <=> -k = Pending)
    BY <1>3, ProblemDefinitionAssumption DEF ProblemDefinitionAssumption
  <2>2. ASSUME NEW j \in DOMAIN clauses, NEW k \in KnownLiterals
        PROVE  clauses'[j].literals[k] = IF -k \in ErasedFor' THEN 0 ELSE Count(input.lines[j + 1], k)
    BY <1>5, <1>7, <2>1, <2>2 DEF LiteralsAreLeft
  <2> QED BY <1>1, <1>5, <2>2 DEF LiteralsAreLeft
<1>13. UnitInUse'
  <2>1. \A l : IsTrue(l)' <=> IsTrue(l)
    BY <1>1 DEF IsTrue, LiteralValue
  <2>2. SatisfiedByAssignment(input.lines[counter])'
    BY <1>1, <1>2, <2>1 DEF SatisfiedByAssignment
  <2> QED BY <1>1, <1>2, <1>6, <1>8, <2>2 DEF UnitInUse
<1> QED BY <1>11, <1>12, <1>13
-----------------------------------------------------------------------------
(* The theorem.                                                            *)

LEMMA TextStep ==
  ASSUME ParserInv, LookupIsInverse, ErrorsKnown, TextInv, ParserStep
  PROVE  TextInv'
<1> SUFFICES ASSUME Clean' PROVE StoreIsKept' /\ LiteralsAreLeft' /\ UnitInUse'
  BY DEF TextInv
<1>1. Clean /\ ~anyErrors' /\ input' = input
  BY CleanBefore
<1>2. StoreIsKept /\ LiteralsAreLeft /\ UnitInUse
  BY <1>1 DEF TextInv
<1>3. ParserInv'
  BY ParserStepInv
<1>4. CASE ReadHeader \/ Finish
  <2>1. /\ UNCHANGED vars /\ UNCHANGED <<input, counter, simplified>>
        /\ ~Simplifying /\ ~Simplifying'
    BY <1>4 DEF ReadHeader, Finish, Simplifying
  <2>2. DroppedFor' = DroppedFor /\ ErasedFor' = ErasedFor
    BY <2>1, ProgressKept DEF vars, Simplifying
  <2>3. ClauseLines' = ClauseLines /\ Kept' = Kept
    BY <2>1, <2>2 DEF ClauseLines, Kept
  <2>4. UnitInUse'
    BY <1>2, <2>1 DEF UnitInUse, vars, Simplifying
  <2> QED BY <1>2, <2>1, <2>2, <2>3, <2>4, StoreKept DEF vars
<1>5. CASE SurplusLine \/ LineWithoutClause
  BY <1>1, <1>2, <1>5, LineWithoutClauseText
<1>6. CASE PropagateUnit
  <2>1. result' = "Ok"
    BY <1>6 DEF PropagateUnit, Clean, Disturbed
  <2> QED BY <1>1, <1>2, <1>3, <1>6, <2>1, PropagateUnitText
<1>7. CASE RejectTautology
  <2>1. counter \in Nat
    BY DEF ParserInv, ProgressInv
  <2> QED BY <1>1, <1>7, <2>1, TautologyRecorded DEF RejectTautology
<1>8. CASE StoreLine
  BY <1>1, <1>2, <1>8, StoreLineText
<1>9. CASE Propagating
  BY <1>2, <1>3, <1>9, PropagatingText
<1>10. CASE PropagationReturned
  BY <1>2, <1>10, PropagationReturnedText
<1>11. CASE DropSatisfied
  BY <1>2, <1>11, DropSatisfiedText
<1>12. CASE EraseFalsified
  BY <1>2, <1>12, EraseFalsifiedText
<1> QED BY <1>4, <1>5, <1>6, <1>7, <1>8, <1>9, <1>10, <1>11, <1>12 DEF ParserStep

\* An empty text has an empty formula.
LEMMA TextInitially == ParserInit => TextInv
<1> SUFFICES ASSUME ParserInit PROVE StoreIsKept /\ LiteralsAreLeft /\ UnitInUse
  BY DEF TextInv
<1>1. /\ counter = 0 /\ phase = "header" /\ simplified = 0 /\ trail = <<>>
      /\ DOMAIN clauses = {} /\ Len(input.lines) \in Nat
  BY TextFacts DEF ParserInit, Init, Texts
<1>2. ClauseLines = {}
  BY <1>1, NoLineBeforeTheFirst DEF ClauseLines
<1>3. Len(trail) = 0
  BY <1>1, EmptySeq
<1> QED BY <1>1, <1>2, <1>3 DEF StoreIsKept, LiteralsAreLeft, UnitInUse, Kept, Simplifying

LEMMA ParseNextText ==
  ASSUME NEW in \in FollowUps, ParseNext(in)
  PROVE  TextInv'
<1> SUFFICES StoreIsKept' /\ LiteralsAreLeft' /\ UnitInUse'
  BY DEF TextInv
<1>1. /\ counter' = 0 /\ phase' = "header" /\ simplified' = 0 /\ trail' = <<>>
      /\ DOMAIN clauses' = {} /\ input' = in /\ Len(in.lines) \in Nat
  BY TextFacts DEF ParseNext, Begin, Texts
<1>2. ClauseLines' = {}
  BY <1>1, NoLineBeforeTheFirst DEF ClauseLines
<1>3. Len(trail') = 0
  BY <1>1, EmptySeq
<1> QED BY <1>1, <1>2, <1>3 DEF StoreIsKept, LiteralsAreLeft, UnitInUse, Kept, Simplifying

LEMMA TextUnchanged ==
  ASSUME TextInv, UNCHANGED allVars
  PROVE  TextInv'
<1>1. UNCHANGED vars /\ UNCHANGED parserVars
  BY DEF allVars
<1>2. /\ DroppedFor' = DroppedFor /\ ErasedFor' = ErasedFor /\ ClauseLines' = ClauseLines
      /\ (Simplifying' <=> Simplifying) /\ (Clean' <=> Clean)
  BY <1>1 DEF vars, parserVars, DroppedFor, ErasedFor, Assigned, ClauseLines, Simplifying, Clean,
    Disturbed
<1>3. Kept' = Kept
  BY <1>1, <1>2 DEF parserVars, Kept
<1>4. \A l : IsTrue(l)' <=> IsTrue(l)
  BY <1>1 DEF vars, IsTrue, LiteralValue
<1>5. UnitInUse => UnitInUse'
  BY <1>1, <1>2, <1>4 DEF vars, parserVars, UnitInUse, SatisfiedByAssignment
<1>6. StoreIsKept /\ LiteralsAreLeft => StoreIsKept' /\ LiteralsAreLeft'
  BY <1>1, <1>2, <1>3, StoreKept DEF vars, parserVars
<1> QED BY <1>2, <1>5, <1>6 DEF TextInv

\* Between two rounds the invariant says what the property does.
LEMMA TextMeaning ==
  ASSUME ParserInv, TextInv
  PROVE  StoreIsTextUnderAssignment
<1> SUFFICES ASSUME Undisturbed, configuration.recordParsingErrors
             PROVE  /\ DOMAIN clauses = {p - 1 : p \in {q \in ClauseLines : ~SatisfiedByAssignment(input.lines[q])}}
                    /\ \A i \in DOMAIN clauses : clauses[i].literals = Remaining(input.lines[i + 1])
  BY DEF StoreIsTextUnderAssignment
<1>1. Clean /\ ~Simplifying
  BY DEF Undisturbed, Clean, Disturbed, Simplifying
<1>2. /\ StoreIsKept /\ LiteralsAreLeft /\ simplified = Len(trail)
      /\ StoreInv /\ AssignmentInv /\ input \in Texts
  BY <1>1 DEF TextInv, UnitInUse, ParserInv, Inv, ProgressInv
<1>3. Kept = {q \in ClauseLines : ~SatisfiedByAssignment(input.lines[q])}
  <2>1. \A q \in ClauseLines :
          SatisfiedByAssignment(input.lines[q]) <=> Written(input.lines[q]) \cap DroppedFor # {}
    BY <1>1, <1>2, ClauseLineFacts, SettledLine
  <2> QED BY <1>1, <2>1 DEF Kept
<1>4. \A i \in DOMAIN clauses : i \in Nat /\ i + 1 \in Kept /\ (i + 1) - 1 = i
  BY <1>2 DEF StoreIsKept
<1>5. DOMAIN clauses = {p - 1 : p \in Kept}
  BY <1>2, <1>4 DEF StoreIsKept
<1>6. ASSUME NEW i \in DOMAIN clauses
      PROVE  clauses[i].literals = Remaining(input.lines[i + 1])
  <2> DEFINE line == input.lines[i + 1]
  <2>1. i + 1 \in Kept /\ i + 1 \in ClauseLines
    BY <1>4 DEF Kept
  <2>2. line \in Seq(Int \cup {Junk, Overflow}) /\ Written(line) \subseteq Literals
    BY <1>2, <2>1, ClauseLineFacts
  <2>3. /\ ErasedFor = Assigned(Len(trail)) /\ DroppedFor = ErasedFor
        /\ ErasedFor \subseteq Literals
    BY <1>1, <1>2 DEF ErasedFor, DroppedFor, Assigned, Simplifying, AssignmentInv, AssignmentTypeOK
  <2>4. Written(line) \cap ErasedFor = {}
    BY <2>1, <2>3 DEF Kept
  <2>5. ASSUME NEW k \in KnownLiterals
        PROVE  clauses[i].literals[k] = Remaining(line)[k]
    <3>1. Count(line, k) \in Nat /\ (Count(line, k) > 0 <=> k \in Written(line))
      BY <2>2, CountType
    <3>2. clauses[i].literals[k] = IF -k \in ErasedFor THEN 0 ELSE Count(line, k)
      BY <1>2 DEF LiteralsAreLeft
    <3>3. Remaining(line)[k] = IF LiteralValue(k) = "Unknown" THEN Count(line, k) ELSE 0
      BY DEF Remaining, Unassigned
    <3>4. CASE k \in Literals
      <4>1. LiteralValue(k) # "Unknown" <=> (k \in ErasedFor \/ -k \in ErasedFor)
        BY <1>2, <2>3, <3>4, TrueIsAssigned
      <4>2. k \in ErasedFor => Count(line, k) = 0
        BY <2>4, <3>1
      <4> QED BY <3>2, <3>3, <4>1, <4>2
    <3>5. CASE k \notin Literals
      <4>1. Count(line, k) = 0
        BY <2>2, <3>1, <3>5
      <4> QED BY <3>2, <3>3, <4>1
    <3> QED BY <3>4, <3>5
  <2>6. clauses[i].literals \in [KnownLiterals -> Nat]
    BY <1>2 DEF StoreInv, StoreTypeOK, Bags
  <2>7. Remaining(line) = [k \in KnownLiterals |-> Remaining(line)[k]]
    BY DEF Remaining, Unassigned
  <2> QED BY <2>5, <2>6, <2>7
<1> QED BY <1>3, <1>5, <1>6

\* The formula is the text under the assignment: every clause read stands at its index
\* without its assigned literals, unless one of them is true, and there is nothing else.
\* Whatever order the simplification takes, it loses nothing and overlooks nothing.
THEOREM FormulaIsTextUnderAssignment == ParserSpec => []StoreIsTextUnderAssignment
<1>1. ParserInv /\ LookupIsInverse /\ ErrorsKnown /\ TextInv /\ [ParserNext]_allVars => TextInv'
  BY TextStep, ParseNextText, TextUnchanged DEF ParserNext
<1>2. ErrorsKnown /\ ParserInv /\ [ParserNext]_allVars => ErrorsKnown'
  <2>1. ASSUME NEW in \in FollowUps, ParseNext(in)
        PROVE  ErrorsKnown'
    BY <2>1 DEF ParseNext, Begin, ErrorsKnown
  <2>2. ASSUME ErrorsKnown, UNCHANGED allVars
        PROVE  ErrorsKnown'
    BY <2>2 DEF allVars, parserVars, ErrorsKnown
  <2> QED BY <2>1, <2>2, ErrorsKnownStep DEF ParserNext
<1>3. ParserInit => ErrorsKnown
  BY ConstraintInitially
<1>4. ParserInv /\ TextInv => StoreIsTextUnderAssignment
  BY TextMeaning
<1> QED BY <1>1, <1>2, <1>3, <1>4, TextInitially, ParserInvariance, ParserExactness, PTL DEF ParserSpec
-----------------------------------------------------------------------------
(* No unit clause is left.                                                 *)

\* The line of clause i repeats no literal.
Distinct(i) == \A l \in Literals : Count(input.lines[i + 1], l) <= 1

\* A clause has no more of a literal than its line, which has been read.
ClausesAreFromLines ==
  \A i \in DOMAIN clauses :
    /\ i \in Nat /\ i < counter /\ i + 1 \in 1 .. Len(input.lines)
    /\ \A k \in KnownLiterals : clauses[i].literals[k] <= Count(input.lines[i + 1], k)

\* What the clauses are dropped and erased for is gone from them.
SimplifiedSoFar ==
  \A i \in DOMAIN clauses :
    /\ \A l \in DroppedFor : clauses[i].literals[l] = 0
    /\ \A l \in ErasedFor : clauses[i].literals[-l] = 0

\* The whole trail is in use between two rounds, and not while propagate() runs.
TrailInUse ==
  /\ ~Simplifying => simplified = Len(trail)
  /\ phase = "propagate" => simplified < Len(trail)

AllHandled == \A i \in DOMAIN clauses : Distinct(i) => Handled(stack, i)

UnitParts == ClausesAreFromLines /\ SimplifiedSoFar /\ TrailInUse /\ AllHandled

\* NoUnitLeft at every moment: there is nothing to do about a clause, or propagate()
\* will look at it again.
UnitInv == (~Disturbed /\ configuration.performUnitPropagation) => UnitParts

\* Between calls of propagate() there is nothing to do about a clause.
LEMMA HandledWhenIdle ==
  ASSUME Idle, NEW i
  PROVE  Handled(stack, i) <=> Settled(clauses[i].literals)
<1>1. Len(stack) = 0
  BY EmptySeq DEF Idle
<1>2. ~ToVisit(stack, i)
  BY <1>1 DEF ToVisit
<1>3. Settled(clauses[i].literals) => Alive(clauses[i].literals)
  <2>1. \A k \in Literals : Unassigned(clauses[i].literals)[k] > 0
          => clauses[i].literals[k] > 0 /\ LiteralValue(k) = "Unknown"
    BY LiteralFacts DEF Unassigned
  <2> QED BY <2>1 DEF Settled, Alive
<1> QED BY <1>2, <1>3 DEF Handled

\* Only the literals, the values and the calls matter.
LEMMA HandledUnchanged ==
  ASSUME NEW i, clauses'[i].literals = clauses[i].literals, values' = values, stack' = stack,
         Handled(stack, i)
  PROVE  Handled(stack, i)'
  BY DEF Handled, ToVisit, Alive, Settled, Unassigned, IsTrue, LiteralValue

\* A clause of a line that repeats no literal repeats none.
LEMMA DistinctClause ==
  ASSUME ParserInv, ClausesAreFromLines, NEW i \in DOMAIN clauses, Distinct(i)
  PROVE  DuplicateFree(clauses[i].literals)
<1> DEFINE bag == clauses[i].literals
           line == input.lines[i + 1]
<1>1. /\ bag \in [KnownLiterals -> Nat]
      /\ \A k \in KnownLiterals : bag[k] > 0 => k \in Literals
  BY BagFacts DEF ParserInv, Inv
<1>2. line \in Seq(Int \cup {Junk, Overflow})
  <2>1. input.lines \in Seq(Seq(Int \cup {Junk, Overflow})) /\ i + 1 \in 1 .. Len(input.lines)
    BY TextFacts DEF ParserInv, ProgressInv, ClausesAreFromLines
  <2> QED BY <2>1, ElementOfSeq
<1>3. ASSUME NEW k \in KnownLiterals, k \in Literals
      PROVE  bag[k] <= 1
  <2>1. bag[k] <= Count(line, k) /\ Count(line, k) <= 1
    BY <1>3 DEF ClausesAreFromLines, Distinct
  <2>2. Count(line, k) \in Nat
    BY <1>2, CountType
  <2> QED BY <1>1, <2>1, <2>2
<1>4. \A k \in KnownLiterals : bag[k] > 0 \/ bag[k] = 0
  BY <1>1
<1> QED BY <1>1, <1>3, <1>4 DEF DuplicateFree

\* A step that leaves the formula and the simplification as they are.
LEMMA UnitUnchanged ==
  ASSUME ParserInv, UnitParts, UNCHANGED vars, UNCHANGED <<input, simplified>>,
         counter' \in Nat, counter <= counter', ~Simplifying, ~Simplifying'
  PROVE  UnitParts'
<1>1. UNCHANGED <<clauses, values, trail, stack>> /\ counter \in Nat
  BY DEF vars, ParserInv, ProgressInv
<1>2. DroppedFor' = DroppedFor /\ ErasedFor' = ErasedFor
  BY <1>1, ProgressKept DEF Simplifying
<1>3. ClausesAreFromLines'
  BY <1>1 DEF UnitParts, ClausesAreFromLines
<1>4. SimplifiedSoFar'
  BY <1>1, <1>2 DEF UnitParts, SimplifiedSoFar
<1>5. TrailInUse'
  BY <1>1 DEF UnitParts, TrailInUse, Simplifying
<1>6. AllHandled'
  BY <1>1, HandledUnchanged DEF UnitParts, AllHandled, Distinct
<1> QED BY <1>3, <1>4, <1>5, <1>6 DEF UnitParts

\* Unless the formula is known to be unsatisfiable, what is left of a line that is no
\* unit clause has two literals, if none is repeated.
LEMMA TwoLeft ==
  ASSUME ParserInv, YieldsClause(Line), ~DeterminedUnsat(Line), ~IsUnitClause(Remaining(Line)),
         \A l \in Literals : Count(Line, l) <= 1
  PROVE  \E k, l \in Literals : k # l /\ Remaining(Line)[k] > 0 /\ Remaining(Line)[l] > 0
<1> DEFINE rest == Remaining(Line)
           last == Line[Len(Line) - 1]
<1>1. /\ input \in Texts /\ counter \in Nat /\ Line \in Seq(Int \cup {Junk, Overflow})
      /\ Len(Line) \in Nat
  BY LineType, LenProperties DEF ParserInv, ProgressInv
<1>2. /\ rest \in [KnownLiterals -> Nat]
      /\ \A k \in KnownLiterals : rest[k] > 0 => k \in Literals
      /\ Written(Line) \subseteq Literals
  BY <1>1, RemainingType, WrittenInRange DEF YieldsClause, Bags
<1>3. \A k \in KnownLiterals :
        /\ Count(Line, k) \in Nat /\ (Count(Line, k) > 0 <=> k \in Written(Line))
        /\ rest[k] = IF LiteralValue(k) = "Unknown" THEN Count(Line, k) ELSE 0
  BY <1>1, CountType DEF Remaining, Unassigned
<1>4. last \in Written(Line)
  <2>1. Len(Line) - 1 \in 1 .. Len(Line) - 1
    BY <1>1 DEF YieldsClause, Blank
  <2> QED BY <2>1 DEF Written
<1>5. last \in Literals /\ last \in KnownLiterals /\ LiteralValue(last) \in Values
      /\ ~IsTrue(last) /\ LiteralValue(last) # ConflictingValue(last)
  <2>1. last \in Literals /\ last \in KnownLiterals
    BY <1>2, <1>4, LiteralFacts
  <2>2. LiteralValue(last) \in Values
    BY <2>1, LiteralFacts DEF LiteralValue, ParserInv, Inv, AssignmentInv, AssignmentTypeOK
  <2> QED BY <1>4, <2>1, <2>2 DEF YieldsClause, SatisfiedByAssignment, DeterminedUnsat
<1>6. LiteralValue(last) = "Unknown"
  BY <1>5 DEF Values, IsTrue, SatisfyingValue, ConflictingValue, Literals
<1>7. rest[last] = 1
  <2>1. Count(Line, last) > 0 /\ Count(Line, last) <= 1 /\ Count(Line, last) \in Nat
    BY <1>3, <1>4, <1>5
  <2> QED BY <1>3, <1>5, <1>6, <2>1
<1>8. PICK k \in KnownLiterals \ {last} : rest[k] # 0
  BY <1>5, <1>7 DEF IsUnitClause, IsUnit
<1>9. k \in Literals /\ rest[k] > 0
  BY <1>2, <1>8
<1> QED BY <1>5, <1>7, <1>8, <1>9

\* A clause that is stored has nothing left to do about it.
LEMMA StoreLineUnit ==
  ASSUME ParserInv, UnitParts, StoreLine, ~unsat', configuration.performUnitPropagation
  PROVE  UnitParts'
<1>1. /\ Consume /\ ConsumeClause /\ YieldsClause(Line) /\ simplified' = simplified
      /\ phase' \in {"line", "finish"} /\ UNCHANGED <<trail, values, stack>>
      /\ StoreClause(counter, Remaining(Line)) /\ ~IsUnitClause(Remaining(Line))
  BY DEF StoreLine, ConsumeClause, AfterRound, assignment, PropagatesLine
<1>2. /\ phase = "line" /\ ~Simplifying /\ ~Simplifying' /\ simplified = Len(trail) /\ Idle
      /\ counter \in Nat /\ counter' = counter + 1 /\ input' = input /\ input \in Texts
      /\ AssignmentInv /\ Len(input.lines) \in Nat /\ ~DeterminedUnsat(Line)
  BY <1>1, TextFacts DEF Consume, Simplifying, UnitParts, TrailInUse, ParserInv, ProgressInv, Inv
<1>3. DroppedFor' = DroppedFor /\ ErasedFor' = ErasedFor
  BY <1>1, <1>2, ProgressKept DEF Simplifying
<1>4. /\ DOMAIN clauses' = DOMAIN clauses \cup {counter}
      /\ clauses'[counter].literals = Remaining(Line)
      /\ \A j \in DOMAIN clauses : clauses'[j] = clauses[j]
      /\ counter \notin DOMAIN clauses
  BY <1>1, <1>2, YieldedInRange DEF StoreClause
<1>5. input.lines[counter + 1] = Line /\ counter + 1 \in 1 .. Len(input.lines)
  <2>1. counter < Len(input.lines)
    BY <1>1, EmptySeq DEF YieldsClause, Line, Blank
  <2> QED BY <1>2, <2>1 DEF Line
<1>6. /\ Remaining(Line) \in [KnownLiterals -> Nat]
      /\ \A k \in KnownLiterals :
           /\ Count(Line, k) \in Nat /\ (Count(Line, k) > 0 <=> k \in Written(Line))
           /\ Remaining(Line)[k] = IF LiteralValue(k) = "Unknown" THEN Count(Line, k) ELSE 0
      /\ Written(Line) \subseteq Literals
  BY <1>1, <1>2, LineType, CountType, RemainingType, WrittenInRange
     DEF Remaining, Unassigned, YieldsClause, Bags
<1>7. ClausesAreFromLines'
  <2>1. \A k \in KnownLiterals : Remaining(Line)[k] <= Count(Line, k)
    BY <1>6
  <2>2. \A i \in DOMAIN clauses : i < counter'
    BY <1>2 DEF UnitParts, ClausesAreFromLines
  <2>3. counter < counter'
    BY <1>2
  <2> QED BY <1>2, <1>4, <1>5, <2>1, <2>2, <2>3 DEF UnitParts, ClausesAreFromLines
<1>8. SimplifiedSoFar'
  <2>1. /\ ErasedFor = Assigned(Len(trail)) /\ DroppedFor = ErasedFor
        /\ ErasedFor \subseteq Literals
    BY <1>2 DEF ErasedFor, DroppedFor, Assigned, AssignmentInv, AssignmentTypeOK
  <2>2. ASSUME NEW l \in ErasedFor
        PROVE  Remaining(Line)[l] = 0 /\ Remaining(Line)[-l] = 0
    <3>1. l \in Literals /\ -l \in Literals /\ l \in KnownLiterals /\ -l \in KnownLiterals
          /\ -(-l) = l
      BY <2>1, <2>2, LiteralFacts DEF Literals
    <3>2. LiteralValue(l) # "Unknown" /\ LiteralValue(-l) # "Unknown"
      BY <1>2, <2>1, <2>2, <3>1, TrueIsAssigned
    <3> QED BY <1>6, <3>1, <3>2
  <2>3. \A i \in DOMAIN clauses : clauses'[i] = clauses[i]
    BY <1>4
  <2> QED BY <1>3, <1>4, <2>1, <2>2, <2>3 DEF UnitParts, SimplifiedSoFar
<1>9. TrailInUse'
  BY <1>1, <1>2 DEF TrailInUse, Simplifying
<1>10. AllHandled'
  <2>1. ASSUME NEW i \in DOMAIN clauses, Distinct(i)
        PROVE  Handled(stack, i)'
    BY <1>1, <1>4, <2>1, HandledUnchanged DEF UnitParts, AllHandled
  <2> PICK c, bag : c = counter /\ bag = Remaining(Line)
    OBVIOUS
  <2>2. ASSUME \A l \in Literals : Count(Line, l) <= 1
        PROVE  Handled(stack, c)'
    <3>1. PICK k \in Literals, l \in Literals : k # l /\ bag[k] > 0 /\ bag[l] > 0
      BY <1>1, <1>2, <2>2, TwoLeft
    <3>2. k \in KnownLiterals /\ l \in KnownLiterals
      BY LiteralFacts
    <3>3. LiteralValue(k)' = "Unknown" /\ LiteralValue(l)' = "Unknown"
      BY <1>1, <1>6, <3>1, <3>2 DEF LiteralValue
    <3>4. Settled(bag)' /\ Alive(bag)'
      BY <1>6, <3>1, <3>3, SettledMeaning DEF Alive
    <3>5. clauses'[c].literals = bag
      BY <1>4
    <3> QED BY <3>4, <3>5 DEF Handled, Alive, Settled, Unassigned, IsTrue, LiteralValue
  <2>3. \A i \in DOMAIN clauses' : i \in DOMAIN clauses \/ i = c
    BY <1>4
  <2>4. Distinct(c)' => \A l \in Literals : Count(Line, l) <= 1
    BY <1>2, <1>5 DEF Distinct
  <2> QED BY <1>2, <2>1, <2>2, <2>3, <2>4 DEF AllHandled, Distinct
<1> QED BY <1>7, <1>8, <1>9, <1>10 DEF UnitParts

\* The steps of propagate() keep the clauses, and what they are simplified by.
LEMMA AssigningUnit ==
  ASSUME ParserInv, UnitParts, input' = input, simplified' = simplified, phase # "erase",
         phase' # "erase", counter' \in Nat, counter <= counter', TrailInUse',
         \A p \in 1 .. Len(trail) : trail'[p] = trail[p],
         DOMAIN clauses' = DOMAIN clauses,
         \A j \in DOMAIN clauses : clauses'[j].literals = clauses[j].literals,
         \A j \in DOMAIN clauses :
           DuplicateFree(clauses[j].literals) /\ Handled(stack, j) => Handled(stack, j)'
  PROVE  UnitParts'
<1>1. DroppedFor' = DroppedFor /\ ErasedFor' = ErasedFor
  BY ProgressKept
<1>2. ClausesAreFromLines'
  <2>1. counter \in Nat
    BY DEF ParserInv, ProgressInv
  <2> QED BY <2>1 DEF UnitParts, ClausesAreFromLines
<1>3. SimplifiedSoFar'
  BY <1>1 DEF UnitParts, SimplifiedSoFar
<1>4. AllHandled'
  BY DistinctClause DEF UnitParts, AllHandled, Distinct
<1> QED BY <1>2, <1>3, <1>4 DEF UnitParts

LEMMA PropagateUnitUnit ==
  ASSUME ParserInv, UnitParts, PropagateUnit, result' = "Ok"
  PROVE  UnitParts'
<1>1. PICK l \in Literals : IsUnit(Remaining(Line), l) /\ Call(l, <<>>)
  BY DEF PropagateUnit
<1>2. /\ phase = "line" /\ phase' = "propagate" /\ simplified' = Len(trail) /\ input' = input
      /\ counter' = counter + 1 /\ counter \in Nat /\ StoreInv /\ AssignmentInv /\ Idle
  BY DEF PropagateUnit, ConsumeClause, Consume, ParserInv, ProgressInv, Inv
<1>3. LiteralValue(l) = "Unknown"
  <2>1. l \in KnownLiterals /\ Remaining(Line)[l] > 0
    BY <1>1, LiteralFacts DEF IsUnit
  <2> QED BY <2>1 DEF Remaining, Unassigned
<1>4. CallAssigns(l, <<>>)
  BY <1>1, <1>3 DEF Call, CallAssigned, CallRefused, Abort
<1>5. simplified' = simplified
  BY <1>2 DEF UnitParts, TrailInUse, Simplifying
<1>6. TrailInUse'
  BY <1>2, PropagateUnitAssigns DEF TrailInUse, Simplifying
<1>7. ASSUME NEW j \in DOMAIN clauses, DuplicateFree(clauses[j].literals), Handled(stack, j)
      PROVE  Handled(stack, j)'
  <2>1. Handled(<<>>, j) /\ <<>> \in Seq(Frames)
    BY <1>2, <1>7, EmptySeq DEF Idle
  <2> QED BY <1>2, <1>4, <1>7, <2>1, AssignmentHandles
<1>8. counter' \in Nat /\ counter <= counter'
  BY <1>2
<1> QED BY <1>1, <1>2, <1>5, <1>6, <1>7, <1>8, CallKeeps, AssigningUnit

LEMMA PropagatingUnit ==
  ASSUME ParserInv, UnitParts, Propagating, result' = "Ok"
  PROVE  UnitParts'
<1>1. /\ phase = "propagate" /\ UNCHANGED parserVars /\ PropagationStep
      /\ StoreInv /\ AssignmentInv /\ counter \in Nat /\ simplified \in 0 .. Len(trail)
  BY DEF Propagating, ParserInv, ProgressInv, Inv
<1>2. UNCHANGED <<phase, input, simplified, counter>>
  BY <1>1 DEF parserVars
<1>3. simplified < Len(trail')
  <2>1. simplified < Len(trail)
    BY <1>1 DEF UnitParts, TrailInUse
  <2>2. Len(trail) \in Nat /\ Len(trail') \in Nat /\ Len(trail) <= Len(trail')
    BY <1>1, PropagationGrowsTrail
  <2> QED BY <1>1, <2>1, <2>2
<1>4. TrailInUse'
  BY <1>1, <1>2, <1>3 DEF TrailInUse, Simplifying
<1>5. \A j \in DOMAIN clauses :
        DuplicateFree(clauses[j].literals) /\ Handled(stack, j) => Handled(stack, j)'
  BY <1>1, PropagationHandles DEF ParserInv
<1>6. counter' \in Nat /\ counter <= counter'
  BY <1>1, <1>2
<1> QED BY <1>1, <1>2, <1>4, <1>5, <1>6, PropagationKeeps, AssigningUnit

\* A call that returns Ok has assigned something: the simplification begins.
LEMMA PropagationReturnedUnit ==
  ASSUME ParserInv, UnitParts, PropagationReturned, result = "Ok"
  PROVE  UnitParts'
<1>1. /\ phase = "propagate" /\ UNCHANGED vars /\ UNCHANGED <<input, counter, simplified>>
      /\ counter \in Nat /\ Len(trail) \in Nat /\ simplified \in 0 .. Len(trail)
  BY LenProperties DEF PropagationReturned, ParserInv, ProgressInv, Inv, AssignmentInv,
    AssignmentTypeOK
<1>2. phase' = "drop"
  BY <1>1 DEF PropagationReturned, UnitParts, TrailInUse
<1>3. UNCHANGED <<clauses, values, trail, stack>>
  BY <1>1 DEF vars
<1>4. TrailInUse'
  BY <1>2 DEF TrailInUse, Simplifying
<1>5. \A j \in DOMAIN clauses : Handled(stack, j) => Handled(stack, j)'
  BY <1>3, HandledUnchanged
<1> QED BY <1>1, <1>2, <1>3, <1>4, <1>5, AssigningUnit

\* Dropping clauses leaves nothing to do about the others.
LEMMA DropSatisfiedUnit ==
  ASSUME ParserInv, LookupIsInverse, UnitParts, DropSatisfied
  PROVE  UnitParts'
<1>1. /\ phase = "drop" /\ phase' = "erase"
      /\ UNCHANGED <<input, counter, simplified, trail, values, stack>>
  BY DEF DropSatisfied, assignment
<1>2. Pending \in Literals /\ Pending \in KnownLiterals
  BY <1>1, PendingType, LiteralFacts
<1>3. DropClauses(occurrences[Pending])
  BY <1>2, NothingMissing DEF DropSatisfied
<1>4. /\ DOMAIN clauses' = {j \in DOMAIN clauses : ~(clauses[j].literals[Pending] > 0)}
      /\ \A j \in DOMAIN clauses' : clauses'[j] = clauses[j]
  BY <1>2, <1>3 DEF DropClauses, LookupIsInverse
<1>5. /\ ErasedFor' = ErasedFor /\ DroppedFor = Assigned(simplified)
      /\ DroppedFor' = DroppedFor \cup {Pending}
  <2>1. /\ ErasedFor' = ErasedFor
        /\ DroppedFor = Assigned(simplified) /\ DroppedFor' = Assigned(simplified + 1)
    BY <1>1 DEF ErasedFor, DroppedFor, Assigned
  <2> QED BY <1>1, <2>1, PendingAssigned
<1>6. \A j \in DOMAIN clauses' : j \in DOMAIN clauses /\ clauses'[j] = clauses[j]
  BY <1>4
<1>7. \A j \in DOMAIN clauses' : clauses[j].literals[Pending] = 0
  <2>1. \A j \in DOMAIN clauses : clauses[j].literals[Pending] \in Nat
    BY <1>2, BagFacts DEF ParserInv, Inv
  <2> QED BY <1>4, <2>1
<1>8. ClausesAreFromLines'
  BY <1>1, <1>6 DEF UnitParts, ClausesAreFromLines
<1>9. SimplifiedSoFar'
  BY <1>5, <1>6, <1>7 DEF UnitParts, SimplifiedSoFar
<1>10. TrailInUse'
  BY <1>1 DEF TrailInUse, Simplifying
<1>11. AllHandled'
  BY <1>1, <1>6, HandledUnchanged DEF UnitParts, AllHandled, Distinct
<1> QED BY <1>8, <1>9, <1>10, <1>11 DEF UnitParts

\* The literal that is erased is false, so that nothing comes to do.
LEMMA EraseFalsifiedUnit ==
  ASSUME ParserInv, LookupIsInverse, UnitParts, EraseFalsified
  PROVE  UnitParts'
<1>1. /\ phase = "erase" /\ phase' \in {"drop", "line", "finish"}
      /\ UNCHANGED <<input, counter, trail, values, stack>> /\ simplified' = simplified + 1
      /\ (phase' = "drop" <=> simplified + 1 < Len(trail))
      /\ Idle /\ Idle' /\ StoreInv /\ AssignmentInv
  BY DEF EraseFalsified, assignment, NextRound, ParserInv, ProgressInv, Inv, Idle
<1>2. /\ Pending \in Literals /\ -Pending \in Literals /\ -Pending \in KnownLiterals
      /\ Pending \in KnownLiterals
      /\ simplified \in Nat /\ Len(trail) \in Nat /\ simplified < Len(trail)
  BY <1>1, PendingType, LiteralFacts
<1>3. EraseLiteral(-Pending, occurrences[-Pending])
  BY <1>2, NothingMissing DEF EraseFalsified
<1>4. /\ DOMAIN clauses' = DOMAIN clauses
      /\ \A j \in DOMAIN clauses, k \in KnownLiterals :
           clauses'[j].literals[k] = IF k = -Pending THEN 0 ELSE clauses[j].literals[k]
  <2>1. occurrences[-Pending] = {j \in DOMAIN clauses : clauses[j].literals[-Pending] > 0}
    BY <1>2 DEF LookupIsInverse
  <2>2. ASSUME NEW j \in DOMAIN clauses
        PROVE  clauses[j].literals \in [KnownLiterals -> Nat]
    BY <1>1 DEF StoreInv, StoreTypeOK, Bags
  <2> QED BY <1>1, <1>2, <1>3, <2>1, <2>2 DEF EraseLiteral, StoreInv, StoreTypeOK
<1>5. \A j \in DOMAIN clauses :
        /\ clauses[j].literals \in [KnownLiterals -> Nat]
        /\ clauses'[j].literals \in [KnownLiterals -> Nat]
  <2>1. StoreInv'
    BY <1>1, <1>2, <1>3, EraseLiteralInv
  <2> QED BY <1>1, <1>4, <2>1 DEF StoreInv, StoreTypeOK, Bags
<1>6. /\ ErasedFor = Assigned(simplified) /\ DroppedFor = Assigned(simplified + 1)
      /\ ErasedFor' = ErasedFor \cup {Pending} /\ DroppedFor' = DroppedFor
      /\ DroppedFor \subseteq Literals /\ ErasedFor \subseteq Literals
      /\ -Pending \notin DroppedFor
  <2>1. /\ ErasedFor = Assigned(simplified) /\ DroppedFor = Assigned(simplified + 1)
        /\ ErasedFor' = Assigned(simplified + 1) /\ DroppedFor' = Assigned(simplified + 1)
    BY <1>1 DEF ErasedFor, DroppedFor, Assigned
  <2>2. Assigned(simplified) \subseteq Literals /\ Assigned(simplified + 1) \subseteq Literals
    BY <1>1, <1>2 DEF Assigned, AssignmentInv, AssignmentTypeOK
  <2> QED BY <1>1, <2>1, <2>2, PendingAssigned
<1>7. ClausesAreFromLines'
  <2>1. ASSUME NEW j \in DOMAIN clauses, NEW k \in KnownLiterals
        PROVE  clauses'[j].literals[k] <= Count(input.lines[j + 1], k)
    <3>1. \/ clauses'[j].literals[k] = clauses[j].literals[k]
          \/ clauses'[j].literals[k] = 0
      BY <1>4
    <3>2. clauses[j].literals[k] <= Count(input.lines[j + 1], k)
      BY DEF UnitParts, ClausesAreFromLines
    <3>3. Count(input.lines[j + 1], k) \in Nat
      <4>1. input.lines \in Seq(Seq(Int \cup {Junk, Overflow})) /\ j + 1 \in 1 .. Len(input.lines)
        BY TextFacts DEF ParserInv, ProgressInv, UnitParts, ClausesAreFromLines
      <4> QED BY <4>1, ElementOfSeq, CountType
    <3> QED BY <3>1, <3>2, <3>3
  <2> QED BY <1>1, <1>4, <2>1 DEF UnitParts, ClausesAreFromLines
<1>8. SimplifiedSoFar'
  <2>1. ASSUME NEW j \in DOMAIN clauses, NEW l \in DroppedFor
        PROVE  clauses'[j].literals[l] = 0
    <3>1. clauses[j].literals[l] = 0 /\ l \in KnownLiterals
      BY <1>6, LiteralFacts DEF UnitParts, SimplifiedSoFar
    <3> QED BY <1>4, <3>1
  <2>2. ASSUME NEW j \in DOMAIN clauses, NEW l \in ErasedFor
        PROVE  clauses'[j].literals[-l] = 0
    <3>1. clauses[j].literals[-l] = 0 /\ -l \in KnownLiterals
      BY <1>6, LiteralFacts DEF UnitParts, SimplifiedSoFar
    <3> QED BY <1>4, <3>1
  <2>3. \A j \in DOMAIN clauses : clauses'[j].literals[-Pending] = 0
    BY <1>2, <1>4
  <2>4. ErasedFor' = ErasedFor \cup {Pending}
    BY <1>6
  <2>5. \A j \in DOMAIN clauses', k \in ErasedFor' : clauses'[j].literals[-k] = 0
    BY <1>4, <2>2, <2>3, <2>4
  <2> QED BY <1>4, <1>6, <2>1, <2>5 DEF SimplifiedSoFar
<1>9. TrailInUse'
  <2>1. simplified + 1 < Len(trail) \/ simplified + 1 = Len(trail)
    <3>1. trail \in Seq(Literals)
      BY <1>1 DEF AssignmentInv, AssignmentTypeOK
    <3> QED BY <1>2, <3>1
  <2>2. (~Simplifying' => phase' # "drop") /\ phase' # "propagate"
    BY <1>1 DEF Simplifying
  <2> QED BY <1>1, <2>1, <2>2 DEF TrailInUse
<1>10. ASSUME NEW j \in DOMAIN clauses, Handled(stack, j)
       PROVE  Handled(stack, j)'
  <2> PICK bag, new, l : bag = clauses[j].literals /\ new = clauses'[j].literals /\ l = -Pending
    OBVIOUS
  <2>1. /\ bag \in [KnownLiterals -> Nat] /\ new \in [KnownLiterals -> Nat] /\ l \in Literals
        /\ \A k \in KnownLiterals : new[k] = IF k = l THEN 0 ELSE bag[k]
        /\ Literals \subseteq KnownLiterals
    <3>1. bag \in [KnownLiterals -> Nat] /\ new \in [KnownLiterals -> Nat]
      BY <1>5
    <3>2. \A k \in KnownLiterals : new[k] = IF k = l THEN 0 ELSE bag[k]
      BY <1>4
    <3>3. l \in Literals
      BY <1>2
    <3>4. Literals \subseteq KnownLiterals
      BY ProblemDefinitionAssumption DEF ProblemDefinitionAssumption
    <3> QED BY <3>1, <3>2, <3>3, <3>4
  <2>2. ~IsTrue(l) /\ LiteralValue(l) # "Unknown"
    <3>1. IsTrue(Pending)
      BY <1>1, PendingAssigned
    <3> QED BY <1>2, <3>1, LiteralFacts DEF IsTrue, LiteralValue, SatisfyingValue, Literals
  <2>3. \A k : IsTrue(k)' = IsTrue(k) /\ LiteralValue(k)' = LiteralValue(k)
    BY <1>1 DEF IsTrue, LiteralValue
  <2>4. Settled(bag)
    BY <1>1, <1>10, HandledWhenIdle
  <2>5. \/ \E k \in Literals : new[k] > 0 /\ IsTrue(k)'
        \/ \E k, m \in Literals :
             /\ k # m /\ new[k] > 0 /\ new[m] > 0
             /\ LiteralValue(k)' = "Unknown" /\ LiteralValue(m)' = "Unknown"
    <3>1. CASE \E k \in Literals : bag[k] > 0 /\ IsTrue(k)
      BY <2>1, <2>2, <2>3, <3>1
    <3>2. CASE \E k, m \in Literals :
                 /\ k # m /\ bag[k] > 0 /\ bag[m] > 0
                 /\ LiteralValue(k) = "Unknown" /\ LiteralValue(m) = "Unknown"
      BY <2>1, <2>2, <2>3, <3>2
    <3> QED BY <2>1, <2>4, <3>1, <3>2, SettledMeaning
  <2>6. Settled(new)' /\ Alive(new)'
    BY <2>1, <2>5, SettledMeaning DEF Alive
  <2> QED BY <2>6 DEF Handled, Alive, Settled, Unassigned, IsTrue, LiteralValue
<1>11. AllHandled'
  BY <1>1, <1>4, <1>10 DEF UnitParts, AllHandled, Distinct
<1> QED BY <1>7, <1>8, <1>9, <1>11 DEF UnitParts

LEMMA UnitStep ==
  ASSUME ParserInv, LookupIsInverse, UnitInv, ParserStep
  PROVE  UnitInv'
<1> SUFFICES ASSUME ~Disturbed', configuration'.performUnitPropagation PROVE UnitParts'
  BY DEF UnitInv
<1>1. ~anyErrors' /\ ~unsat' /\ ~Disturbed
  BY DisturbedBefore DEF Disturbed
<1>2. configuration' = configuration
  BY DEF ParserStep, ReadHeader, SurplusLine, LineWithoutClause, PropagateUnit, ConsumeClause,
    Consume, RejectTautology, StoreLine, Propagating, parserVars, PropagationReturned,
    DropSatisfied, EraseFalsified, Finish
<1>3. UnitParts
  BY <1>1, <1>2 DEF UnitInv
<1>4. counter \in Nat
  BY DEF ParserInv, ProgressInv
<1>5. CASE ReadHeader \/ Finish
  <2>1. /\ UNCHANGED vars /\ UNCHANGED <<input, counter, simplified>>
        /\ ~Simplifying /\ ~Simplifying'
    BY <1>5 DEF ReadHeader, Finish, Simplifying
  <2> QED BY <1>3, <1>4, <2>1, UnitUnchanged
<1>6. CASE SurplusLine \/ LineWithoutClause
  <2>1. /\ UNCHANGED vars /\ UNCHANGED <<input, simplified>> /\ counter' = counter + 1
        /\ ~Simplifying /\ ~Simplifying'
    BY <1>6 DEF SurplusLine, LineWithoutClause, Consume, AfterRound, Simplifying
  <2>2. counter' \in Nat /\ counter <= counter'
    BY <1>4, <2>1
  <2> QED BY <1>3, <2>1, <2>2, UnitUnchanged
<1>7. CASE PropagateUnit
  <2>1. result' = "Ok"
    BY <1>7 DEF PropagateUnit, Disturbed
  <2> QED BY <1>3, <1>7, <2>1, PropagateUnitUnit
<1>8. CASE RejectTautology
  BY <1>1, <1>4, <1>8, TautologyRecorded DEF RejectTautology
<1>9. CASE StoreLine
  BY <1>1, <1>2, <1>3, <1>9, StoreLineUnit
<1>10. CASE Propagating
  <2>1. result' = "Ok"
    BY <1>10 DEF Propagating, parserVars, Disturbed
  <2> QED BY <1>3, <1>10, <2>1, PropagatingUnit
<1>11. CASE PropagationReturned
  <2>1. result = "Ok"
    BY <1>1, <1>11 DEF PropagationReturned, Disturbed
  <2> QED BY <1>3, <1>11, <2>1, PropagationReturnedUnit
<1>12. CASE DropSatisfied
  BY <1>3, <1>12, DropSatisfiedUnit
<1>13. CASE EraseFalsified
  BY <1>3, <1>13, EraseFalsifiedUnit
<1> QED BY <1>5, <1>6, <1>7, <1>8, <1>9, <1>10, <1>11, <1>12, <1>13 DEF ParserStep

LEMMA UnitInitially == ParserInit => UnitInv
<1> SUFFICES ASSUME ParserInit PROVE UnitParts
  BY DEF UnitInv
<1>1. phase = "header" /\ simplified = 0 /\ trail = <<>> /\ DOMAIN clauses = {}
  BY DEF ParserInit, Init
<1>2. Len(trail) = 0
  BY <1>1, EmptySeq
<1> QED BY <1>1, <1>2 DEF UnitParts, ClausesAreFromLines, SimplifiedSoFar, TrailInUse, Simplifying,
  AllHandled

LEMMA ParseNextUnit ==
  ASSUME NEW in \in FollowUps, ParseNext(in)
  PROVE  UnitInv'
<1> SUFFICES UnitParts'
  BY DEF UnitInv
<1>1. phase' = "header" /\ simplified' = 0 /\ trail' = <<>> /\ DOMAIN clauses' = {}
  BY DEF ParseNext, Begin
<1>2. Len(trail') = 0
  BY <1>1, EmptySeq
<1> QED BY <1>1, <1>2 DEF UnitParts, ClausesAreFromLines, SimplifiedSoFar, TrailInUse, Simplifying,
  AllHandled

LEMMA UnitStutter ==
  ASSUME ParserInv, UnitInv, UNCHANGED allVars
  PROVE  UnitInv'
<1>1. UNCHANGED vars /\ UNCHANGED parserVars
  BY DEF allVars
<1>2. UNCHANGED <<clauses, values, trail, stack, input, counter, simplified, phase>>
  BY <1>1 DEF vars, parserVars
<1>3. (Disturbed' <=> Disturbed) /\ configuration' = configuration
  BY <1>1 DEF vars, parserVars, Disturbed
<1>4. UnitParts => UnitParts'
  <2>1. DroppedFor' = DroppedFor /\ ErasedFor' = ErasedFor
    BY <1>2 DEF DroppedFor, ErasedFor, Assigned
  <2>2. AllHandled => AllHandled'
    BY <1>2, HandledUnchanged DEF AllHandled, Distinct
  <2> QED BY <1>2, <2>1, <2>2 DEF UnitParts, ClausesAreFromLines, SimplifiedSoFar, TrailInUse,
        Simplifying
<1> QED BY <1>3, <1>4 DEF UnitInv

\* Between two rounds a clause has no literal with a value, so that two are left.
LEMMA UnitMeaning ==
  ASSUME ParserInv, UnitInv
  PROVE  NoUnitLeft
<1> SUFFICES ASSUME Undisturbed, configuration.performUnitPropagation,
                    NEW i \in DOMAIN clauses, Distinct(i)
             PROVE  \E k, l \in Literals :
                      k # l /\ clauses[i].literals[k] > 0 /\ clauses[i].literals[l] > 0
  BY DEF NoUnitLeft, Distinct
<1> DEFINE bag == clauses[i].literals
<1>1. /\ ~Simplifying /\ Idle /\ UnitParts /\ StoreInv /\ AssignmentInv
      /\ phase # "erase"
  BY DEF Undisturbed, Disturbed, Simplifying, UnitInv, ParserInv, ProgressInv, Inv
<1>2. Settled(bag) /\ bag \in [KnownLiterals -> Nat]
  BY <1>1, HandledWhenIdle, BagFacts DEF UnitParts, AllHandled
<1>3. DroppedFor = Assigned(Len(trail))
  BY <1>1 DEF DroppedFor, UnitParts, TrailInUse
<1>4. ~\E l \in Literals : bag[l] > 0 /\ IsTrue(l)
  BY <1>1, <1>3, TrueIsAssigned DEF UnitParts, SimplifiedSoFar
<1> QED BY <1>2, <1>4, SettledMeaning

\* With unit propagation no clause is left that is unit or empty, whether it was read
\* so or became so when a later line simplified it; only a line that repeats a literal
\* may leave one behind.
THEOREM UnitsArePropagated == ParserSpec => []NoUnitLeft
<1>1. ParserInv /\ LookupIsInverse /\ UnitInv /\ [ParserNext]_allVars => UnitInv'
  BY UnitStep, ParseNextUnit, UnitStutter DEF ParserNext
<1>2. ParserInv /\ UnitInv => NoUnitLeft
  BY UnitMeaning
<1> QED BY <1>1, <1>2, UnitInitially, ParserInvariance, ParserExactness, PTL DEF ParserSpec
=============================================================================
