--------------------------- MODULE MCDimacsParser ---------------------------
(* Small instances of DimacsParser: every text of a few lines out of two    *)
(* sets of lines, under every configuration.                               *)
EXTENDS DimacsParser, SequencesExt

CONSTANT MaxLines   \* the most lines a text holds

MCKnownLiterals == -4 .. 4
MCClauseIds == 0 .. MaxLines
MCConfigurations == [performUnitPropagation : BOOLEAN, recordParsingErrors : BOOLEAN]

Text(lines, n) == [header |-> "valid", numClauses |-> n, lines |-> lines]
Exact(lines) == Text(lines, Len(lines))

UnitLine(l) == <<l, 0>>

\* Clauses and units that propagate through each other, in every order.
PropagationLines ==
  {<<-3, 1, 0>>, <<-3, 2, 0>>, <<-1, -2, 0>>, <<2, 3, -1, 0>>, <<3, 3, 0>>, UnitLine(3), UnitLine(-1)}

\* Lines the parser skips or refuses, with some that are in order.
OddLines ==
  {<<0>>, <<4, 1, 0>>, <<1, Junk, 0>>, <<1, 2>>, <<2, 0, 0>>, <<2, -2, 0>>, <<1, 2, 0>>,
   UnitLine(-2)}

MCInputs ==
  {Exact(lines) : lines \in SeqOf(PropagationLines, MaxLines)}
    \cup {Text(lines, n) : lines \in SeqOf(OddLines, 2), n \in 0 .. 3}
    \cup {[header |-> "invalid", numClauses |-> 0, lines |-> <<>>]}
MCFollowUps == {Exact(<<<<-2, -3, 0>>, UnitLine(3)>>)}

\* The clauses of one satisfiable formula, in every order.
SatisfiedClauseInputs ==
  {Exact(lines) : lines \in
     SeqOf({<<-3, 1, 0>>, <<-3, 2, 0>>, <<-1, 2, 0>>, UnitLine(3)}, MaxLines)}

\* A unit clause and a clause that mentions its negation.
LastLiteralInputs ==
  {Exact(lines) : lines \in SeqOf({<<2, -1, 0>>, UnitLine(1)}, 2)}

\* A number too large for long, and a text after it that is in order.
OverflowInputs == {Exact(<<<<Overflow, 1, 0>>>>), Exact(<<<<1, 2, 0>>>>)}
=============================================================================
