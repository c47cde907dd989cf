----------------------- MODULE MCBlockedClauseSearch -----------------------
(* Small instances of BlockedClauseSearch: texts of a few lines, and every  *)
(* command the two programs take for them.                                 *)
EXTENDS BlockedClauseSearch

CONSTANT MaxLines   \* the most lines a text holds

MCKnownLiterals == -NumVariables .. NumVariables
MCClauseIds == 0 .. 7
MCConfigurations == {[performUnitPropagation |-> FALSE, recordParsingErrors |-> TRUE]}

Text(lines) == [header |-> "valid", numClauses |-> Len(lines), lines |-> lines]

\* The line "0" leaves a gap in the indices of the clauses.
Gap == <<0>>
Lines == {<<1, 2, 0>>, <<-1, 0>>, <<-2, 1, 0>>, <<-1, -2, 3, 0>>, Gap}

\* Longer texts without and with a gap; for those without a tree can be created.
LongTexts ==
  {<<<<1, 2, 0>>, <<-1, 2, 3, 0>>, <<-2, -3, 0>>, <<1, -3, 0>>>>,
   <<<<1, 0>>, <<-1, 2, 0>>, <<-2, 3, 0>>, <<-3, -1, 0>>>>,
   <<<<1, 2, 3, 0>>, Gap, <<-1, 2, 0>>, <<-3, -2, 0>>, <<3, 0>>>>}

\* A text with an error, which is refused.
RefusedTexts == {<<<<1, -1, 0>>, <<2, 0>>>>}

MCInputs == {Text(t) : t \in SeqOf(Lines, MaxLines) \cup LongTexts \cup RefusedTexts}

Unrestricted == [restricted |-> FALSE, min |-> 0, max |-> 0]
Sizes(min, max) == [restricted |-> TRUE, min |-> min, max |-> max]

Command(tool, heuristic, lookup, requested, maxLength, sizes) ==
  [tool |-> tool, heuristic |-> heuristic, lookup |-> lookup, requested |-> requested,
   maxLength |-> maxLength, sizes |-> sizes]

Lookups == {"literalOccurrence", "avl"}

\* Every heuristic with every limit, and the restrictions of sizes with one heuristic.
MCCommands ==
  {Command("blocked", h, k, r, NotGiven, Unrestricted) :
     h \in SelectionHeuristics, k \in Lookups, r \in {NotGiven, 2}}
  \cup {Command("setBlocked", h, k, r, n, Unrestricted) :
     h \in SelectionHeuristics, k \in Lookups, r \in {NotGiven, 2}, n \in {NotGiven, 1}}
  \cup {Command("setBlocked", "MinimumClauseLength", k, NotGiven, NotGiven, s) :
     k \in Lookups, s \in {Sizes(0, 2), Sizes(2, 3), Sizes(3, 1)}}

\* Six clauses of which a tree knows only four.
SixClauseInputs == {Text(<<<<1, 2, 0>>, <<-1, -2, 0>>, <<-1, 3, 0>>, <<-3, -2, 0>>, <<2, 3, 0>>, <<1, 3, 0>>>>)}
AvlCommands ==
  {Command(tool, "Sequential", "avl", NotGiven, NotGiven, Unrestricted) : tool \in Tools}
=============================================================================
