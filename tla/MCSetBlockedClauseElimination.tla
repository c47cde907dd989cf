------------------- MODULE MCSetBlockedClauseElimination -------------------
(* Formulas over two variables, one offered clause being out of range.      *)
EXTENDS SetBlockedClauseElimination

Bag(lits) == [l \in KnownLiterals |-> IF l \in lits THEN 1 ELSE 0]

MCKnownLiterals == -2 .. 3
MCClauseIds == 0 .. 2
MCOffered == {Bag({1, 2}), Bag({-1, 2}), Bag({1, -2}), Bag({-2, 3})}

Unrestricted == [restricted |-> FALSE, min |-> 0, max |-> 0]
OfSizes(min, max) == [restricted |-> TRUE, min |-> min, max |-> max]
MCRestrictions == {Unrestricted, OfSizes(2, 3)}
=============================================================================
