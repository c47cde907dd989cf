--------------------- MODULE MCBlockedClauseElimination ---------------------
(* Formulas over three variables, one offered clause being out of range.    *)
EXTENDS BlockedClauseElimination

Bag(lits) == [l \in KnownLiterals |-> IF l \in lits THEN 1 ELSE 0]

MCKnownLiterals == -3 .. 4
IndexSymmetry == Permutations(ClauseIds)
\* The first clause is blocked by literals that clash with different numbers of clauses.
MCOffered == {Bag({1, 2, 3}), Bag({-1, -2}), Bag({-1, -3}), Bag({-2, 4})}
=============================================================================
