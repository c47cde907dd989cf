------------------------- MODULE BlockingConditions -------------------------
(***************************************************************************)
(* The conditions the eliminators test on two clauses of the formula: the  *)
(* clause a search is about, and one that contains the negation of a       *)
(* literal that may block it.                                              *)
(***************************************************************************)
EXTENDS BlockedClauses

\* isClauseSetBlocked, of clause i, a set of its literals, and clause j.
SetBlockedCondition(i, lits, j) ==
  \E l \in LiteralsOf(j) : l \in lits \/ (-l \notin lits /\ -l \in LiteralsOf(i))

\* checkLiteralBlockedCondition, of clause i, its literal l, and clause j.
LiteralBlockedCondition(i, l, j) ==
  \E k \in LiteralsOf(j) : k # -l /\ -k \in LiteralsOf(i)
=============================================================================
