-------------------------- MODULE MCAvlIntervalTree --------------------------
(* Instances of AvlIntervalTree for TLC.                                     *)
EXTENDS AvlIntervalTree

FromSequence(s) == [i \in 0 .. Len(s) - 1 |-> s[i + 1]]

\* Unit clauses, which make nodes with keys of their own, and wider clauses, which are
\* kept at such nodes and move when these rotate.
Mixed == FromSequence(<<{1}, {2}, {3}, {-1}, {-2}, {-3}, {-1, 2}, {2, 3}, {-3, -2, 1}>>)

\* Five clauses that clients edit while they are in the tree.
Edited == FromSequence(<<{1, 3}, {-1, 2}, {-2}, {3}, {-3, 2}>>)

\* The least number of clauses of which a creation leaves out some.
SixClauses == FromSequence(<<{1}, {2}, {3}, {-1}, {-2}, {-3}>>)

\* Small formulas, one with a gap in its indices, and one with clauses whose midpoint is 0.
Small == {FromSequence(<<>>), FromSequence(<<{1}>>), FromSequence(<<{1}, {-2}>>),
          [i \in {0, 2, 3} |-> {i + 1}], FromSequence(<<{1}, {-1, 1}, {-3}, {-2, 2}>>)}

MCFormulas == {Mixed, Edited, SixClauses} \cup Small
=============================================================================
