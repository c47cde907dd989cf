------------------------ MODULE MCProblemDefinition ------------------------
(* Small instances of ProblemDefinition: clauses written as sequences.     *)
EXTENDS ProblemDefinition, SequencesExt

\* The bag of a clause written as the sequence of its literals.
Bag(literals) == [l \in KnownLiterals |-> Cardinality({p \in DOMAIN literals : literals[p] = l})]

MCKnownLiterals == -3 .. 3
MCClauseIds == 0 .. 2
MCOffered == {Bag(<<-2, 1>>), Bag(<<-2, -1>>), Bag(<<-1, -1>>), Bag(<<1, 3>>)}
=============================================================================
