--------------------------- MODULE BlockedClauses ---------------------------
(***************************************************************************)
(* What it means that a clause of the formula is blocked, as the           *)
(* literature and the comments of the eliminators define it.  Nothing here *)
(* depends on how the eliminators find out: the two eliminators are        *)
(* checked and proved against these definitions.                           *)
(***************************************************************************)
EXTENDS ProblemDefinition

\* Clause::containsLiteral of the clause with index i.
LiteralsOf(i) == {l \in Literals : clauses[i].literals[l] > 0}
Negated(lits) == {-l : l \in lits}
Tautology(lits) == \E l \in lits : -l \in lits

\* R = {C' \in F : C' \cap -L # {}}; the clause itself may be one of them.
ResolutionEnvironment(lits) == {j \in DOMAIN clauses : LiteralsOf(j) \cap Negated(lits) # {}}

\* Clause i is blocked by a non-empty subset L of its literals: for every C' of the
\* environment, (C \ L) \cup -L \cup C' is a tautology.
BlockedBySet(i, lits) ==
  /\ lits # {} /\ lits \subseteq LiteralsOf(i)
  /\ \A j \in ResolutionEnvironment(lits) :
       Tautology((LiteralsOf(i) \ lits) \cup Negated(lits) \cup LiteralsOf(j))

\* Clause i is blocked by its literal l: every resolvent on l is a tautology.
BlockedByLiteral(i, l) ==
  /\ l \in LiteralsOf(i)
  /\ \A j \in ResolutionEnvironment({l}) :
       Tautology((LiteralsOf(i) \ {l}) \cup (LiteralsOf(j) \ {-l}))

SatisfiesClauses(total, ids) == \A j \in ids : Satisfies(total, clauses[j].literals)
Satisfiable(ids) == \E total \in TotalAssignments : SatisfiesClauses(total, ids)

\* Taking clause i out of the formula does not make it satisfiable.
RemovalPreservesUnsatisfiability(i) ==
  Satisfiable(DOMAIN clauses \ {i}) => Satisfiable(DOMAIN clauses)

\* What clients may do to the clause store between two searches.
ChangeStore ==
  \/ \E i \in ClauseIds, bag \in OfferedClauses : AddClause(i, bag)
  \/ \E i \in ClauseIds : RemoveClause(i)
  \/ \E l \in Literals : RemoveLiteralFromClauses(l)

TautologyFree == \A j \in DOMAIN clauses : ~Tautology(LiteralsOf(j))
=============================================================================
