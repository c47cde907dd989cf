--------------------------- MODULE InsertionOrder ---------------------------
(***************************************************************************)
(* Which clauses AvlIntervalTree::createFromCnfFormula inserts, in which   *)
(* order, and how it ends: a function of the formula alone.  A formula is  *)
(* given by the literals of its clauses, a function on the clause indices. *)
(*                                                                         *)
(* AvlIntervalTree follows the order insertion by insertion; users of a    *)
(* created tree need to know only what is in it.                           *)
(***************************************************************************)
EXTENDS Integers, FiniteSets, SequencesExt

CONSTANT SizeMax   \* SIZE_MAX

\* std::round rounds halves away from zero.
RoundedHalf(n) == IF n < 0 THEN -((1 - n) \div 2) ELSE (n + 1) \div 2
MidpointOf(lits) == RoundedHalf(Min(lits) + Max(lits))

SizeOf(f) == Cardinality(DOMAIN f)

\* Clauses are looked up by the indices 0 .. n-1; those without a clause come last.
Before(f, i, j) ==
  IF i \in DOMAIN f /\ j \in DOMAIN f
  THEN MidpointOf(f[i]) < MidpointOf(f[j]) \/ (MidpointOf(f[i]) = MidpointOf(f[j]) /\ i < j)
  ELSE i \in DOMAIN f \/ (j \notin DOMAIN f /\ i < j)

ClauseAt(f, position) ==
  CHOOSE i \in 0 .. SizeOf(f) - 1 :
    Cardinality({j \in 0 .. SizeOf(f) - 1 : Before(f, j, i)}) = position

\* performDividingInsertOfClausesSortedAccordingToLiteralsMidpoint: the positions
\* whose clauses are inserted, up to one out of range.  For one clause the
\* decrement of lHalfMidpointIdx wraps around.
Positions(n) ==
  LET mid == n \div 2
      l == mid \div 2
      r == mid + l
      Round(i) == <<l - i, r + i, l + i, r - i>>
      Rounds == [k \in 1 .. 4 * (l - 1) |-> Round(((k - 1) \div 4) + 1)[((k - 1) % 4) + 1]]
  IN CASE n = 0 -> <<0>>
       [] n = 1 -> <<0, SizeMax>>
       [] n = 2 -> <<1, 0>>
       [] n = 3 -> <<1, 0, 2>>
       [] OTHER -> <<mid, l, r>> \o Rounds \o (IF n % 2 = 0 THEN <<0>> ELSE <<0, r + l>>)

\* The bounds of an empty clause are std::nullopt, and asking for their value throws.
SortingThrows(f) == SizeOf(f) > 1 /\ \E i \in DOMAIN f \cap 0 .. SizeOf(f) - 1 : f[i] = {}

OutOfRange(f, position) == position >= SizeOf(f)

\* insertClause takes a clause of the formula that is not empty.
Insertable(f, position) ==
  LET i == ClauseAt(f, position) IN i \in DOMAIN f /\ f[i] # {}

\* The first position that ends the creation decides how.
Creation(f) ==
  LET plan == Positions(SizeOf(f))
      stops == {p \in DOMAIN plan : OutOfRange(f, plan[p]) \/ ~Insertable(f, plan[p])}
  IN IF SortingThrows(f) THEN "Threw"
     ELSE IF stops = {} THEN "Created"
     ELSE IF OutOfRange(f, plan[Min(stops)]) THEN "Threw" ELSE "Failed"

\* The clauses in a tree that was created.
Inserted(f) == {ClauseAt(f, p) : p \in ToSet(Positions(SizeOf(f)))}
=============================================================================
