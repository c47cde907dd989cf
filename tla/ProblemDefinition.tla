------------------------- MODULE ProblemDefinition -------------------------
(***************************************************************************)
(* The in-memory CNF formula: dimacs::ProblemDefinition together with the  *)
(* LiteralOccurrenceLookup it owns.                                        *)
(*                                                                         *)
(* A clause is the bag of its literals: the code keeps a sorted vector     *)
(* that may hold a literal twice, and a sorted vector and a bag are the    *)
(* same thing.  The public operations are actions; propagate() recurses,   *)
(* so it runs in steps over an explicit call stack, one frame per active   *)
(* call.  The loops over std::unordered_set run in an unspecified order,   *)
(* which is a nondeterministic choice here.                                *)
(***************************************************************************)
EXTENDS Integers, Sequences, FiniteSets

CONSTANTS
  NumVariables,    \* nVariables of the constructor
  ClauseIds,       \* the indices clients store clauses under
  KnownLiterals,   \* every literal a client may write, valid or not
  OfferedClauses   \* the bags of literals clients may add as clauses

Variables == 1 .. NumVariables
Literals == {l \in -NumVariables .. NumVariables : l # 0}
Bags == [KnownLiterals -> Nat]

ASSUME ProblemDefinitionAssumption ==
  /\ NumVariables \in Nat
  /\ KnownLiterals \subseteq Int
  /\ Literals \subseteq KnownLiterals
  /\ OfferedClauses \subseteq Bags

VARIABLES
  clauses,      \* index -> [literals, satisified], DOMAIN is the set of keys
  occurrences,  \* literal -> indices of clauses (LiteralOccurrenceLookup)
  values,       \* variable -> "Low", "High" or "Unknown"
  trail,        \* pastAssignments: the assigned literals, oldest first
  stack,        \* active propagate() calls, outermost first
  result        \* what the last propagate() returned

store == <<clauses, occurrences>>
assignment == <<values, trail>>
vars == <<clauses, occurrences, values, trail, stack, result>>

Values == {"Low", "High", "Unknown"}
Results == {"Ok", "ErrorDuringPropagation", "Conflict"}
Frames == [literal : Literals, todo : SUBSET ClauseIds]
-----------------------------------------------------------------------------
(* Literals and clauses.                                                   *)

Variable(l) == IF l < 0 THEN -l ELSE l
SatisfyingValue(l) == IF l > 0 THEN "High" ELSE "Low"
ConflictingValue(l) == IF l < 0 THEN "High" ELSE "Low"

\* getLiteralValue(l).value_or(Unknown)
LiteralValue(l) ==
  IF Variable(l) \in Variables THEN values[Variable(l)] ELSE "Unknown"

\* getClauseLiteralsOmittingAlreadyAssignedOnes: it looks at variables, not at
\* whether the assignment satisfies the clause.
Unassigned(bag) ==
  [l \in KnownLiterals |-> IF LiteralValue(l) = "Unknown" THEN bag[l] ELSE 0]

\* A vector of size one whose front is l.
IsUnit(bag, l) ==
  bag[l] = 1 /\ \A k \in KnownLiterals \ {l} : bag[k] = 0

\* recordClauseLiteralOccurrences walks the literals in ascending order and
\* stops at the first one out of range; those before it stay recorded.
RecordedLiterals(bag) ==
  {l \in Literals :
     bag[l] > 0 /\ \A k \in KnownLiterals : (bag[k] > 0 /\ k < l) => k \in Literals}

\* Variant: addClause does not look at what recordClauseLiteralOccurrences returns.
InRangeUnchecked(bag) == TRUE

InRange(bag) == \A l \in KnownLiterals : bag[l] > 0 => l \in Literals

\* LiteralOccurrenceLookup::operator[] of a literal in range; nullptr is {}.
MissingClauses(l) == occurrences[l] \ DOMAIN clauses
-----------------------------------------------------------------------------
(* The formula's operations.                                               *)

Idle == stack = <<>>

Init ==
  /\ clauses = [i \in {} |-> [literals |-> [l \in KnownLiterals |-> 0], satisified |-> FALSE]]
  /\ occurrences = [l \in Literals |-> {}]
  /\ values = [v \in Variables |-> "Unknown"]
  /\ trail = <<>>
  /\ stack = <<>>
  /\ result = "Ok"

\* addClause(i, bag) of an index not yet in use (else it changes nothing).  The
\* occurrences are recorded first: an out-of-range literal leaves some behind.
StoreClause(i, bag) ==
  /\ i \notin DOMAIN clauses
  /\ occurrences' = [l \in Literals |->
       IF l \in RecordedLiterals(bag) THEN occurrences[l] \cup {i} ELSE occurrences[l]]
  /\ clauses' =
       IF InRange(bag)
       THEN [j \in DOMAIN clauses \cup {i} |->
               IF j = i THEN [literals |-> bag, satisified |-> FALSE] ELSE clauses[j]]
       ELSE clauses

\* Variant: removeClause forgets the occurrences.
DropClausesOnly(S) ==
  /\ clauses' = [j \in DOMAIN clauses \ S |-> clauses[j]]
  /\ UNCHANGED occurrences

\* The store without the clauses of S, each dropped as removeClause does it:
\* from the occurrences of the literals it holds, then from the map.
DropClauses(S) ==
  /\ occurrences' = [l \in Literals |->
       {i \in occurrences[l] : ~(i \in S /\ clauses[i].literals[l] > 0)}]
  /\ clauses' = [j \in DOMAIN clauses \ S |-> clauses[j]]

\* The store with every copy of l erased from the clauses of S.
EraseLiteral(l, S) ==
  /\ clauses' = [j \in DOMAIN clauses |->
       IF j \in S THEN [clauses[j] EXCEPT !.literals[l] = 0] ELSE clauses[j]]
  /\ occurrences' = [occurrences EXCEPT ![l] = @ \ S]

AddClause(i, bag) ==
  /\ Idle
  /\ StoreClause(i, bag)
  /\ UNCHANGED <<assignment, stack, result>>

RemoveClause(i) ==
  /\ Idle
  /\ i \in DOMAIN clauses
  /\ DropClauses({i})
  /\ UNCHANGED <<assignment, stack, result>>

\* removeLiteralFromClausesOfFormula(l): a recorded index without a clause stops
\* the walk, so only the clauses met before it have lost the literal.
RemoveLiteralFromClauses(l) ==
  /\ Idle
  /\ IF MissingClauses(l) = {}
     THEN EraseLiteral(l, occurrences[l])
     ELSE \E S \in SUBSET (occurrences[l] \cap DOMAIN clauses) : EraseLiteral(l, S)
  /\ UNCHANGED <<assignment, stack, result>>
-----------------------------------------------------------------------------
(* propagate(literal).                                                     *)

\* Variant: the literal is not negated.
ConflictingClausesNotNegated(l) ==
  {i \in occurrences[l] \cap DOMAIN clauses : IsUnit(Unassigned(clauses[i].literals), l)}

\* The clauses that make doesVariableAssignmentLeadToConflict answer true for l.
ConflictingClauses(l) ==
  {i \in occurrences[-l] \cap DOMAIN clauses : IsUnit(Unassigned(clauses[i].literals), -l)}

\* What the check may answer: it returns at the first conflicting or missing clause.
ConflictVerdicts(l) ==
  IF l \notin Literals THEN {"ErrorDuringPropagation"}
  ELSE {r \in Results :
          \/ r = "Conflict" /\ ConflictingClauses(l) # {}
          \/ r = "ErrorDuringPropagation" /\ MissingClauses(-l) # {}
          \/ r = "Ok" /\ ConflictingClauses(l) = {} /\ MissingClauses(-l) = {}}

\* Variant: the callers' loops do not break on a result other than Ok.
AbortInnermost(r) == stack' = stack /\ result' = r

\* A result other than Ok ends every active call.
Abort(r) == stack' = <<>> /\ result' = r

\* Variant: the variable gets the value that falsifies the literal.
RecordConflictingAssignment(l) ==
  /\ trail' = Append(trail, l)
  /\ values' = [values EXCEPT ![Variable(l)] = ConflictingValue(l)]

\* Variant: the newest assignment comes first.
RecordAssignmentInFront(l) ==
  /\ trail' = <<l>> \o trail
  /\ values' = [values EXCEPT ![Variable(l)] = SatisfyingValue(l)]

\* recordAssignment({true, l})
RecordAssignment(l) ==
  /\ trail' = Append(trail, l)
  /\ values' = [values EXCEPT ![Variable(l)] = SatisfyingValue(l)]

MarkSatisfied(S) ==
  /\ clauses' = [j \in DOMAIN clauses |->
       IF j \in S THEN [clauses[j] EXCEPT !.satisified = TRUE] ELSE clauses[j]]
  /\ UNCHANGED occurrences

\* Entering propagate(l), called from the frames in callers.
CallAssigned(l, callers) ==
  /\ LiteralValue(l) # "Unknown"
  /\ stack' = callers
  /\ result' = "Ok"
  /\ UNCHANGED <<store, assignment>>

CallRefused(l) ==
  /\ LiteralValue(l) = "Unknown"
  /\ \E r \in ConflictVerdicts(l) \ {"Ok"} : Abort(r)
  /\ UNCHANGED <<store, assignment>>

CallAssigns(l, callers) ==
  /\ LiteralValue(l) = "Unknown"
  /\ "Ok" \in ConflictVerdicts(l)
  /\ RecordAssignment(l)
  /\ IF MissingClauses(l) = {}
     THEN /\ MarkSatisfied(occurrences[l])
          /\ stack' = Append(callers, [literal |-> l, todo |-> occurrences[-l]])
          /\ result' = "Ok"
     ELSE /\ \E S \in SUBSET (occurrences[l] \cap DOMAIN clauses) : MarkSatisfied(S)
          /\ Abort("ErrorDuringPropagation")

Call(l, callers) == CallAssigned(l, callers) \/ CallRefused(l) \/ CallAssigns(l, callers)

StartPropagation(l) == Idle /\ Call(l, <<>>)

Top == stack[Len(stack)]

\* Variants: the loop stays at its clause; the loop ends with its first clause.
VisitedStill(i) == stack
VisitedAll(i) == [stack EXCEPT ![Len(stack)].todo = {}]

Visited(i) == [stack EXCEPT ![Len(stack)].todo = @ \ {i}]

\* The innermost call's loop takes some clause it has not visited yet.  It is there: if
\* one were missing, doesVariableAssignmentLeadToConflict would have met it and the call
\* would not have assigned, so that the error return of the loop (line 214) is not taken.
VisitClause(i) ==
  /\ ~Idle
  /\ i \in Top.todo \cap DOMAIN clauses
  /\ LET rest == Unassigned(clauses[i].literals) IN
     \/ \E l \in KnownLiterals : IsUnit(rest, l) /\ Call(l, Visited(i))
     \/ /\ \A l \in KnownLiterals : ~IsUnit(rest, l)
        /\ stack' = Visited(i)
        /\ UNCHANGED <<store, assignment, result>>

ReturnFromCall ==
  /\ ~Idle
  /\ Top.todo = {}
  /\ stack' = SubSeq(stack, 1, Len(stack) - 1)
  /\ result' = "Ok"
  /\ UNCHANGED <<store, assignment>>

PropagationStep ==
  \/ \E i \in ClauseIds : VisitClause(i)
  \/ ReturnFromCall
-----------------------------------------------------------------------------
Next ==
  \/ \E i \in ClauseIds, bag \in OfferedClauses : AddClause(i, bag)
  \/ \E i \in ClauseIds : RemoveClause(i)
  \/ \E l \in Literals : RemoveLiteralFromClauses(l)
  \/ \E l \in KnownLiterals : StartPropagation(l)
  \/ PropagationStep

\* A started call runs on: the library is sequential and does not block.
Spec == Init /\ [][Next]_vars /\ WF_vars(PropagationStep)
-----------------------------------------------------------------------------
(* Properties.                                                             *)

\* The parts of the type invariant, one per group of variables.
StoreTypeOK ==
  /\ DOMAIN clauses \subseteq ClauseIds
  /\ clauses = [i \in DOMAIN clauses |-> clauses[i]]
  /\ \A i \in DOMAIN clauses : clauses[i] \in [literals : Bags, satisified : BOOLEAN]
  /\ occurrences \in [Literals -> SUBSET ClauseIds]

AssignmentTypeOK == values \in [Variables -> Values] /\ trail \in Seq(Literals)

CallTypeOK ==
  /\ stack \in Seq(Frames)
  /\ result \in Results
  /\ stack # <<>> => result = "Ok"

\* The state has the shape the code's types give it; a running call has not
\* returned anything but Ok so far.
TypeOK == StoreTypeOK /\ AssignmentTypeOK /\ CallTypeOK

\* A stored clause is in range and recorded under each of its literals, whatever
\* failed calls of addClause left behind: no lookup by literal misses a clause.
OccurrencesComplete ==
  \A i \in DOMAIN clauses : \A l \in KnownLiterals :
    clauses[i].literals[l] > 0 => (l \in Literals /\ i \in occurrences[l])

\* The lookup is the inverse of the store: no stale and no missing index.
LookupIsInverse ==
  \A l \in Literals : occurrences[l] = {i \in DOMAIN clauses : clauses[i].literals[l] > 0}

\* As long as clients only offer clauses whose literals are declared, the lookup
\* is the exact inverse of the store, through any sequence of additions, removals,
\* literal erasures and propagations.
OccurrencesExact == (\A bag \in OfferedClauses : InRange(bag)) => LookupIsInverse

\* pastAssignments and the variable values say the same: a variable is assigned
\* exactly once, with the polarity of its trail literal, and nothing else is.
TrailMatchesValues ==
  /\ \A p, q \in 1 .. Len(trail) : Variable(trail[p]) = Variable(trail[q]) => p = q
  /\ \A p \in 1 .. Len(trail) : values[Variable(trail[p])] = SatisfyingValue(trail[p])
  /\ \A v \in Variables :
       values[v] # "Unknown" => \E p \in 1 .. Len(trail) : Variable(trail[p]) = v

\* The literals of the active propagate() calls stand on the trail in call order,
\* so no call is active twice and the recursion is no deeper than the trail; what
\* a call has left to visit are clauses that are still there, recorded for the negation
\* of its literal, whatever the calls it made have done since.
CallStackFollowsTrail ==
  /\ \A d \in 1 .. Len(stack) : \E p \in 1 .. Len(trail) : trail[p] = stack[d].literal
  /\ \A d, e \in 1 .. Len(stack) : \A p, q \in 1 .. Len(trail) :
       (d < e /\ trail[p] = stack[d].literal /\ trail[q] = stack[e].literal) => p < q
  /\ \A d \in 1 .. Len(stack) : stack[d].todo \subseteq occurrences[-stack[d].literal] \cap DOMAIN clauses

IsTrue(l) == LiteralValue(l) = SatisfyingValue(l)
DuplicateFree(bag) == \A l \in KnownLiterals : bag[l] <= 1

\* A clause propagation has nothing left to do about: some literal of it is true,
\* or it has two literals left.
Settled(bag) ==
  \/ \E l \in Literals : bag[l] > 0 /\ IsTrue(l)
  \/ \E k, l \in Literals : k # l /\ Unassigned(bag)[k] > 0 /\ Unassigned(bag)[l] > 0

\* Literals assigned by the outermost active call.
AssignedByCall ==
  {trail[p] : p \in {q \in 1 .. Len(trail) :
     \E r \in 1 .. q : trail[r] = stack[1].literal}}

\* When the outermost propagate() returns Ok, every clause without duplicates that
\* lost a literal in the call is true or has at least two literals left: no unit
\* clause and no conflict was overlooked, in whatever order the recursion visited
\* the clauses.
PropagationSaturates ==
  [][(~Idle /\ Idle' /\ result' = "Ok") =>
       \A i \in DOMAIN clauses : \A l \in AssignedByCall :
         (clauses[i].literals[-l] > 0 /\ DuplicateFree(clauses[i].literals))
           => Settled(clauses[i].literals)]_vars

TotalAssignments == [Variables -> {"Low", "High"}]
Satisfies(total, bag) ==
  \E l \in Literals : bag[l] > 0 /\ total[Variable(l)] = SatisfyingValue(l)

\* What held when the outermost active call started, and the literal it was given.
Premises == {trail[p] : p \in 1 .. Len(trail)} \ (AssignedByCall \ {stack[1].literal})

\* What the trail tells of earlier moments of a call: the literals clause i had left when
\* position p of the trail was about to be filled, whether they were one copy of l, and
\* whether the clause was satisfied by then.
LeftBefore(i, p) ==
  {k \in KnownLiterals :
     clauses[i].literals[k] > 0 /\ \A q \in 1 .. p - 1 : Variable(trail[q]) # Variable(k)}
DownTo(i, l, p) == clauses[i].literals[l] = 1 /\ LeftBefore(i, p) = {l}
SatisfiedBefore(i, p) == \E q \in 1 .. p - 1 : clauses[i].literals[trail[q]] > 0

\* Every clause that was down to the literal at that moment was already satisfied, so that
\* none of them gave a reason to make the literal true.
Misled(l, p) ==
  /\ \E i \in DOMAIN clauses : DownTo(i, l, p)
  /\ \A i \in DOMAIN clauses : DownTo(i, l, p) => SatisfiedBefore(i, p)

\* The call has forced a literal for no reason.
MisledCall ==
  \E p \in 1 .. Len(trail) :
    trail[p] \in AssignedByCall \ {stack[1].literal} /\ Misled(trail[p], p)

\* The clause to be visited is down to a literal and another clause to its negation, but
\* for one of the two there is no reason.
MisledVerdict ==
  LET now == Len(trail) + 1 IN
  \E i \in Top.todo \cap DOMAIN clauses, j \in DOMAIN clauses, l \in Literals :
    DownTo(i, l, now) /\ DownTo(j, -l, now) /\ (Misled(l, now) \/ Misled(-l, now))

\* A total assignment that extends the premises of the call and satisfies the formula.
Solves(total) ==
  /\ \A l \in Premises : total[Variable(l)] = SatisfyingValue(l)
  /\ \A i \in DOMAIN clauses : Satisfies(total, clauses[i].literals)

\* propagate() does not see that an assigned literal may satisfy a clause, and takes a
\* satisfied clause with one literal left for a unit clause.  Unless such a clause alone
\* made the call assign a literal, or alone is behind one side of the conflict, a Conflict
\* is real at whatever depth of the recursion it is met: the premises of the call have no
\* model of the formula among their extensions.  A literal that some clause forced
\* rightly when it was assigned is no excuse.
ConflictRealUnlessMisled ==
  [][(~Idle /\ Idle' /\ result' = "Conflict") =>
       \/ MisledCall
       \/ MisledVerdict
       \/ ~\E total \in TotalAssignments : Solves(total)]_vars

\* A started propagate() returns, however its calls nest.
PropagationTerminates == ~Idle ~> Idle
=============================================================================
