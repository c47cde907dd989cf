---------------------- MODULE ProblemDefinitionProofs ----------------------
(***************************************************************************)
(* Proofs about ProblemDefinition for every number of variables, every set *)
(* of clause indices and every set of clauses clients offer.               *)
(*                                                                         *)
(* The first part states what each operation on the store preserves, for   *)
(* the modules that build on it as well; the second what propagate() does  *)
(* to the assignment and to its calls; the third puts both together.  The  *)
(* last part is about blocked clauses.                                     *)
(***************************************************************************)
EXTENDS BlockedClauses, SequenceTheorems, TLAPS

USE ProblemDefinitionAssumption DEF ProblemDefinitionAssumption

\* Each clause is recorded under its literals, and the store has its shape.
StoreInv == StoreTypeOK /\ OccurrencesComplete
-----------------------------------------------------------------------------
(* Literals.                                                               *)

\* A literal and its negation are literals of the same declared variable.
LEMMA LiteralFacts ==
  ASSUME NEW l \in Literals
  PROVE  /\ l \in Int /\ -l \in Literals /\ l \in KnownLiterals
         /\ Variable(l) \in Variables /\ Variable(-l) = Variable(l)
         /\ SatisfyingValue(l) \in Values \ {"Unknown"}
  BY DEF Literals, Variable, Variables, SatisfyingValue, Values

\* What getClauseLiteralsOmittingAlreadyAssignedOnes keeps is a bag.
LEMMA UnassignedType ==
  ASSUME NEW bag \in Bags
  PROVE  Unassigned(bag) \in Bags
  BY DEF Unassigned, Bags
-----------------------------------------------------------------------------
(* What the operations on the store preserve.                              *)

\* addClause keeps every lookup complete, whether or not it fails half-way.
LEMMA StoreClauseInv ==
  ASSUME StoreInv, NEW i \in ClauseIds, NEW bag \in Bags, StoreClause(i, bag)
  PROVE  StoreInv'
<1>1. CASE InRange(bag)
  <2>1. /\ DOMAIN clauses' = DOMAIN clauses \cup {i}
        /\ clauses'[i] = [literals |-> bag, satisified |-> FALSE]
        /\ \A j \in DOMAIN clauses : clauses'[j] = clauses[j]
    BY <1>1 DEF StoreClause
  <2>2. \A l \in Literals : bag[l] > 0 => l \in RecordedLiterals(bag)
    BY <1>1 DEF RecordedLiterals, InRange, Bags
  <2>3. occurrences' \in [Literals -> SUBSET ClauseIds]
    BY DEF StoreClause, StoreInv, StoreTypeOK
  <2>4. clauses' = [j \in DOMAIN clauses' |-> clauses'[j]]
    BY <1>1 DEF StoreClause
  <2>5. \A j \in DOMAIN clauses' : clauses'[j] \in [literals : Bags, satisified : BOOLEAN]
    <3>1. [literals |-> bag, satisified |-> FALSE] \in [literals : Bags, satisified : BOOLEAN]
      OBVIOUS
    <3>2. \A j \in DOMAIN clauses : clauses[j] \in [literals : Bags, satisified : BOOLEAN]
      BY DEF StoreInv, StoreTypeOK
    <3> QED BY <2>1, <3>1, <3>2
  <2>6. StoreTypeOK'
    BY <2>1, <2>3, <2>4, <2>5 DEF StoreInv, StoreTypeOK
  <2>7. OccurrencesComplete'
    BY <1>1, <2>1, <2>2 DEF StoreInv, StoreTypeOK, OccurrencesComplete, StoreClause, InRange
  <2> QED BY <2>6, <2>7 DEF StoreInv
<1>2. CASE ~InRange(bag)
  <2>1. clauses' = clauses
    BY <1>2 DEF StoreClause
  <2>2. occurrences' \in [Literals -> SUBSET ClauseIds]
    BY DEF StoreClause, StoreInv, StoreTypeOK
  <2>3. \A l \in Literals : occurrences[l] \subseteq occurrences'[l]
    BY DEF StoreClause, StoreInv, StoreTypeOK
  <2> QED BY <2>1, <2>2, <2>3 DEF StoreInv, StoreTypeOK, OccurrencesComplete
<1> QED BY <1>1, <1>2

\* removeClause keeps the lookups of the remaining clauses complete.
LEMMA DropClausesInv ==
  ASSUME StoreInv, NEW S, DropClauses(S)
  PROVE  StoreInv'
<1>1. /\ DOMAIN clauses' = DOMAIN clauses \ S
      /\ \A j \in DOMAIN clauses \ S : clauses'[j] = clauses[j]
      /\ clauses' = [j \in DOMAIN clauses' |-> clauses'[j]]
  BY DEF DropClauses
<1>2. occurrences' \in [Literals -> SUBSET ClauseIds]
  BY DEF DropClauses, StoreInv, StoreTypeOK
<1>3. StoreTypeOK'
  BY <1>1, <1>2 DEF StoreInv, StoreTypeOK
<1>4. OccurrencesComplete'
  BY <1>1 DEF StoreInv, StoreTypeOK, OccurrencesComplete, DropClauses
<1> QED BY <1>3, <1>4 DEF StoreInv

\* Erasing a literal from clauses and the clauses from its lookup agree.
LEMMA EraseLiteralInv ==
  ASSUME StoreInv, NEW l \in Literals, NEW S, EraseLiteral(l, S)
  PROVE  StoreInv'
<1>1. /\ DOMAIN clauses' = DOMAIN clauses
      /\ clauses' = [j \in DOMAIN clauses' |-> clauses'[j]]
  BY DEF EraseLiteral
<1>2. \A j \in DOMAIN clauses :
        /\ clauses'[j] \in [literals : Bags, satisified : BOOLEAN]
        /\ \A k \in KnownLiterals :
             clauses'[j].literals[k] = IF j \in S /\ k = l THEN 0 ELSE clauses[j].literals[k]
  BY LiteralFacts DEF EraseLiteral, StoreInv, StoreTypeOK, Bags
<1>3. occurrences' \in [Literals -> SUBSET ClauseIds]
  BY DEF EraseLiteral, StoreInv, StoreTypeOK
<1>4. StoreTypeOK'
  BY <1>1, <1>2, <1>3 DEF StoreInv, StoreTypeOK
<1>5. OccurrencesComplete'
  BY <1>1, <1>2 DEF StoreInv, StoreTypeOK, OccurrencesComplete, EraseLiteral
<1> QED BY <1>4, <1>5 DEF StoreInv

\* Setting the satisified flag of clauses changes no literal and no lookup.
LEMMA MarkSatisfiedKeepsLiterals ==
  ASSUME StoreInv, NEW S, MarkSatisfied(S)
  PROVE  /\ DOMAIN clauses' = DOMAIN clauses
         /\ clauses' = [j \in DOMAIN clauses' |-> clauses'[j]]
         /\ \A j \in DOMAIN clauses :
              /\ clauses'[j] \in [literals : Bags, satisified : BOOLEAN]
              /\ clauses'[j].literals = clauses[j].literals
         /\ occurrences' = occurrences
  BY DEF MarkSatisfied, StoreInv, StoreTypeOK

LEMMA MarkSatisfiedInv ==
  ASSUME StoreInv, NEW S, MarkSatisfied(S)
  PROVE  StoreInv'
  BY MarkSatisfiedKeepsLiterals DEF StoreInv, StoreTypeOK, OccurrencesComplete

\* The store is a function of its two variables.
LEMMA StoreUnchangedInv ==
  ASSUME StoreInv, UNCHANGED store
  PROVE  StoreInv'
  BY DEF StoreInv, StoreTypeOK, OccurrencesComplete, store
-----------------------------------------------------------------------------
(* What propagate() does to the assignment and to its calls.               *)

AssignmentInv == AssignmentTypeOK /\ TrailMatchesValues

\* Frames a call may be entered from: they stand on the trail in call order.
CallersOK(frames) ==
  /\ frames \in Seq(Frames)
  /\ \A d \in 1 .. Len(frames) : \E p \in 1 .. Len(trail) : trail[p] = frames[d].literal
  /\ \A d, e \in 1 .. Len(frames) : \A p, q \in 1 .. Len(trail) :
       (d < e /\ trail[p] = frames[d].literal /\ trail[q] = frames[e].literal) => p < q
  /\ \A d \in 1 .. Len(frames) :
       frames[d].todo \subseteq occurrences[-frames[d].literal] \cap DOMAIN clauses

CallInv == CallTypeOK /\ CallersOK(stack)

\* The inductive invariant.
Inv == StoreInv /\ AssignmentInv /\ CallInv

\* A literal without a value is not on the trail, nor is its negation.
LEMMA UnassignedNotOnTrail ==
  ASSUME AssignmentInv, NEW l \in Literals, LiteralValue(l) = "Unknown",
         NEW p \in 1 .. Len(trail)
  PROVE  Variable(trail[p]) # Variable(l)
<1>1. trail[p] \in Literals
  BY DEF AssignmentInv, AssignmentTypeOK
<1>2. values[Variable(trail[p])] # "Unknown"
  BY <1>1, LiteralFacts DEF AssignmentInv, TrailMatchesValues
<1>3. values[Variable(l)] = "Unknown"
  BY LiteralFacts DEF LiteralValue
<1> QED BY <1>2, <1>3

\* recordAssignment extends the trail and keeps it in step with the values.
LEMMA RecordAssignmentInv ==
  ASSUME AssignmentInv, NEW l \in Literals, LiteralValue(l) = "Unknown", RecordAssignment(l)
  PROVE  /\ AssignmentInv'
         /\ Len(trail') = Len(trail) + 1
         /\ trail'[Len(trail) + 1] = l
         /\ \A p \in 1 .. Len(trail) : trail'[p] = trail[p]
<1>1. /\ trail \in Seq(Literals) /\ Len(trail) \in Nat
      /\ values \in [Variables -> Values]
  BY LenProperties DEF AssignmentInv, AssignmentTypeOK
<1>2. /\ trail' \in Seq(Literals)
      /\ Len(trail') = Len(trail) + 1
      /\ trail'[Len(trail) + 1] = l
      /\ \A p \in 1 .. Len(trail) : trail'[p] = trail[p]
  BY <1>1 DEF RecordAssignment
<1>3. /\ Variable(l) \in Variables /\ SatisfyingValue(l) \in Values
      /\ values' \in [Variables -> Values]
      /\ values'[Variable(l)] = SatisfyingValue(l)
      /\ \A v \in Variables \ {Variable(l)} : values'[v] = values[v]
  BY <1>1, LiteralFacts DEF RecordAssignment
<1>4. \A p \in 1 .. Len(trail) : /\ trail[p] \in Literals
                                 /\ Variable(trail[p]) \in Variables \ {Variable(l)}
  BY <1>1, ElementOfSeq, LiteralFacts, UnassignedNotOnTrail
<1>5. 1 .. Len(trail') = 1 .. Len(trail) \cup {Len(trail) + 1}
  BY <1>1, <1>2
<1>6. \A p, q \in 1 .. Len(trail') : Variable(trail'[p]) = Variable(trail'[q]) => p = q
  BY <1>2, <1>4, <1>5 DEF AssignmentInv, TrailMatchesValues
<1>7. \A p \in 1 .. Len(trail') : values'[Variable(trail'[p])] = SatisfyingValue(trail'[p])
  BY <1>2, <1>3, <1>4, <1>5 DEF AssignmentInv, TrailMatchesValues
<1>8. \A v \in Variables :
        values'[v] # "Unknown" => \E p \in 1 .. Len(trail') : Variable(trail'[p]) = v
  <2> SUFFICES ASSUME NEW v \in Variables, values'[v] # "Unknown"
               PROVE  \E p \in 1 .. Len(trail') : Variable(trail'[p]) = v
    OBVIOUS
  <2>1. CASE v = Variable(l)
    BY <2>1, <1>2, <1>5
  <2>2. CASE v # Variable(l)
    <3>1. PICK p \in 1 .. Len(trail) : Variable(trail[p]) = v
      BY <2>2, <1>3 DEF AssignmentInv, TrailMatchesValues
    <3> QED BY <3>1, <1>2, <1>5
  <2> QED BY <2>1, <2>2
<1> QED BY <1>2, <1>3, <1>6, <1>7, <1>8 DEF AssignmentInv, AssignmentTypeOK, TrailMatchesValues

\* Entering a call that assigns pushes one frame on top of its callers.
LEMMA PushedFrame ==
  ASSUME StoreInv, AssignmentInv, NEW callers, CallersOK(callers),
         NEW l \in Literals, LiteralValue(l) = "Unknown", RecordAssignment(l),
         occurrences' = occurrences, DOMAIN clauses' = DOMAIN clauses,
         occurrences[-l] \subseteq DOMAIN clauses,
         stack' = Append(callers, [literal |-> l, todo |-> occurrences[-l]])
  PROVE  CallersOK(stack)'
<1> DEFINE n == Len(callers)
           t == Len(trail)
<1>1. /\ callers \in Seq(Frames) /\ n \in Nat /\ t \in Nat
      /\ 1 .. n + 1 = 1 .. n \cup {n + 1} /\ 1 .. t + 1 = 1 .. t \cup {t + 1}
  <2>1. callers \in Seq(Frames) /\ trail \in Seq(Literals)
    BY DEF CallersOK, AssignmentInv, AssignmentTypeOK
  <2>2. n \in Nat /\ t \in Nat
    BY <2>1, LenProperties
  <2> QED BY <2>1, <2>2
<1>2. /\ Len(trail') = t + 1 /\ trail'[t + 1] = l
      /\ \A p \in 1 .. t : trail'[p] = trail[p] /\ trail[p] # l
  BY RecordAssignmentInv, UnassignedNotOnTrail
<1>3. [literal |-> l, todo |-> occurrences[-l]] \in Frames
  BY LiteralFacts DEF Frames, StoreInv, StoreTypeOK
<1>4. /\ stack' \in Seq(Frames)
      /\ Len(stack') = n + 1
      /\ stack'[n + 1] = [literal |-> l, todo |-> occurrences[-l]]
      /\ \A d \in 1 .. n : stack'[d] = callers[d]
  BY <1>1, <1>3
<1>5. \A d \in 1 .. n : callers[d].literal # l
  BY <1>2 DEF CallersOK
<1>6. \A d \in 1 .. n + 1 : \E p \in 1 .. t + 1 : trail'[p] = stack'[d].literal
  <2>1. \A d \in 1 .. n : \E p \in 1 .. t : trail'[p] = stack'[d].literal
    BY <1>2, <1>4 DEF CallersOK
  <2>2. trail'[t + 1] = stack'[n + 1].literal
    BY <1>2, <1>4
  <2> QED BY <2>1, <2>2, <1>1
<1>7. \A d, e \in 1 .. n + 1 : \A p, q \in 1 .. t + 1 :
        (d < e /\ trail'[p] = stack'[d].literal /\ trail'[q] = stack'[e].literal) => p < q
  <2> SUFFICES ASSUME NEW d \in 1 .. n + 1, NEW e \in 1 .. n + 1,
                      NEW p \in 1 .. t + 1, NEW q \in 1 .. t + 1, d < e,
                      trail'[p] = stack'[d].literal, trail'[q] = stack'[e].literal
               PROVE  p < q
    OBVIOUS
  <2>1. d \in 1 .. n /\ stack'[d] = callers[d]
    BY <1>1, <1>4
  <2>2. p \in 1 .. t /\ trail'[p] = trail[p]
    BY <2>1, <1>1, <1>2, <1>5
  <2>3. CASE e = n + 1
    <3>1. trail'[q] = l
      BY <2>3, <1>4
    <3>2. q = t + 1
      BY <3>1, <1>1, <1>2
    <3> QED BY <3>2, <2>2, <1>1
  <2>4. CASE e \in 1 .. n
    <3>1. q \in 1 .. t /\ trail'[q] = trail[q] /\ stack'[e] = callers[e]
      BY <2>4, <1>1, <1>2, <1>4, <1>5
    <3> QED BY <2>1, <2>2, <2>4, <3>1 DEF CallersOK
  <2> QED BY <1>1, <2>3, <2>4
<1>8. \A d \in 1 .. n + 1 :
        stack'[d].todo \subseteq occurrences'[-stack'[d].literal] \cap DOMAIN clauses'
  <2>1. \A d \in 1 .. n :
          callers[d].todo \subseteq occurrences[-callers[d].literal] \cap DOMAIN clauses
    BY DEF CallersOK
  <2>2. stack'[n + 1].literal = l /\ stack'[n + 1].todo = occurrences[-l]
    BY <1>4
  <2> QED BY <1>1, <1>4, <2>1, <2>2
<1>9. trail' \in Seq(Literals) /\ Len(trail') = t + 1
  <2>1. trail \in Seq(Literals) /\ trail' = Append(trail, l)
    BY DEF AssignmentInv, AssignmentTypeOK, RecordAssignment
  <2> QED BY <2>1, AppendProperties
<1> QED
  <2>1. stack' \in Seq(Frames) /\ Len(stack') = n + 1
    BY <1>4
  <2>2. \A d \in 1 .. Len(stack') : \E p \in 1 .. Len(trail') : trail'[p] = stack'[d].literal
    BY <1>6, <1>9, <2>1
  <2>3. \A d, e \in 1 .. Len(stack') : \A p, q \in 1 .. Len(trail') :
          (d < e /\ trail'[p] = stack'[d].literal /\ trail'[q] = stack'[e].literal) => p < q
    BY <1>7, <1>9, <2>1
  <2>4. \A d \in 1 .. Len(stack') :
          stack'[d].todo \subseteq occurrences'[-stack'[d].literal] \cap DOMAIN clauses'
    BY <1>8, <2>1
  <2> QED BY <2>1, <2>2, <2>3, <2>4 DEF CallersOK

\* No frames are callers of anything.
LEMMA NoCallersOK ==
  /\ CallersOK(<<>>)
  /\ stack' = <<>> => CallersOK(stack)'
<1>1. <<>> \in Seq(Frames) /\ Len(<<>>) = 0
  BY EmptySeq
<1>2. 1 .. Len(<<>>) = {}
  BY <1>1
<1> QED BY <1>1, <1>2 DEF CallersOK

\* The callers of a call depend on the trail and the store only.
LEMMA CallersUnchanged ==
  ASSUME NEW callers, CallersOK(callers), stack' = callers,
         UNCHANGED <<trail, occurrences, clauses>>
  PROVE  CallersOK(stack)'
  BY DEF CallersOK

\* Entering propagate(), from a client or from another call of it, keeps everything
\* in step, whichever way the call turns out.
LEMMA CallInvariant ==
  ASSUME StoreInv, AssignmentInv, NEW callers, CallersOK(callers),
         NEW l \in KnownLiterals, Call(l, callers)
  PROVE  Inv'
<1>1. CASE CallAssigned(l, callers)
  <2>1. StoreInv' /\ AssignmentInv'
    BY <1>1, StoreUnchangedInv DEF CallAssigned, assignment, AssignmentInv, AssignmentTypeOK,
      TrailMatchesValues
  <2>2. CallersOK(stack)'
    BY <1>1, CallersUnchanged DEF CallAssigned, assignment, store
  <2>3. CallTypeOK'
    BY <1>1 DEF CallAssigned, CallTypeOK, CallersOK, Results
  <2> QED BY <2>1, <2>2, <2>3 DEF Inv, CallInv
<1>2. CASE CallRefused(l)
  <2>1. StoreInv' /\ AssignmentInv'
    BY <1>2, StoreUnchangedInv DEF CallRefused, assignment, AssignmentInv, AssignmentTypeOK,
      TrailMatchesValues
  <2>2. stack' = <<>> /\ result' \in Results
    BY <1>2 DEF CallRefused, ConflictVerdicts, Abort, Results
  <2> QED BY <2>1, <2>2, NoCallersOK, EmptySeq DEF Inv, CallInv, CallTypeOK
<1>3. CASE CallAssigns(l, callers)
  <2>1. l \in Literals /\ LiteralValue(l) = "Unknown" /\ RecordAssignment(l)
    BY <1>3 DEF CallAssigns, ConflictVerdicts
  <2>2. AssignmentInv'
    BY <2>1, RecordAssignmentInv
  <2>3. CASE MissingClauses(l) = {}
    <3>1. /\ MarkSatisfied(occurrences[l])
          /\ stack' = Append(callers, [literal |-> l, todo |-> occurrences[-l]])
          /\ result' = "Ok"
      BY <1>3, <2>3 DEF CallAssigns
    <3>2. StoreInv' /\ occurrences' = occurrences /\ DOMAIN clauses' = DOMAIN clauses
      BY <3>1, MarkSatisfiedInv DEF MarkSatisfied
    <3>3. occurrences[-l] \subseteq DOMAIN clauses
      BY <1>3 DEF CallAssigns, ConflictVerdicts, MissingClauses
    <3>4. CallersOK(stack)'
      BY <2>1, <3>1, <3>2, <3>3, PushedFrame
    <3> QED BY <2>2, <3>1, <3>2, <3>4 DEF Inv, CallInv, CallTypeOK, CallersOK, Results
  <2>4. CASE MissingClauses(l) # {}
    <3>1. /\ \E S \in SUBSET (occurrences[l] \cap DOMAIN clauses) : MarkSatisfied(S)
          /\ Abort("ErrorDuringPropagation")
      BY <1>3, <2>4 DEF CallAssigns
    <3>2. StoreInv'
      BY <3>1, MarkSatisfiedInv
    <3> QED BY <2>2, <3>1, <3>2, NoCallersOK, EmptySeq
            DEF Inv, CallInv, CallTypeOK, Abort, Results
  <2> QED BY <2>3, <2>4
<1> QED BY <1>1, <1>2, <1>3 DEF Call

\* The innermost loop moves on, and nothing else changes.
LEMMA VisitedFrames ==
  ASSUME CallTypeOK, ~Idle, NEW i
  PROVE  LET n == Len(stack)
         IN /\ n \in Nat \ {0}
            /\ Visited(i) \in Seq(Frames) /\ Len(Visited(i)) = n
            /\ \A d \in 1 .. n :
                 /\ Visited(i)[d].literal = stack[d].literal
                 /\ Visited(i)[d].todo = IF d = n THEN stack[d].todo \ {i} ELSE stack[d].todo
<1> DEFINE n == Len(stack)
           f == [stack[n] EXCEPT !.todo = @ \ {i}]
<1>1. stack \in Seq(Frames) /\ n \in Nat \ {0} /\ stack[n] \in Frames
  BY EmptySeq, ElementOfSeq DEF Idle, CallTypeOK
<1>2. f \in Frames /\ f.literal = stack[n].literal /\ f.todo = stack[n].todo \ {i}
  BY <1>1 DEF Frames
<1>3. Visited(i) = [stack EXCEPT ![n] = f]
  BY DEF Visited
<1>4. /\ [stack EXCEPT ![n] = f] \in Seq(Frames)
      /\ Len([stack EXCEPT ![n] = f]) = n
      /\ \A d \in 1 .. n : [stack EXCEPT ![n] = f][d] = IF d = n THEN f ELSE stack[d]
  BY <1>1, <1>2, ExceptSeq
<1> QED BY <1>1, <1>2, <1>3, <1>4

\* Moving the innermost loop on leaves frames that still follow the trail.
LEMMA VisitedOK ==
  ASSUME Inv, ~Idle, NEW i
  PROVE  CallersOK(Visited(i))
<1>1. /\ Visited(i) \in Seq(Frames) /\ Len(Visited(i)) = Len(stack)
      /\ \A d \in 1 .. Len(stack) : /\ Visited(i)[d].literal = stack[d].literal
                                    /\ Visited(i)[d].todo \subseteq stack[d].todo
  BY VisitedFrames DEF Inv, CallInv
<1> QED BY <1>1 DEF Inv, CallInv, CallersOK
-----------------------------------------------------------------------------
(* The invariant of the specification.                                     *)

\* The invariant is the conjunction of the properties below.
LEMMA InvMeaning ==
  Inv <=> TypeOK /\ OccurrencesComplete /\ TrailMatchesValues /\ CallStackFollowsTrail
  BY DEF Inv, StoreInv, AssignmentInv, CallInv, TypeOK, CallTypeOK, CallersOK,
    CallStackFollowsTrail

LEMMA InvInitially == Init => Inv
<1> SUFFICES ASSUME Init PROVE Inv
  OBVIOUS
<1>1. StoreInv
  BY DEF Init, StoreInv, StoreTypeOK, OccurrencesComplete
<1>2. <<>> \in Seq(Literals) /\ Len(<<>>) = 0 /\ 1 .. Len(<<>>) = {} /\ <<>> \in Seq(Frames)
  <2>1. <<>> \in Seq(Literals) /\ Len(<<>>) = 0 /\ <<>> \in Seq(Frames)
    BY EmptySeq
  <2> QED BY <2>1
<1>3. AssignmentInv
  BY <1>2 DEF Init, AssignmentInv, AssignmentTypeOK, TrailMatchesValues, Values
<1>4. CallInv
  BY <1>2 DEF Init, CallInv, CallTypeOK, CallersOK, Results
<1> QED BY <1>1, <1>3, <1>4 DEF Inv

\* The operations on clauses run between calls and leave the assignment alone.
LEMMA StoreOperationInv ==
  ASSUME Inv, Idle, StoreInv', UNCHANGED <<values, trail, stack, result>>
  PROVE  Inv'
<1>1. stack' = <<>> /\ CallersOK(stack)'
  BY NoCallersOK DEF Idle
<1>2. AssignmentInv' /\ CallTypeOK'
  BY DEF Inv, AssignmentInv, AssignmentTypeOK, TrailMatchesValues, CallInv, CallTypeOK
<1> QED BY <1>1, <1>2 DEF Inv, CallInv

\* A step that ends the running calls leaves the rest as it is.
LEMMA EndOfCallsInv ==
  ASSUME Inv, UNCHANGED <<store, assignment>>, CallTypeOK', CallersOK(stack)'
  PROVE  Inv'
  BY StoreUnchangedInv DEF Inv, assignment, AssignmentInv, AssignmentTypeOK,
    TrailMatchesValues, CallInv

\* The calls that are left when the innermost one has returned.
LEMMA StackWithoutTop ==
  ASSUME CallTypeOK, ~Idle
  PROVE  LET n == Len(stack)
         IN /\ n \in Nat \ {0}
            /\ SubSeq(stack, 1, n - 1) \in Seq(Frames)
            /\ Len(SubSeq(stack, 1, n - 1)) = n - 1
            /\ \A d \in 1 .. n - 1 : SubSeq(stack, 1, n - 1)[d] = stack[d]
<1> DEFINE n == Len(stack)
<1>1. stack \in Seq(Frames) /\ n \in Nat \ {0}
  BY EmptySeq DEF Idle, CallTypeOK
<1>2. \A d \in 1 .. n - 1 : stack[d] \in Frames
  BY <1>1, ElementOfSeq
<1>3. 1 \in Int /\ n - 1 \in Int
  BY <1>1
<1> HIDE DEF n
<1>4. /\ SubSeq(stack, 1, n - 1) \in Seq(Frames)
      /\ Len(SubSeq(stack, 1, n - 1)) = IF 1 <= n - 1 THEN n - 1 - 1 + 1 ELSE 0
      /\ \A d \in 1 .. n - 1 - 1 + 1 : SubSeq(stack, 1, n - 1)[d] = stack[1 + d - 1]
  BY <1>2, <1>3, SubSeqProperties
<1>5. /\ Len(SubSeq(stack, 1, n - 1)) = n - 1
      /\ \A d \in 1 .. n - 1 : SubSeq(stack, 1, n - 1)[d] = stack[d]
  BY <1>1, <1>4
<1> QED BY <1>1, <1>4, <1>5 DEF n

\* Every step of a running propagate() preserves the invariant.
LEMMA PropagationStepInv ==
  ASSUME Inv, PropagationStep
  PROVE  Inv'
<1>1. ASSUME NEW i \in ClauseIds, VisitClause(i)
      PROVE  Inv'
  <2>1. CallersOK(Visited(i))
    BY <1>1, VisitedOK DEF VisitClause
  <2>2. CASE \E l \in KnownLiterals : Call(l, Visited(i))
    BY <2>1, <2>2, CallInvariant DEF Inv
  <2>3. CASE stack' = Visited(i) /\ UNCHANGED <<store, assignment, result>>
    <3>1. CallersOK(stack)'
      BY <2>1, <2>3, CallersUnchanged DEF store, assignment
    <3>2. CallTypeOK'
      BY <1>1, <2>1, <2>3 DEF VisitClause, Idle, Inv, CallInv, CallTypeOK, CallersOK
    <3> QED BY <2>3, <3>1, <3>2, EndOfCallsInv
  <2> QED BY <1>1, <2>2, <2>3 DEF VisitClause
<1>2. CASE ReturnFromCall
  <2> DEFINE n == Len(stack)
  <2>1. stack \in Seq(Frames) /\ n \in Nat \ {0}
    BY <1>2, EmptySeq DEF ReturnFromCall, Idle, Inv, CallInv, CallTypeOK
  <2>2. /\ SubSeq(stack, 1, n - 1) \in Seq(Frames)
        /\ Len(SubSeq(stack, 1, n - 1)) = n - 1
        /\ \A d \in 1 .. n - 1 : SubSeq(stack, 1, n - 1)[d] = stack[d]
    BY <1>2, StackWithoutTop DEF ReturnFromCall, Inv, CallInv
  <2>3. CallersOK(SubSeq(stack, 1, n - 1))
    <3> DEFINE callers == SubSeq(stack, 1, n - 1)
    <3>1. /\ callers \in Seq(Frames) /\ Len(callers) = n - 1
          /\ 1 .. n - 1 \subseteq 1 .. n
          /\ \A d \in 1 .. n - 1 : callers[d] = stack[d]
      BY <2>1, <2>2
    <3> HIDE DEF callers
    <3>2. CallersOK(callers)
      BY <3>1 DEF Inv, CallInv, CallersOK
    <3> QED BY <3>2 DEF callers
  <2>4. CallersOK(stack)'
    BY <1>2, <2>3, CallersUnchanged DEF ReturnFromCall, store, assignment
  <2>5. CallTypeOK'
    BY <1>2, <2>2 DEF ReturnFromCall, CallTypeOK, Results
  <2> QED BY <1>2, <2>4, <2>5, EndOfCallsInv DEF ReturnFromCall
<1> QED BY <1>1, <1>2 DEF PropagationStep

LEMMA InvInductive == Inv /\ [Next]_vars => Inv'
<1> SUFFICES ASSUME Inv, [Next]_vars PROVE Inv'
  OBVIOUS
<1>1. ASSUME NEW i \in ClauseIds, NEW bag \in OfferedClauses, AddClause(i, bag)
      PROVE  Inv'
  BY <1>1, StoreClauseInv, StoreOperationInv DEF AddClause, assignment, Inv
<1>2. ASSUME NEW i \in ClauseIds, RemoveClause(i)
      PROVE  Inv'
  BY <1>2, DropClausesInv, StoreOperationInv DEF RemoveClause, assignment, Inv
<1>3. ASSUME NEW l \in Literals, RemoveLiteralFromClauses(l)
      PROVE  Inv'
  <2>1. \E S : EraseLiteral(l, S)
    BY <1>3 DEF RemoveLiteralFromClauses
  <2>2. StoreInv'
    BY <2>1, EraseLiteralInv DEF Inv
  <2> QED BY <1>3, <2>2, StoreOperationInv DEF RemoveLiteralFromClauses, assignment
<1>4. ASSUME NEW l \in KnownLiterals, StartPropagation(l)
      PROVE  Inv'
  BY <1>4, NoCallersOK, CallInvariant DEF StartPropagation, Inv
<1>5. CASE PropagationStep
  BY <1>5, PropagationStepInv
<1>6. CASE UNCHANGED vars
  <2>1. UNCHANGED <<store, assignment, stack, result, trail, occurrences, clauses>>
    BY <1>6 DEF vars, store, assignment
  <2> QED BY <2>1, CallersUnchanged, EndOfCallsInv DEF Inv, CallInv, CallTypeOK
<1> QED BY <1>1, <1>2, <1>3, <1>4, <1>5, <1>6 DEF Next

\* The inductive invariant holds throughout.
THEOREM Invariance == Spec => []Inv
<1>1. Init => Inv
  BY InvInitially
<1>2. Inv /\ [Next]_vars => Inv'
  BY InvInductive
<1> QED BY <1>1, <1>2, PTL DEF Spec

\* The state keeps the shape the code's types give it; in particular no call of
\* propagate() goes on after one it made has failed.
THEOREM TypeCorrectness == Spec => []TypeOK
  BY Invariance, InvMeaning, PTL

\* No lookup by literal ever misses a clause: addClause, removeClause, the erasure of
\* literals and propagate() keep the lookup complete, even when they fail half-way.
THEOREM OccurrencesAreComplete == Spec => []OccurrencesComplete
  BY Invariance, InvMeaning, PTL

\* A variable is assigned at most once, and the trail says exactly which are assigned
\* and how, however the calls of propagate() nest or fail.
THEOREM TrailIsAssignment == Spec => []TrailMatchesValues
  BY Invariance, InvMeaning, PTL

\* No call of propagate() is active twice: the recursion is as deep as the trail is
\* long at most, and each call only visits clauses with the negation of its literal.
THEOREM CallsFollowTrail == Spec => []CallStackFollowsTrail
  BY Invariance, InvMeaning, PTL
-----------------------------------------------------------------------------
(* The lookup as the inverse of the store.                                 *)

\* What each operation on the store does to the literals of a clause and to a lookup.
LEMMA StoreClauseExact ==
  ASSUME StoreInv, LookupIsInverse, NEW i \in ClauseIds, NEW bag \in Bags, InRange(bag),
         StoreClause(i, bag)
  PROVE  LookupIsInverse'
<1>1. /\ DOMAIN clauses' = DOMAIN clauses \cup {i} /\ i \notin DOMAIN clauses
      /\ clauses'[i].literals = bag
      /\ \A j \in DOMAIN clauses : clauses'[j] = clauses[j]
  BY DEF StoreClause
<1>2. \A l \in Literals :
        occurrences'[l] = IF bag[l] > 0 THEN occurrences[l] \cup {i} ELSE occurrences[l]
  <2>1. \A l \in Literals : l \in RecordedLiterals(bag) <=> bag[l] > 0
    BY DEF RecordedLiterals, InRange
  <2> QED BY <2>1 DEF StoreClause
<1>3. ASSUME NEW l \in Literals
      PROVE  occurrences'[l] = {j \in DOMAIN clauses' : clauses'[j].literals[l] > 0}
  <2>1. occurrences[l] = {j \in DOMAIN clauses : clauses[j].literals[l] > 0}
    BY DEF LookupIsInverse
  <2> QED BY <1>1, <1>2, <2>1
<1> QED BY <1>3 DEF LookupIsInverse

LEMMA DropClausesExact ==
  ASSUME StoreInv, LookupIsInverse, NEW S, DropClauses(S)
  PROVE  LookupIsInverse'
<1>1. /\ DOMAIN clauses' = DOMAIN clauses \ S
      /\ \A j \in DOMAIN clauses \ S : clauses'[j] = clauses[j]
  BY DEF DropClauses
<1>2. \A l \in Literals :
        occurrences'[l] = {i \in occurrences[l] : ~(i \in S /\ clauses[i].literals[l] > 0)}
  BY DEF DropClauses
<1>3. ASSUME NEW l \in Literals
      PROVE  occurrences'[l] = {i \in DOMAIN clauses' : clauses'[i].literals[l] > 0}
  <2>1. occurrences[l] = {i \in DOMAIN clauses : clauses[i].literals[l] > 0}
    BY DEF LookupIsInverse
  <2> QED BY <1>1, <1>2, <2>1
<1> QED BY <1>3 DEF LookupIsInverse

\* Only the erasure from every recorded clause keeps the lookup exact for the literal.
LEMMA EraseLiteralExact ==
  ASSUME StoreInv, LookupIsInverse, NEW l \in Literals, NEW S, EraseLiteral(l, S)
  PROVE  LookupIsInverse'
<1>1. /\ DOMAIN clauses' = DOMAIN clauses
      /\ \A j \in DOMAIN clauses, k \in Literals :
           clauses'[j].literals[k] = IF j \in S /\ k = l THEN 0 ELSE clauses[j].literals[k]
  BY LiteralFacts DEF EraseLiteral, StoreInv, StoreTypeOK, Bags
<1>2. \A k \in Literals :
        occurrences'[k] = IF k = l THEN occurrences[k] \ S ELSE occurrences[k]
  BY DEF EraseLiteral, StoreInv, StoreTypeOK
<1>3. ASSUME NEW k \in Literals
      PROVE  occurrences'[k] = {j \in DOMAIN clauses' : clauses'[j].literals[k] > 0}
  <2>1. occurrences[k] = {j \in DOMAIN clauses : clauses[j].literals[k] > 0}
    BY DEF LookupIsInverse
  <2>2. \A j \in DOMAIN clauses :
          clauses'[j].literals[k] = IF j \in S /\ k = l THEN 0 ELSE clauses[j].literals[k]
    BY <1>1
  <2>3. occurrences'[k] = IF k = l THEN occurrences[k] \ S ELSE occurrences[k]
    BY <1>2
  <2>4. \A j : j \in occurrences'[k] <=>
                j \in DOMAIN clauses /\ clauses'[j].literals[k] > 0
    BY <2>1, <2>2, <2>3
  <2> QED BY <1>1, <2>4
<1> QED BY <1>3 DEF LookupIsInverse

LEMMA MarkSatisfiedExact ==
  ASSUME StoreInv, LookupIsInverse, NEW S, MarkSatisfied(S)
  PROVE  LookupIsInverse'
  BY MarkSatisfiedKeepsLiterals DEF LookupIsInverse

LEMMA CallExact ==
  ASSUME StoreInv, LookupIsInverse, NEW callers, NEW l, Call(l, callers)
  PROVE  LookupIsInverse'
<1>1. CASE UNCHANGED store
  BY <1>1 DEF store, LookupIsInverse
<1>2. CASE \E S : MarkSatisfied(S)
  BY <1>2, MarkSatisfiedExact
<1> QED BY <1>1, <1>2 DEF Call, CallAssigned, CallRefused, CallAssigns

\* No step of a running propagate() changes the literals of a clause or a lookup.
LEMMA PropagationStepExact ==
  ASSUME StoreInv, LookupIsInverse, PropagationStep
  PROVE  LookupIsInverse'
<1>1. CASE UNCHANGED store
  BY <1>1 DEF store, LookupIsInverse
<1>2. CASE \E l, callers : Call(l, callers)
  BY <1>2, CallExact
<1> QED BY <1>1, <1>2 DEF PropagationStep, VisitClause, ReturnFromCall

\* With declared literals only, the lookup is the exact inverse of the store: no stale
\* index is left by a removal or an erasure, so that no walk over a lookup ever fails.
THEOREM OccurrencesAreExact == Spec => []OccurrencesExact
<1>1. Init => OccurrencesExact
  BY DEF Init, OccurrencesExact, LookupIsInverse
<1>2. Inv /\ OccurrencesExact /\ [Next]_vars => OccurrencesExact'
  <2> SUFFICES ASSUME StoreInv, \A bag \in OfferedClauses : InRange(bag), LookupIsInverse,
                      [Next]_vars
               PROVE  LookupIsInverse'
    BY DEF OccurrencesExact, Inv
  <2>1. ASSUME NEW i \in ClauseIds, NEW bag \in OfferedClauses, AddClause(i, bag)
        PROVE  LookupIsInverse'
    BY <2>1, StoreClauseExact DEF AddClause
  <2>2. ASSUME NEW i \in ClauseIds, RemoveClause(i)
        PROVE  LookupIsInverse'
    BY <2>2, DropClausesExact DEF RemoveClause
  <2>3. ASSUME NEW l \in Literals, RemoveLiteralFromClauses(l)
        PROVE  LookupIsInverse'
    BY <2>3, EraseLiteralExact DEF RemoveLiteralFromClauses
  <2>4. ASSUME NEW l \in KnownLiterals, StartPropagation(l)
        PROVE  LookupIsInverse'
    BY <2>4, CallExact DEF StartPropagation
  <2>5. CASE PropagationStep
    BY <2>5, PropagationStepExact
  <2>6. CASE UNCHANGED vars
    BY <2>6 DEF vars, LookupIsInverse
  <2> QED BY <2>1, <2>2, <2>3, <2>4, <2>5, <2>6 DEF Next
<1> QED BY <1>1, <1>2, Invariance, PTL DEF Spec
-----------------------------------------------------------------------------
(* Propagation overlooks no clause.                                        *)

\* A clause that is not falsified: some literal is true or has no value.
Alive(bag) == \E l \in Literals : bag[l] > 0 /\ (IsTrue(l) \/ LiteralValue(l) = "Unknown")

\* A call in progress still has to look at clause i.
ToVisit(frames, i) == \E d \in 1 .. Len(frames) : i \in frames[d].todo

\* What propagate() guarantees for a clause at any moment: it is not falsified, and
\* there is nothing to do about it or some call will look at it again.
Handled(frames, i) ==
  LET bag == clauses[i].literals IN Alive(bag) /\ (Settled(bag) \/ ToVisit(frames, i))

\* The clauses a call in progress has taken a literal from are handled.
SaturationInv ==
  ~Idle =>
    \A i \in DOMAIN clauses :
      (/\ DuplicateFree(clauses[i].literals)
       /\ \E l \in AssignedByCall : clauses[i].literals[-l] > 0)
      => Handled(stack, i)

\* A new assignment is about the variable of its literal only.
LEMMA ValuesAfter ==
  ASSUME AssignmentInv, NEW l \in Literals, RecordAssignment(l)
  PROVE  /\ IsTrue(l)'
         /\ \A k \in Literals \ {l, -l} :
              LiteralValue(k)' = LiteralValue(k) /\ (IsTrue(k)' <=> IsTrue(k))
<1>1. values \in [Variables -> Values] /\ values' = [values EXCEPT ![Variable(l)] = SatisfyingValue(l)]
  BY DEF AssignmentInv, AssignmentTypeOK, RecordAssignment
<1>2. IsTrue(l)'
  BY <1>1, LiteralFacts DEF IsTrue, LiteralValue
<1>3. ASSUME NEW k \in Literals \ {l, -l}
      PROVE  LiteralValue(k)' = LiteralValue(k) /\ (IsTrue(k)' <=> IsTrue(k))
  <2>1. Variable(k) # Variable(l) /\ Variable(k) \in Variables /\ Variable(l) \in Variables
    BY LiteralFacts DEF Variable
  <2> QED BY <1>1, <2>1 DEF IsTrue, LiteralValue
<1> QED BY <1>2, <1>3

\* What is stored of a clause.
LEMMA BagFacts ==
  ASSUME StoreInv, NEW i \in DOMAIN clauses
  PROVE  /\ clauses[i].literals \in [KnownLiterals -> Nat]
         /\ \A k \in KnownLiterals :
              clauses[i].literals[k] > 0 => k \in Literals /\ i \in occurrences[k]
  BY DEF StoreInv, StoreTypeOK, OccurrencesComplete, Bags

\* What is left of a clause, in terms of its literals.
LEMMA SettledMeaning ==
  ASSUME NEW bag \in [KnownLiterals -> Nat]
  PROVE  /\ Settled(bag) <=>
              \/ \E l \in Literals : bag[l] > 0 /\ IsTrue(l)
              \/ \E k, l \in Literals :
                   /\ k # l /\ bag[k] > 0 /\ bag[l] > 0
                   /\ LiteralValue(k) = "Unknown" /\ LiteralValue(l) = "Unknown"
         /\ Settled(bag)' <=>
              \/ \E l \in Literals : bag[l] > 0 /\ IsTrue(l)'
              \/ \E k, l \in Literals :
                   /\ k # l /\ bag[k] > 0 /\ bag[l] > 0
                   /\ LiteralValue(k)' = "Unknown" /\ LiteralValue(l)' = "Unknown"
<1>1. Literals \subseteq KnownLiterals
  OBVIOUS
<1>2. \A k \in Literals :
        /\ Unassigned(bag)[k] > 0 <=> bag[k] > 0 /\ LiteralValue(k) = "Unknown"
        /\ Unassigned(bag)'[k] > 0 <=> bag[k] > 0 /\ LiteralValue(k)' = "Unknown"
  BY <1>1 DEF Unassigned
<1> QED BY <1>2 DEF Settled

\* An assignment leaves the clauses handled that were, and those it takes a literal from.
LEMMA AssignmentHandles ==
  ASSUME StoreInv, AssignmentInv, NEW callers \in Seq(Frames), NEW l, CallAssigns(l, callers),
         result' = "Ok", NEW i \in DOMAIN clauses, DuplicateFree(clauses[i].literals),
         \/ clauses[i].literals[l] > 0
         \/ clauses[i].literals[-l] > 0
         \/ Handled(callers, i)
  PROVE  Handled(stack, i)'
<1> PICK bag : bag = clauses[i].literals
  OBVIOUS
<1>1. /\ l \in Literals /\ LiteralValue(l) = "Unknown" /\ RecordAssignment(l)
      /\ ConflictingClauses(l) = {}
      /\ MarkSatisfied(occurrences[l])
      /\ stack' = Append(callers, [literal |-> l, todo |-> occurrences[-l]])
  BY DEF CallAssigns, ConflictVerdicts, Abort
<1>2. clauses'[i].literals = bag
  BY <1>1, MarkSatisfiedKeepsLiterals
<1>3. l \in KnownLiterals /\ -l \in KnownLiterals /\ -l \in Literals /\ LiteralValue(-l) = "Unknown"
  BY <1>1, LiteralFacts DEF LiteralValue
<1>4. /\ bag \in [KnownLiterals -> Nat]
      /\ \A k \in KnownLiterals : bag[k] > 0 => k \in Literals /\ i \in occurrences[k]
  BY BagFacts
<1>5. /\ IsTrue(l)'
      /\ \A k \in Literals \ {l, -l} :
           LiteralValue(k)' = LiteralValue(k) /\ (IsTrue(k)' <=> IsTrue(k))
  BY <1>1, ValuesAfter
<1>6. /\ Len(stack') = Len(callers) + 1 /\ Len(callers) \in Nat
      /\ \A d \in 1 .. Len(callers) : stack'[d] = callers[d]
      /\ stack'[Len(callers) + 1].todo = occurrences[-l]
  <2>1. Len(callers) \in Nat
    BY LenProperties
  <2> QED BY <1>1, <2>1
<1>7. SUFFICES Alive(bag)' /\ (Settled(bag)' \/ \E d \in 1 .. Len(stack') : i \in stack'[d].todo)
  BY <1>2 DEF Handled, ToVisit, Alive, Settled, Unassigned, IsTrue, LiteralValue
<1>8. CASE bag[l] > 0
  BY <1>1, <1>5, <1>8 DEF Alive, Settled
<1>9. CASE ~(bag[l] > 0) /\ bag[-l] > 0
  <2>1. bag[-l] = 1 /\ Unassigned(bag)[-l] = 1
    BY <1>3, <1>4, <1>9 DEF DuplicateFree, Unassigned
  <2>2. ~IsUnit(Unassigned(bag), -l)
    <3>1. i \in occurrences[-l] /\ i \notin ConflictingClauses(l)
      BY <1>1, <1>3, <1>4, <1>9
    <3> QED BY <3>1 DEF ConflictingClauses
  <2>3. PICK k \in KnownLiterals \ {-l} : Unassigned(bag)[k] # 0
    BY <2>1, <2>2 DEF IsUnit
  <2>4. bag[k] > 0 /\ LiteralValue(k) = "Unknown" /\ k \in Literals
    BY <1>4, <2>3 DEF Unassigned
  <2>5. Alive(bag)'
    BY <1>5, <1>9, <2>3, <2>4 DEF Alive
  <2>6. i \in stack'[Len(callers) + 1].todo /\ Len(callers) + 1 \in 1 .. Len(stack')
    BY <1>3, <1>4, <1>6, <1>9
  <2> QED BY <2>5, <2>6
<1>10. CASE ~(bag[l] > 0) /\ ~(bag[-l] > 0)
  <2>1. Alive(bag) /\ (Settled(bag) \/ \E d \in 1 .. Len(callers) : i \in callers[d].todo)
    BY <1>10 DEF Handled, ToVisit
  <2>2. \A k \in Literals :
          bag[k] > 0 => LiteralValue(k)' = LiteralValue(k) /\ (IsTrue(k)' <=> IsTrue(k))
    BY <1>5, <1>10
  <2>3. Alive(bag)'
    BY <2>1, <2>2 DEF Alive
  <2>4. ASSUME Settled(bag)
        PROVE  Settled(bag)'
    <3>1. CASE \E k \in Literals : bag[k] > 0 /\ IsTrue(k)
      <4>1. \E k \in Literals : bag[k] > 0 /\ IsTrue(k)'
        BY <2>2, <3>1
      <4> QED BY <1>4, <4>1, SettledMeaning
    <3>2. CASE \E k, m \in Literals :
                 /\ k # m /\ bag[k] > 0 /\ bag[m] > 0
                 /\ LiteralValue(k) = "Unknown" /\ LiteralValue(m) = "Unknown"
      <4>1. \E k, m \in Literals :
              /\ k # m /\ bag[k] > 0 /\ bag[m] > 0
              /\ LiteralValue(k)' = "Unknown" /\ LiteralValue(m)' = "Unknown"
        BY <2>2, <3>2
      <4> QED BY <1>4, <4>1, SettledMeaning
    <3> QED BY <1>4, <2>4, <3>1, <3>2, SettledMeaning
  <2>5. \A d \in 1 .. Len(callers) : d \in 1 .. Len(stack') /\ stack'[d] = callers[d]
    BY <1>6
  <2> QED BY <2>1, <2>3, <2>4, <2>5
<1> QED BY <1>8, <1>9, <1>10

\* A visit that is no assignment settles its clause.
LEMMA VisitSettles ==
  ASSUME StoreInv, NEW i \in DOMAIN clauses, DuplicateFree(clauses[i].literals),
         Alive(clauses[i].literals),
         \A l \in KnownLiterals : ~IsUnit(Unassigned(clauses[i].literals), l)
  PROVE  Settled(clauses[i].literals)
<1> DEFINE bag == clauses[i].literals
<1>1. /\ bag \in [KnownLiterals -> Nat]
      /\ \A k \in KnownLiterals : bag[k] > 0 => k \in Literals /\ i \in occurrences[k]
  BY BagFacts
<1>2. PICK l \in Literals : bag[l] > 0 /\ (IsTrue(l) \/ LiteralValue(l) = "Unknown")
  BY DEF Alive
<1>3. CASE IsTrue(l)
  BY <1>2, <1>3 DEF Settled
<1>4. CASE LiteralValue(l) = "Unknown"
  <2>1. l \in KnownLiterals
    BY LiteralFacts
  <2>2. Unassigned(bag)[l] = 1
    BY <1>1, <1>2, <1>4, <2>1 DEF Unassigned, DuplicateFree
  <2>3. PICK k \in KnownLiterals \ {l} : Unassigned(bag)[k] # 0
    BY <2>1, <2>2 DEF IsUnit
  <2>4. k \in Literals /\ Unassigned(bag)[k] > 0
    BY <1>1, <2>3 DEF Unassigned
  <2> QED BY <2>2, <2>3, <2>4 DEF Settled
<1> QED BY <1>2, <1>3, <1>4

\* What the innermost call has visited is taken from the clauses it has to visit only.
LEMMA VisitedToVisit ==
  ASSUME CallTypeOK, ~Idle, NEW i
  PROVE  /\ Visited(i) \in Seq(Frames) /\ Len(Visited(i)) = Len(stack)
         /\ Visited(i) # <<>> /\ Visited(i)[1].literal = stack[1].literal
         /\ \A j : j # i => (ToVisit(stack, j) => ToVisit(Visited(i), j))
<1> DEFINE n == Len(stack)
<1>1. n \in Nat \ {0}
  BY VisitedFrames
<1>2. /\ Visited(i) \in Seq(Frames) /\ Len(Visited(i)) = n
      /\ \A d \in 1 .. n :
           /\ Visited(i)[d].literal = stack[d].literal
           /\ Visited(i)[d].todo = IF d = n THEN stack[d].todo \ {i} ELSE stack[d].todo
  BY VisitedFrames
<1>3. Visited(i) # <<>>
  BY <1>1, <1>2, EmptySeq
<1>4. 1 \in 1 .. n
  BY <1>1
<1> QED BY <1>2, <1>3, <1>4 DEF ToVisit

\* A step of a running propagate() that does not fail leaves handled what was handled.
LEMMA PropagationHandles ==
  ASSUME Inv, PropagationStep, result' = "Ok", NEW i \in DOMAIN clauses,
         DuplicateFree(clauses[i].literals), Handled(stack, i)
  PROVE  Handled(stack, i)'
<1> DEFINE bag == clauses[i].literals
<1>1. StoreInv /\ AssignmentInv /\ CallTypeOK
  BY DEF Inv, CallInv
<1>2. Alive(bag) /\ (Settled(bag) \/ ToVisit(stack, i))
  BY DEF Handled
<1>3. ASSUME NEW j \in ClauseIds, VisitClause(j)
      PROVE  Handled(stack, i)'
  <2>1. /\ ~Idle /\ j \in DOMAIN clauses
        /\ Visited(j) \in Seq(Frames)
        /\ \A k : k # j => (ToVisit(stack, k) => ToVisit(Visited(j), k))
    BY <1>1, <1>3, VisitedToVisit DEF VisitClause
  <2>2. ASSUME NEW l \in KnownLiterals, IsUnit(Unassigned(clauses[j].literals), l),
               Call(l, Visited(j))
        PROVE  Handled(stack, i)'
    <3>1. clauses[j].literals[l] > 0 /\ LiteralValue(l) = "Unknown"
      BY <1>1, <2>1, <2>2, BagFacts DEF IsUnit, Unassigned
    <3>2. CallAssigns(l, Visited(j))
      BY <2>2, <3>1 DEF Call, CallAssigned, CallRefused, Abort
    <3>3. CASE i = j
      BY <1>1, <2>1, <3>1, <3>2, <3>3, AssignmentHandles
    <3>4. CASE i # j
      <4>1. Handled(Visited(j), i)
        BY <1>2, <2>1, <3>4 DEF Handled
      <4> QED BY <1>1, <2>1, <3>2, <4>1, AssignmentHandles
    <3> QED BY <3>3, <3>4
  <2>3. ASSUME \A l \in KnownLiterals : ~IsUnit(Unassigned(clauses[j].literals), l),
               stack' = Visited(j), UNCHANGED <<store, assignment, result>>
        PROVE  Handled(stack, i)'
    <3>1. Alive(bag) /\ (Settled(bag) \/ ToVisit(Visited(j), i))
      BY <1>1, <1>2, <2>1, <2>3, VisitSettles
    <3> QED BY <2>3, <3>1 DEF store, assignment, Handled, ToVisit, Alive, Settled, Unassigned,
      IsTrue, LiteralValue
  <2> QED BY <1>3, <2>2, <2>3 DEF VisitClause
<1>4. CASE ReturnFromCall
  <2> DEFINE n == Len(stack)
  <2>1. stack \in Seq(Frames) /\ n \in Nat \ {0} /\ stack[n].todo = {}
    BY <1>1, <1>4, EmptySeq DEF ReturnFromCall, Idle, CallTypeOK, Top
  <2>2. Len(stack') = n - 1 /\ \A d \in 1 .. n - 1 : stack'[d] = stack[d]
    BY <1>1, <1>4, StackWithoutTop DEF ReturnFromCall
  <2>3. ToVisit(stack, i) => \E d \in 1 .. Len(stack') : i \in stack'[d].todo
    BY <2>1, <2>2 DEF ToVisit
  <2> QED BY <1>2, <1>4, <2>3 DEF ReturnFromCall, store, assignment, Handled, ToVisit, Alive,
    Settled, Unassigned, IsTrue, LiteralValue
<1> QED BY <1>3, <1>4 DEF PropagationStep

\* A call made by another one adds its own literal to those assigned, if any.
LEMMA NestedCallAssigns ==
  ASSUME AssignmentInv, NEW l \in Literals, LiteralValue(l) = "Unknown", RecordAssignment(l),
         stack'[1].literal = stack[1].literal
  PROVE  AssignedByCall' \subseteq AssignedByCall \cup {l}
<1> DEFINE n == Len(trail)
<1>1. /\ Len(trail') = n + 1 /\ trail'[n + 1] = l
      /\ \A p \in 1 .. n : trail'[p] = trail[p]
  BY RecordAssignmentInv
<1>2. n \in Nat
  BY LenProperties DEF AssignmentInv, AssignmentTypeOK
<1>3. ASSUME NEW p \in 1 .. n + 1, NEW r \in 1 .. p, trail'[r] = stack[1].literal
      PROVE  trail'[p] \in AssignedByCall \cup {l}
  <2>1. CASE p = n + 1
    BY <1>1, <2>1
  <2>2. CASE p # n + 1
    <3>1. p \in 1 .. n /\ r \in 1 .. n
      BY <1>2, <2>2
    <3>2. trail[p] \in AssignedByCall
      BY <1>1, <1>3, <3>1 DEF AssignedByCall
    <3> QED BY <1>1, <3>1, <3>2
  <2> QED BY <2>1, <2>2
<1> QED BY <1>1, <1>3 DEF AssignedByCall

\* The first call starts with its own literal assigned.
LEMMA FirstCallAssigns ==
  ASSUME AssignmentInv, NEW l \in Literals, LiteralValue(l) = "Unknown", RecordAssignment(l),
         stack'[1].literal = l
  PROVE  AssignedByCall' \subseteq {l}
<1> DEFINE n == Len(trail)
<1>1. /\ Len(trail') = n + 1 /\ trail'[n + 1] = l
      /\ \A p \in 1 .. n : trail'[p] = trail[p]
  BY RecordAssignmentInv
<1>2. n \in Nat
  BY LenProperties DEF AssignmentInv, AssignmentTypeOK
<1>3. \A p \in 1 .. n : trail[p] # l
  BY UnassignedNotOnTrail
<1>4. ASSUME NEW p \in 1 .. n + 1, NEW r \in 1 .. p, trail'[r] = l
      PROVE  trail'[p] = l
  <2>1. r = n + 1
    BY <1>1, <1>2, <1>3, <1>4
  <2>2. p = n + 1
    BY <1>2, <2>1
  <2> QED BY <1>1, <2>2
<1> QED BY <1>1, <1>4 DEF AssignedByCall

\* A step of propagate() that does not assign changes nothing about the assignment.
LEMMA QuietStepSaturates ==
  ASSUME Inv, SaturationInv, PropagationStep, ~Idle, result' = "Ok",
         UNCHANGED <<store, assignment>>, stack' # <<>> => stack'[1].literal = stack[1].literal
  PROVE  SaturationInv'
<1>1. clauses' = clauses /\ trail' = trail
  BY DEF store, assignment
<1>2. stack' # <<>> => AssignedByCall' = AssignedByCall
  BY <1>1 DEF AssignedByCall
<1>3. ASSUME NEW i \in DOMAIN clauses, DuplicateFree(clauses[i].literals),
             \E l \in AssignedByCall : clauses[i].literals[-l] > 0
      PROVE  Handled(stack, i)'
  BY <1>3, PropagationHandles DEF SaturationInv
<1> QED BY <1>1, <1>2, <1>3 DEF SaturationInv, DuplicateFree, Idle

\* The steps of a running propagate() overlook no clause.
LEMMA PropagationStepSaturates ==
  ASSUME Inv, SaturationInv, PropagationStep, ~Idle'
  PROVE  SaturationInv'
<1>1. StoreInv /\ AssignmentInv /\ CallTypeOK
  BY DEF Inv, CallInv
<1>2. result' = "Ok"
  BY PropagationStepInv DEF Inv, CallInv, CallTypeOK, Idle
<1>3. ~Idle
  BY DEF PropagationStep, VisitClause, ReturnFromCall
<1>4. ASSUME NEW j \in ClauseIds, VisitClause(j)
      PROVE  SaturationInv'
  <2> DEFINE callers == Visited(j)
  <2>1. /\ j \in DOMAIN clauses /\ callers \in Seq(Frames)
        /\ callers # <<>> /\ callers[1].literal = stack[1].literal
        /\ Len(callers) \in Nat \ {0}
        /\ \A k : k # j => (ToVisit(stack, k) => ToVisit(callers, k))
    BY <1>1, <1>3, <1>4, VisitedToVisit, VisitedFrames DEF VisitClause
  <2>2. ASSUME NEW l \in KnownLiterals, IsUnit(Unassigned(clauses[j].literals), l),
               Call(l, callers)
        PROVE  SaturationInv'
    <3>1. clauses[j].literals[l] > 0 /\ LiteralValue(l) = "Unknown"
      BY <1>1, <2>1, <2>2, BagFacts DEF IsUnit, Unassigned
    <3>2. CallAssigns(l, callers)
      BY <1>2, <2>2, <3>1 DEF Call, CallAssigned, CallRefused, Abort
    <3>3. /\ l \in Literals /\ RecordAssignment(l)
          /\ stack' = Append(callers, [literal |-> l, todo |-> occurrences[-l]])
      BY <1>2, <3>2 DEF CallAssigns, ConflictVerdicts, Abort
    <3>4. stack'[1].literal = stack[1].literal
      <4>1. stack'[1] = callers[1]
        BY <2>1, <3>3
      <4> QED BY <2>1, <4>1
    <3>5. AssignedByCall' \subseteq AssignedByCall \cup {l}
      BY <1>1, <3>1, <3>3, <3>4, NestedCallAssigns
    <3>6. ASSUME NEW i \in DOMAIN clauses, DuplicateFree(clauses[i].literals),
                 NEW k \in AssignedByCall, clauses[i].literals[-k] > 0
          PROVE  Handled(stack, i)'
      <4>1. Handled(stack, i)
        BY <1>3, <3>6 DEF SaturationInv
      <4> QED BY <1>2, <3>6, <4>1, PropagationHandles
    <3>7. MarkSatisfied(occurrences[l])
      BY <3>2, <1>2 DEF CallAssigns, Abort
    <3>8. /\ DOMAIN clauses' = DOMAIN clauses
          /\ \A i \in DOMAIN clauses : clauses'[i].literals = clauses[i].literals
      BY <1>1, <3>7, MarkSatisfiedKeepsLiterals
    <3>9. ASSUME NEW i \in DOMAIN clauses, DuplicateFree(clauses[i].literals),
                 clauses[i].literals[-l] > 0
          PROVE  Handled(stack, i)'
      BY <1>1, <1>2, <2>1, <3>2, <3>9, AssignmentHandles
    <3> QED BY <3>5, <3>6, <3>8, <3>9 DEF SaturationInv, DuplicateFree
  <2>3. CASE stack' = callers /\ UNCHANGED <<store, assignment, result>>
    BY <1>2, <1>3, <2>1, <2>3, QuietStepSaturates
  <2> QED BY <1>4, <2>2, <2>3 DEF VisitClause
<1>5. CASE ReturnFromCall
  <2> DEFINE n == Len(stack)
  <2>1. /\ stack' = SubSeq(stack, 1, n - 1) /\ n \in Nat \ {0}
        /\ SubSeq(stack, 1, n - 1) \in Seq(Frames)
        /\ Len(SubSeq(stack, 1, n - 1)) = n - 1
        /\ \A d \in 1 .. n - 1 : SubSeq(stack, 1, n - 1)[d] = stack[d]
    BY <1>1, <1>3, <1>5, StackWithoutTop DEF ReturnFromCall
  <2>2. n - 1 # 0
    BY <2>1, EmptySeq DEF Idle
  <2>3. stack'[1] = stack[1]
    BY <2>1, <2>2
  <2> QED BY <1>2, <1>3, <1>5, <2>3, QuietStepSaturates DEF ReturnFromCall
<1> QED BY <1>4, <1>5 DEF PropagationStep

\* No call in progress overlooks a clause.
LEMMA SaturationInductive == Inv /\ SaturationInv /\ [Next]_vars => SaturationInv'
<1> SUFFICES ASSUME Inv, SaturationInv, [Next]_vars, ~Idle' PROVE SaturationInv'
  BY DEF SaturationInv
<1>1. Inv'
  BY InvInductive
<1>2. ASSUME NEW l \in KnownLiterals, StartPropagation(l)
      PROVE  SaturationInv'
  <2>1. CallAssigns(l, <<>>) /\ result' = "Ok"
    BY <1>1, <1>2 DEF StartPropagation, Call, CallAssigned, CallRefused, Abort, Idle, Inv, CallInv,
      CallTypeOK
  <2>2. /\ l \in Literals /\ LiteralValue(l) = "Unknown" /\ RecordAssignment(l)
        /\ MarkSatisfied(occurrences[l])
        /\ stack' = Append(<<>>, [literal |-> l, todo |-> occurrences[-l]])
    BY <2>1 DEF CallAssigns, ConflictVerdicts, Abort
  <2>3. stack'[1].literal = l
    BY <2>2
  <2>4. AssignedByCall' \subseteq {l}
    BY <2>2, <2>3, FirstCallAssigns DEF Inv
  <2>5. /\ DOMAIN clauses' = DOMAIN clauses
        /\ \A i \in DOMAIN clauses : clauses'[i].literals = clauses[i].literals
    BY <2>2, MarkSatisfiedKeepsLiterals DEF Inv
  <2>6. ASSUME NEW i \in DOMAIN clauses, DuplicateFree(clauses[i].literals),
               clauses[i].literals[-l] > 0
        PROVE  Handled(stack, i)'
    BY <2>1, <2>6, AssignmentHandles, EmptySeq DEF Inv
  <2> QED BY <2>4, <2>5, <2>6 DEF SaturationInv, DuplicateFree
<1>3. CASE PropagationStep
  BY <1>3, PropagationStepSaturates
<1>4. CASE UNCHANGED vars
  <2>1. UNCHANGED <<clauses, occurrences, values, trail, stack, result>>
    BY <1>4 DEF vars
  <2> QED BY <2>1 DEF SaturationInv, Idle, DuplicateFree, AssignedByCall, Handled, ToVisit, Alive,
    Settled, Unassigned, IsTrue, LiteralValue
<1>5. CASE \/ \E i \in ClauseIds, bag \in OfferedClauses : AddClause(i, bag)
           \/ \E i \in ClauseIds : RemoveClause(i)
           \/ \E l \in Literals : RemoveLiteralFromClauses(l)
  BY <1>5 DEF AddClause, RemoveClause, RemoveLiteralFromClauses, Idle
<1> QED BY <1>2, <1>3, <1>4, <1>5 DEF Next

\* The step that ends propagate() with Ok is the return of the outermost call.
LEMMA OutermostReturns ==
  ASSUME Inv, [Next]_vars, ~Idle, Idle', result' = "Ok"
  PROVE  \A i : ~ToVisit(stack, i)
<1>1. CallTypeOK
  BY DEF Inv, CallInv
<1>2. PropagationStep
  BY DEF Next, vars, AddClause, RemoveClause, RemoveLiteralFromClauses, StartPropagation, Idle
<1>3. ASSUME NEW j \in ClauseIds, VisitClause(j)
      PROVE  FALSE
  <2>1. Visited(j) \in Seq(Frames) /\ Visited(j) # <<>>
    BY <1>1, VisitedToVisit
  <2>2. PICK l \in KnownLiterals : Call(l, Visited(j))
    BY <1>3, <2>1 DEF VisitClause, Idle
  <2>3. CallAssigns(l, Visited(j))
    BY <2>1, <2>2 DEF Call, CallAssigned, CallRefused, Abort, Idle
  <2>4. stack' = Append(Visited(j), [literal |-> l, todo |-> occurrences[-l]])
    BY <2>3 DEF CallAssigns, Abort
  <2> QED BY <2>1, <2>4 DEF Idle
<1>4. CASE ReturnFromCall
  <2> DEFINE n == Len(stack)
  <2>1. /\ n \in Nat \ {0} /\ Len(stack') = n - 1 /\ stack[n].todo = {}
    BY <1>1, <1>4, StackWithoutTop DEF ReturnFromCall, Top
  <2>2. n = 1
    BY <2>1, EmptySeq DEF Idle
  <2> QED BY <2>1, <2>2 DEF ToVisit
<1> QED BY <1>2, <1>3, <1>4 DEF PropagationStep

\* What holds when the outermost call returns Ok.
LEMMA ReturnSaturates ==
  Inv /\ SaturationInv /\ [Next]_vars
    => ((~Idle /\ Idle' /\ result' = "Ok") =>
         \A i \in DOMAIN clauses : \A l \in AssignedByCall :
           (clauses[i].literals[-l] > 0 /\ DuplicateFree(clauses[i].literals))
             => Settled(clauses[i].literals))
  BY OutermostReturns DEF SaturationInv, Handled

\* When propagate() returns Ok, every clause without duplicates that lost a literal in
\* the call is true or has two literals left: in whatever order the calls visit the
\* clauses, no unit clause and no falsified clause is overlooked.
THEOREM PropagationIsSaturated == Spec => PropagationSaturates
<1>1. Init => SaturationInv
  BY DEF Init, SaturationInv, Idle
<1>2. Inv /\ SaturationInv /\ [Next]_vars => SaturationInv'
  BY SaturationInductive
<1>3. Spec => []Inv
  BY Invariance
<1> QED BY <1>1, <1>2, <1>3, ReturnSaturates, PTL DEF Spec, PropagationSaturates
-----------------------------------------------------------------------------
(* A conflict is real.                                                     *)

\* A total assignment that makes the literals of the trail true.
Extends(total) ==
  \A p \in 1 .. Len(trail) : total[Variable(trail[p])] = SatisfyingValue(trail[p])

\* What a call in progress has assigned follows from its premises, unless it was misled.
SoundnessInv ==
  ~Idle => MisledCall \/ \A total \in TotalAssignments : Solves(total) => Extends(total)

\* What propagate() takes for a unit clause is down to its literal at that moment.
LEMMA UnitIsDownTo ==
  ASSUME StoreInv, AssignmentInv, NEW i \in DOMAIN clauses, NEW l \in Literals,
         IsUnit(Unassigned(clauses[i].literals), l)
  PROVE  DownTo(i, l, Len(trail) + 1)
<1> DEFINE bag == clauses[i].literals
<1>1. /\ bag \in [KnownLiterals -> Nat] /\ l \in KnownLiterals
      /\ \A k \in KnownLiterals : bag[k] > 0 => k \in Literals
      /\ Len(trail) \in Nat
  BY BagFacts, LiteralFacts, LenProperties DEF AssignmentInv, AssignmentTypeOK
<1>2. bag[l] = 1 /\ LiteralValue(l) = "Unknown"
  BY <1>1 DEF IsUnit, Unassigned
<1>3. \A q \in 1 .. Len(trail) + 1 - 1 : Variable(trail[q]) # Variable(l)
  BY <1>1, <1>2, UnassignedNotOnTrail
<1>4. ASSUME NEW k \in KnownLiterals \ {l}, bag[k] > 0
      PROVE  \E q \in 1 .. Len(trail) + 1 - 1 : Variable(trail[q]) = Variable(k)
  <2>1. k \in Literals /\ LiteralValue(k) # "Unknown"
    <3>1. Unassigned(bag)[k] = 0 /\ k \in Literals /\ k \in KnownLiterals
      BY <1>1, <1>4 DEF IsUnit
    <3>2. Unassigned(bag)[k] = IF LiteralValue(k) = "Unknown" THEN bag[k] ELSE 0
      BY <3>1 DEF Unassigned
    <3>3. bag[k] # 0
      BY <1>4
    <3> QED BY <3>1, <3>2, <3>3
  <2>2. Variable(k) \in Variables /\ values[Variable(k)] # "Unknown"
    BY <2>1, LiteralFacts DEF LiteralValue
  <2> QED BY <1>1, <2>2 DEF AssignmentInv, TrailMatchesValues
<1>5. LeftBefore(i, Len(trail) + 1) = {l}
  <2>1. bag[l] > 0
    BY <1>2
  <2>2. ASSUME NEW k \in LeftBefore(i, Len(trail) + 1)
        PROVE  k = l
    BY <1>4, <2>2 DEF LeftBefore
  <2>3. l \in LeftBefore(i, Len(trail) + 1)
    BY <1>1, <1>3, <2>1 DEF LeftBefore
  <2> QED BY <2>2, <2>3
<1> QED BY <1>2, <1>5 DEF DownTo

\* A literal is determined by its variable and the value that makes it true.
LEMMA SameLiteral ==
  ASSUME NEW k \in Literals, NEW l \in Literals,
         Variable(k) = Variable(l), SatisfyingValue(k) = SatisfyingValue(l)
  PROVE  k = l
  BY DEF Literals, Variable, SatisfyingValue

\* The last literal of a clause that is not satisfied is true in every solution.
LEMMA UnitForces ==
  ASSUME StoreInv, AssignmentInv, NEW i \in DOMAIN clauses, NEW l \in Literals,
         DownTo(i, l, Len(trail) + 1), ~SatisfiedBefore(i, Len(trail) + 1),
         NEW total \in TotalAssignments, Satisfies(total, clauses[i].literals), Extends(total)
  PROVE  total[Variable(l)] = SatisfyingValue(l)
<1>1. PICK m \in Literals :
        clauses[i].literals[m] > 0 /\ total[Variable(m)] = SatisfyingValue(m)
  BY DEF Satisfies
<1>2. m \in KnownLiterals /\ Len(trail) \in Nat /\ Len(trail) + 1 - 1 = Len(trail)
  BY LiteralFacts, LenProperties DEF AssignmentInv, AssignmentTypeOK
<1>3. ASSUME NEW q \in 1 .. Len(trail), Variable(trail[q]) = Variable(m)
      PROVE  FALSE
  <2>1. trail[q] \in Literals /\ total[Variable(trail[q])] = SatisfyingValue(trail[q])
    BY DEF Extends, AssignmentInv, AssignmentTypeOK
  <2>2. trail[q] = m
    BY <1>1, <1>3, <2>1, SameLiteral
  <2> QED BY <1>1, <1>2, <2>2 DEF SatisfiedBefore
<1>4. m \in LeftBefore(i, Len(trail) + 1)
  BY <1>1, <1>2, <1>3 DEF LeftBefore
<1> QED BY <1>1, <1>4 DEF DownTo

\* What a trail says of an earlier moment does not change when it grows.
LEMMA EarlierMomentsStay ==
  ASSUME DOMAIN clauses' = DOMAIN clauses,
         \A i \in DOMAIN clauses : clauses'[i].literals = clauses[i].literals,
         NEW p \in Nat, \A q \in 1 .. p - 1 : trail'[q] = trail[q],
         NEW l, Misled(l, p)
  PROVE  Misled(l, p)'
<1>1. ASSUME NEW i \in DOMAIN clauses
      PROVE  /\ DownTo(i, l, p)' <=> DownTo(i, l, p)
             /\ SatisfiedBefore(i, p)' <=> SatisfiedBefore(i, p)
  <2>1. LeftBefore(i, p)' = LeftBefore(i, p)
    BY DEF LeftBefore
  <2> QED BY <2>1 DEF DownTo, SatisfiedBefore
<1> QED BY <1>1 DEF Misled

\* A call that was misled stays so; one that assigns a literal without a reason becomes so.
LEMMA MisledFromNowOn ==
  ASSUME AssignmentInv, NEW l \in Literals, LiteralValue(l) = "Unknown", RecordAssignment(l),
         DOMAIN clauses' = DOMAIN clauses,
         \A i \in DOMAIN clauses : clauses'[i].literals = clauses[i].literals,
         stack'[1].literal = stack[1].literal,
         \E r \in 1 .. Len(trail) : trail[r] = stack[1].literal,
         MisledCall \/ Misled(l, Len(trail) + 1)
  PROVE  MisledCall'
<1> DEFINE n == Len(trail)
<1>1. /\ Len(trail') = n + 1 /\ trail'[n + 1] = l /\ n \in Nat
      /\ \A p \in 1 .. n : trail'[p] = trail[p]
  BY RecordAssignmentInv, LenProperties DEF AssignmentInv, AssignmentTypeOK
<1> HIDE DEF n
<1>2. ASSUME NEW p \in 1 .. n + 1, NEW k, k = trail'[p], Misled(k, p), k # stack[1].literal,
             \E r \in 1 .. p : r \in 1 .. n + 1 /\ trail'[r] = stack[1].literal
      PROVE  MisledCall'
  <2>1. Misled(k, p)'
    BY <1>1, <1>2, EarlierMomentsStay
  <2>2. trail'[p] \in AssignedByCall' \ {stack'[1].literal} /\ p \in 1 .. Len(trail')
    BY <1>1, <1>2 DEF AssignedByCall
  <2>3. Misled(trail[p], p)'
    BY <1>2, <2>1 DEF Misled, DownTo, LeftBefore, SatisfiedBefore
  <2> QED BY <2>2, <2>3 DEF MisledCall
<1>3. CASE Misled(l, n + 1)
  <2>1. l # stack[1].literal
    BY UnassignedNotOnTrail
  <2> QED BY <1>1, <1>2, <1>3, <2>1 DEF n
<1>4. CASE MisledCall
  <2>1. PICK p \in 1 .. n :
          /\ trail[p] \in AssignedByCall \ {stack[1].literal}
          /\ Misled(trail[p], p)
    BY <1>4 DEF MisledCall, n
  <2>2. \E r \in 1 .. p : trail[r] = stack[1].literal
    <3>1. PICK q \in 1 .. n : /\ \E r \in 1 .. q : trail[r] = stack[1].literal
                              /\ trail[p] = trail[q]
      BY <2>1 DEF AssignedByCall, n
    <3>2. p = q
      BY <3>1 DEF n, AssignmentInv, TrailMatchesValues
    <3> QED BY <3>1, <3>2
  <2>3. trail'[p] = trail[p]
    BY <1>1
  <2> QED BY <1>1, <1>2, <2>1, <2>2, <2>3
<1> QED BY <1>3, <1>4 DEF n

\* The literal of the outermost call is on the trail.
LEMMA OutermostOnTrail ==
  ASSUME CallInv, ~Idle
  PROVE  \E r \in 1 .. Len(trail) : trail[r] = stack[1].literal
<1>1. stack \in Seq(Frames) /\ stack # <<>>
  BY DEF CallInv, CallTypeOK, Idle
<1>2. 1 \in 1 .. Len(stack)
  BY <1>1, EmptySeq, LenProperties
<1> QED BY <1>2 DEF CallInv, CallersOK

\* The step of a call that assigns a literal its clause forces, or seems to force.
LEMMA ForcedCallSound ==
  ASSUME Inv, SoundnessInv, ~Idle, NEW j \in DOMAIN clauses, NEW l \in Literals,
         IsUnit(Unassigned(clauses[j].literals), l), NEW callers, CallAssigns(l, callers),
         stack'[1].literal = stack[1].literal
  PROVE  SoundnessInv'
<1> DEFINE n == Len(trail)
<1>1. /\ StoreInv /\ AssignmentInv /\ LiteralValue(l) = "Unknown" /\ RecordAssignment(l)
      /\ \E r \in 1 .. n : trail[r] = stack[1].literal
  BY OutermostOnTrail DEF Inv, CallAssigns
<1>2. \E S : MarkSatisfied(S)
  BY DEF CallAssigns
<1>3. /\ DOMAIN clauses' = DOMAIN clauses
      /\ \A i \in DOMAIN clauses : clauses'[i].literals = clauses[i].literals
  BY <1>1, <1>2, MarkSatisfiedKeepsLiterals
<1>4. DownTo(j, l, n + 1)
  BY <1>1, UnitIsDownTo
<1>5. CASE MisledCall \/ Misled(l, n + 1)
  BY <1>1, <1>3, <1>5, MisledFromNowOn DEF SoundnessInv
<1>6. CASE ~MisledCall /\ ~Misled(l, n + 1)
  <2>1. /\ Len(trail') = n + 1 /\ trail'[n + 1] = l
        /\ \A p \in 1 .. n : trail'[p] = trail[p]
        /\ n \in Nat
    BY <1>1, RecordAssignmentInv, LenProperties DEF AssignmentInv, AssignmentTypeOK
  <2>2. AssignedByCall' \subseteq AssignedByCall \cup {l}
    BY <1>1, NestedCallAssigns
  <2>3. Premises \subseteq Premises'
    <3>1. \A p \in 1 .. n : trail[p] # l /\ p \in 1 .. Len(trail')
      BY <1>1, <2>1, UnassignedNotOnTrail
    <3> QED BY <2>1, <2>2, <3>1 DEF Premises
  <2>4. PICK i \in DOMAIN clauses : DownTo(i, l, n + 1) /\ ~SatisfiedBefore(i, n + 1)
    BY <1>4, <1>6 DEF Misled
  <2>5. ASSUME NEW total \in TotalAssignments, Solves(total)'
        PROVE  Extends(total)'
    <3>1. Solves(total)
      BY <2>3, <1>3, <2>5 DEF Solves, Satisfies
    <3>2. Extends(total)
      BY <1>6, <3>1 DEF SoundnessInv
    <3>3. total[Variable(l)] = SatisfyingValue(l)
      BY <1>1, <2>4, <3>1, <3>2, UnitForces DEF Solves
    <3>4. \A p \in 1 .. n + 1 : p \in 1 .. n \/ p = n + 1
      BY <2>1
    <3> QED BY <2>1, <3>2, <3>3, <3>4 DEF Extends
  <2> QED BY <2>5 DEF SoundnessInv, TotalAssignments, Variables
<1> QED BY <1>5, <1>6

\* A step of propagate() that does not assign changes nothing about the assignment.
LEMMA QuietStepSound ==
  ASSUME SoundnessInv, ~Idle, UNCHANGED <<store, assignment>>,
         stack' # <<>> => stack'[1].literal = stack[1].literal
  PROVE  SoundnessInv'
<1>1. clauses' = clauses /\ trail' = trail /\ values' = values
  BY DEF store, assignment
<1>2. SUFFICES ASSUME stack'[1].literal = stack[1].literal PROVE SoundnessInv'
  BY DEF SoundnessInv, Idle
<1>3. Premises' = Premises
  BY <1>1, <1>2 DEF Premises, AssignedByCall
<1>4. MisledCall => MisledCall'
  <2>1. AssignedByCall' = AssignedByCall
    BY <1>1, <1>2 DEF AssignedByCall
  <2>2. \A p \in 1 .. Len(trail) : Misled(trail[p], p)' <=> Misled(trail[p], p)
    BY <1>1 DEF Misled, DownTo, LeftBefore, SatisfiedBefore
  <2> QED BY <1>1, <1>2, <2>1, <2>2 DEF MisledCall
<1>5. \A total : (Solves(total)' => Solves(total)) /\ (Extends(total) => Extends(total)')
  BY <1>1, <1>3 DEF Solves, Extends, Satisfies
<1> QED BY <1>4, <1>5 DEF SoundnessInv, TotalAssignments, Variables

\* What a visit of a clause that calls propagate() does.
LEMMA VisitCalls ==
  ASSUME Inv, ~Idle, NEW j \in DOMAIN clauses, NEW l \in KnownLiterals,
         IsUnit(Unassigned(clauses[j].literals), l), Call(l, Visited(j))
  PROVE  /\ l \in Literals
         /\ \/ CallRefused(l)
            \/ /\ CallAssigns(l, Visited(j))
               /\ ~Idle' => stack'[1].literal = stack[1].literal
<1>1. StoreInv /\ CallTypeOK
  BY DEF Inv, CallInv
<1>2. clauses[j].literals[l] > 0 /\ LiteralValue(l) = "Unknown"
  BY <1>1, BagFacts DEF IsUnit, Unassigned
<1>3. l \in Literals
  BY <1>1, <1>2, BagFacts
<1>4. /\ Visited(j) \in Seq(Frames) /\ Visited(j)[1].literal = stack[1].literal
      /\ Len(Visited(j)) \in Nat \ {0}
  BY <1>1, VisitedToVisit, VisitedFrames
<1>5. ASSUME CallAssigns(l, Visited(j)), ~Idle'
      PROVE  stack'[1].literal = stack[1].literal
  <2>1. stack' = Append(Visited(j), [literal |-> l, todo |-> occurrences[-l]])
    BY <1>5 DEF CallAssigns, Abort, Idle
  <2>2. stack'[1] = Visited(j)[1]
    BY <1>4, <2>1
  <2> QED BY <1>4, <2>2
<1> QED BY <1>2, <1>3, <1>5 DEF Call, CallAssigned

\* A call in progress assigns nothing but consequences of its premises.
LEMMA SoundnessInductive == Inv /\ SoundnessInv /\ [Next]_vars => SoundnessInv'
<1> SUFFICES ASSUME Inv, SoundnessInv, [Next]_vars, ~Idle' PROVE SoundnessInv'
  BY DEF SoundnessInv
<1>1. /\ Inv' /\ StoreInv /\ AssignmentInv /\ CallTypeOK
      /\ result' = "Ok"
  BY InvInductive DEF Inv, CallInv, CallTypeOK, Idle
<1>2. ASSUME NEW l \in KnownLiterals, StartPropagation(l)
      PROVE  SoundnessInv'
  <2>1. CallAssigns(l, <<>>)
    BY <1>1, <1>2 DEF StartPropagation, Call, CallAssigned, CallRefused, Abort, Idle
  <2>2. /\ l \in Literals /\ LiteralValue(l) = "Unknown" /\ RecordAssignment(l)
        /\ stack' = Append(<<>>, [literal |-> l, todo |-> occurrences[-l]])
    BY <1>1, <2>1 DEF CallAssigns, ConflictVerdicts, Abort
  <2>3. stack'[1].literal = l
    BY <2>2
  <2>4. AssignedByCall' \subseteq {l}
    BY <1>1, <2>2, <2>3, FirstCallAssigns
  <2>5. \A p \in 1 .. Len(trail') : trail'[p] \in Premises'
    BY <2>3, <2>4 DEF Premises
  <2> QED BY <2>5 DEF SoundnessInv, Solves, Extends
<1>3. ASSUME NEW j \in ClauseIds, VisitClause(j)
      PROVE  SoundnessInv'
  <2>1. /\ ~Idle /\ j \in DOMAIN clauses
        /\ Visited(j)[1].literal = stack[1].literal
    BY <1>1, <1>3, VisitedToVisit DEF VisitClause
  <2>2. ASSUME NEW l \in KnownLiterals, IsUnit(Unassigned(clauses[j].literals), l),
               Call(l, Visited(j))
        PROVE  SoundnessInv'
    <3>1. /\ l \in Literals /\ CallAssigns(l, Visited(j))
          /\ stack'[1].literal = stack[1].literal
      BY <1>1, <2>1, <2>2, VisitCalls DEF CallRefused, Abort
    <3> QED BY <2>1, <2>2, <3>1, ForcedCallSound
  <2>3. CASE stack' = Visited(j) /\ UNCHANGED <<store, assignment, result>>
    BY <2>1, <2>3, QuietStepSound
  <2> QED BY <1>3, <2>2, <2>3 DEF VisitClause
<1>4. CASE ReturnFromCall
  <2> DEFINE n == Len(stack)
  <2>1. /\ ~Idle /\ stack' = SubSeq(stack, 1, n - 1) /\ n \in Nat \ {0}
        /\ SubSeq(stack, 1, n - 1) \in Seq(Frames)
        /\ Len(SubSeq(stack, 1, n - 1)) = n - 1
        /\ \A d \in 1 .. n - 1 : SubSeq(stack, 1, n - 1)[d] = stack[d]
    BY <1>1, <1>4, StackWithoutTop DEF ReturnFromCall
  <2>2. n - 1 # 0
    BY <2>1, EmptySeq DEF Idle
  <2>3. stack'[1] = stack[1]
    BY <2>1, <2>2
  <2> QED BY <1>4, <2>1, <2>3, QuietStepSound DEF ReturnFromCall
<1>5. CASE UNCHANGED vars
  <2>1. UNCHANGED <<store, assignment, stack>>
    BY <1>5 DEF vars, store, assignment
  <2> QED BY <2>1, QuietStepSound DEF Idle
<1>6. CASE \/ \E i \in ClauseIds, bag \in OfferedClauses : AddClause(i, bag)
           \/ \E i \in ClauseIds : RemoveClause(i)
           \/ \E l \in Literals : RemoveLiteralFromClauses(l)
  BY <1>6 DEF AddClause, RemoveClause, RemoveLiteralFromClauses, Idle
<1> QED BY <1>2, <1>3, <1>4, <1>5, <1>6 DEF Next, PropagationStep

\* The step that ends a call with Conflict met a clause that is down to a literal, and
\* another that is down to its negation.
LEMMA ConflictMeetsTwo ==
  ASSUME Inv, [Next]_vars, ~Idle, Idle', result' = "Conflict"
  PROVE  \E i \in Top.todo \cap DOMAIN clauses, j \in DOMAIN clauses, l \in Literals :
           DownTo(i, l, Len(trail) + 1) /\ DownTo(j, -l, Len(trail) + 1)
<1>1. PropagationStep
  BY DEF Next, vars, AddClause, RemoveClause, RemoveLiteralFromClauses, StartPropagation, Idle
<1>2. PICK i \in ClauseIds : VisitClause(i)
  BY <1>1 DEF PropagationStep, ReturnFromCall
<1>3. i \in Top.todo \cap DOMAIN clauses /\ result = "Ok"
  BY <1>2 DEF VisitClause, Inv, CallInv, CallTypeOK, Idle
<1>4. PICK l \in KnownLiterals : IsUnit(Unassigned(clauses[i].literals), l) /\ Call(l, Visited(i))
  BY <1>2, <1>3 DEF VisitClause
<1>5. l \in Literals /\ (CallRefused(l) \/ CallAssigns(l, Visited(i)))
  BY <1>3, <1>4, VisitCalls
<1>6. CallRefused(l)
  BY <1>5 DEF CallAssigns, Abort
<1>7. ConflictingClauses(l) # {}
  BY <1>6 DEF CallRefused, Abort, ConflictVerdicts
<1>8. PICK j \in DOMAIN clauses : IsUnit(Unassigned(clauses[j].literals), -l)
  BY <1>7 DEF ConflictingClauses
<1>9. -l \in Literals /\ StoreInv /\ AssignmentInv
  BY <1>5, LiteralFacts DEF Inv
<1>10. DownTo(i, l, Len(trail) + 1)
  BY <1>3, <1>4, <1>5, <1>9, UnitIsDownTo
<1>11. DownTo(j, -l, Len(trail) + 1)
  BY <1>8, <1>9, UnitIsDownTo
<1> QED BY <1>3, <1>5, <1>10, <1>11

\* What holds when the outermost call returns Conflict: unless it was misled, no total
\* assignment extends the premises and satisfies the formula.
LEMMA ConflictIsReal ==
  Inv /\ SoundnessInv /\ [Next]_vars
    => ((~Idle /\ Idle' /\ result' = "Conflict") =>
         \/ MisledCall
         \/ MisledVerdict
         \/ ~\E total \in TotalAssignments : Solves(total))
<1> SUFFICES ASSUME Inv, SoundnessInv, [Next]_vars, ~Idle, Idle', result' = "Conflict",
                    ~MisledCall, ~MisledVerdict, NEW total \in TotalAssignments, Solves(total)
             PROVE  FALSE
  OBVIOUS
<1> DEFINE n == Len(trail)
<1>1. StoreInv /\ AssignmentInv /\ Extends(total)
  BY DEF Inv, SoundnessInv
<1>2. PICK i \in Top.todo \cap DOMAIN clauses, j \in DOMAIN clauses, l \in Literals :
        DownTo(i, l, n + 1) /\ DownTo(j, -l, n + 1)
  BY ConflictMeetsTwo
<1>3. /\ -l \in Literals /\ Variable(-l) = Variable(l) /\ SatisfyingValue(-l) # SatisfyingValue(l)
      /\ i \in DOMAIN clauses
  BY <1>2, LiteralFacts DEF SatisfyingValue, Literals
<1>4. ~Misled(l, n + 1) /\ ~Misled(-l, n + 1)
  BY <1>2 DEF MisledVerdict
<1>5. PICK f \in DOMAIN clauses : DownTo(f, l, n + 1) /\ ~SatisfiedBefore(f, n + 1)
  BY <1>2, <1>3, <1>4 DEF Misled
<1>6. PICK g \in DOMAIN clauses : DownTo(g, -l, n + 1) /\ ~SatisfiedBefore(g, n + 1)
  BY <1>2, <1>4 DEF Misled
<1>7. total[Variable(l)] = SatisfyingValue(l)
  BY <1>1, <1>5, UnitForces DEF Solves
<1>8. total[Variable(-l)] = SatisfyingValue(-l)
  BY <1>1, <1>3, <1>6, UnitForces DEF Solves
<1> QED BY <1>3, <1>7, <1>8

\* propagate() ignores that an assigned literal may satisfy a clause.  Unless a satisfied
\* clause with one literal left was the only reason to assign a literal in the call, or the
\* only one for a side of the conflict, a Conflict is real at every depth of the recursion:
\* the premises of the call have no model of the formula among their extensions.
THEOREM ConflictsAreReal == Spec => ConflictRealUnlessMisled
<1>1. Init => SoundnessInv
  BY DEF Init, SoundnessInv, Idle
<1>2. Inv /\ SoundnessInv /\ [Next]_vars => SoundnessInv'
  BY SoundnessInductive
<1>3. Spec => []Inv
  BY Invariance
<1> QED BY <1>1, <1>2, <1>3, ConflictIsReal, PTL DEF Spec, ConflictRealUnlessMisled
-----------------------------------------------------------------------------
(***************************************************************************)
(* Why a blocked clause may be removed: from a total assignment that       *)
(* satisfies the other clauses one gets an assignment that satisfies all   *)
(* of them by making the literals of the blocking set true.                *)
(***************************************************************************)
Holds(total, l) == total[Variable(l)] = SatisfyingValue(l)

\* The assignment that differs from total in making the literals of lits true.
MadeTrue(total, lits) ==
  [v \in Variables |-> IF v \in lits THEN "High" ELSE IF -v \in lits THEN "Low" ELSE total[v]]
-----------------------------------------------------------------------------
(* Literals under a total assignment.                                      *)

\* A clause is satisfied by one of its literals.
LEMMA SatisfiesByLiteral ==
  ASSUME NEW total, NEW j \in DOMAIN clauses
  PROVE  Satisfies(total, clauses[j].literals) <=> \E l \in LiteralsOf(j) : Holds(total, l)
  BY DEF Satisfies, LiteralsOf, Holds

\* A total assignment makes exactly one of a literal and its negation true.
LEMMA ExactlyOneHolds ==
  ASSUME NEW total \in TotalAssignments, NEW l \in Literals
  PROVE  /\ -l \in Literals /\ -(-l) = l
         /\ Holds(total, -l) <=> ~Holds(total, l)
<1>1. l \in Int /\ l # 0 /\ -l \in Literals /\ Variable(l) \in Variables /\ Variable(-l) = Variable(l)
  BY LiteralFacts DEF Literals
<1>2. total[Variable(l)] \in {"Low", "High"}
  BY <1>1 DEF TotalAssignments
<1>3. CASE l > 0
  BY <1>1, <1>2, <1>3 DEF Holds, SatisfyingValue
<1>4. CASE l < 0
  BY <1>1, <1>2, <1>4 DEF Holds, SatisfyingValue
<1> QED BY <1>1, <1>3, <1>4

\* Making literals true, none of them the negation of another, changes the truth of
\* these literals and of their negations only.
LEMMA MadeTrueHolds ==
  ASSUME NEW total \in TotalAssignments, NEW lits \in SUBSET Literals,
         \A l \in lits : -l \notin lits
  PROVE  /\ MadeTrue(total, lits) \in TotalAssignments
         /\ \A l \in lits : Holds(MadeTrue(total, lits), l)
         /\ \A l \in Literals : (Holds(total, l) /\ -l \notin lits) => Holds(MadeTrue(total, lits), l)
<1>1. MadeTrue(total, lits) \in TotalAssignments
  BY DEF MadeTrue, TotalAssignments
<1>2. ASSUME NEW l \in Literals
      PROVE  /\ l \in lits => Holds(MadeTrue(total, lits), l)
             /\ (Holds(total, l) /\ -l \notin lits) => Holds(MadeTrue(total, lits), l)
  <2>1. l \in Int /\ l # 0 /\ Variable(l) \in Variables
    BY LiteralFacts DEF Literals
  <2>2. CASE l > 0
    <3>1. Variable(l) = l /\ SatisfyingValue(l) = "High"
      BY <2>1, <2>2 DEF Variable, SatisfyingValue
    <3> QED BY <2>1, <3>1 DEF MadeTrue, Holds
  <2>3. CASE l < 0
    <3>1. Variable(l) = -l /\ -(-l) = l /\ SatisfyingValue(l) = "Low"
      BY <2>1, <2>3 DEF Variable, SatisfyingValue
    <3> QED BY <2>1, <3>1 DEF MadeTrue, Holds
  <2> QED BY <2>1, <2>2, <2>3
<1> QED BY <1>1, <1>2
-----------------------------------------------------------------------------
(* Removing a blocked clause.                                              *)

\* The literals of a clause are literals of the formula.
LEMMA LiteralsOfType ==
  ASSUME NEW j
  PROVE  LiteralsOf(j) \subseteq Literals
  BY DEF LiteralsOf

\* A clause that an assignment does not satisfy is no tautology.
LEMMA FalsifiedNoTautology ==
  ASSUME NEW total \in TotalAssignments, NEW i \in DOMAIN clauses,
         ~Satisfies(total, clauses[i].literals)
  PROVE  /\ \A l \in LiteralsOf(i) : ~Holds(total, l) /\ Holds(total, -l)
         /\ \A l \in LiteralsOf(i) : -l \notin LiteralsOf(i)
  BY SatisfiesByLiteral, ExactlyOneHolds, LiteralsOfType

\* The heart of the matter: a clause of the formula, other than the one that is not
\* satisfied, stays satisfied when the blocking set is made true.
LEMMA OtherClauseStaysSatisfied ==
  ASSUME NEW total \in TotalAssignments, NEW i \in DOMAIN clauses, NEW lits,
         BlockedBySet(i, lits), ~Satisfies(total, clauses[i].literals),
         NEW j \in DOMAIN clauses, Satisfies(total, clauses[j].literals)
  PROVE  Satisfies(MadeTrue(total, lits), clauses[j].literals)
<1> DEFINE after == MadeTrue(total, lits)
<1>1. /\ lits \in SUBSET Literals /\ lits \subseteq LiteralsOf(i)
      /\ \A l \in LiteralsOf(i) : ~Holds(total, l) /\ Holds(total, -l) /\ -l \notin LiteralsOf(i)
      /\ \A l \in Literals : -l \in Literals /\ -(-l) = l /\ (Holds(total, -l) <=> ~Holds(total, l))
  BY FalsifiedNoTautology, LiteralsOfType, ExactlyOneHolds DEF BlockedBySet
<1>2. /\ \A l \in lits : Holds(after, l)
      /\ \A l \in Literals : (Holds(total, l) /\ -l \notin lits) => Holds(after, l)
  BY <1>1, MadeTrueHolds
<1> HIDE DEF after
<1>3. SUFFICES \E l \in LiteralsOf(j) : Holds(after, l)
  BY SatisfiesByLiteral DEF after
<1>4. PICK m \in LiteralsOf(j) : Holds(total, m)
  BY SatisfiesByLiteral
<1>5. CASE -m \notin lits
  BY <1>2, <1>4, <1>5, LiteralsOfType
<1>6. CASE -m \in lits
  <2>1. j \in ResolutionEnvironment(lits)
    BY <1>1, <1>4, <1>6, LiteralsOfType DEF ResolutionEnvironment, Negated
  <2>2. PICK k \in (LiteralsOf(i) \ lits) \cup Negated(lits) \cup LiteralsOf(j) :
           -k \in (LiteralsOf(i) \ lits) \cup Negated(lits) \cup LiteralsOf(j)
    BY <2>1 DEF BlockedBySet, Tautology
  <2>3. k \in Literals /\ -k \in Literals /\ -(-k) = k
    BY <1>1, <2>2, LiteralsOfType DEF Negated
  <2>4. k \in LiteralsOf(j) \/ -k \in LiteralsOf(j)
    BY <1>1, <2>2, <2>3 DEF Negated
  <2>5. \A h \in Literals : h \in Negated(lits) <=> -h \in lits
    BY <1>1 DEF Negated
  <2>6. ASSUME NEW h \in LiteralsOf(j), -h \in (LiteralsOf(i) \ lits) \cup Negated(lits)
        PROVE  Holds(after, h)
    <3>1. h \in Literals /\ -h \in Literals /\ -(-h) = h
      BY <1>1, LiteralsOfType
    <3>2. CASE -h \in Negated(lits)
      BY <1>2, <2>5, <3>1, <3>2
    <3>3. CASE -h \in LiteralsOf(i) \ lits
      BY <1>1, <1>2, <3>1, <3>3
    <3> QED BY <2>6, <3>2, <3>3
  <2>7. CASE k \in LiteralsOf(j) /\ -k \in LiteralsOf(j)
    \* One of the two is true before, and one is not the negation of a blocking literal.
    <3>1. PICK h \in {k, -k} : -h \notin lits /\ (Holds(total, h) \/ h \in lits)
      BY <1>1, <2>3, LiteralsOfType
    <3> QED BY <1>2, <2>3, <2>7, <3>1
  <2> QED BY <2>2, <2>3, <2>4, <2>6, <2>7
<1> QED BY <1>5, <1>6

\* A clause with a blocking set may be removed from any part of the formula it belongs
\* to: what is blocked in the whole formula is blocked in each part of it.
LEMMA SetBlockedClauseIsRedundantInPart ==
  ASSUME NEW ids \in SUBSET DOMAIN clauses, NEW i \in DOMAIN clauses, NEW lits,
         BlockedBySet(i, lits), Satisfiable(ids \ {i})
  PROVE  Satisfiable(ids)
<1>1. PICK total \in TotalAssignments : SatisfiesClauses(total, ids \ {i})
  BY DEF Satisfiable
<1>2. CASE Satisfies(total, clauses[i].literals)
  BY <1>1, <1>2 DEF Satisfiable, SatisfiesClauses
<1>3. CASE ~Satisfies(total, clauses[i].literals)
  <2>1. /\ lits # {} /\ lits \subseteq LiteralsOf(i) /\ lits \in SUBSET Literals
        /\ \A l \in lits : -l \notin lits
    BY <1>3, FalsifiedNoTautology, LiteralsOfType DEF BlockedBySet
  <2>2. MadeTrue(total, lits) \in TotalAssignments /\ \A l \in lits : Holds(MadeTrue(total, lits), l)
    BY <2>1, MadeTrueHolds
  <2>3. Satisfies(MadeTrue(total, lits), clauses[i].literals)
    BY <2>1, <2>2, SatisfiesByLiteral
  <2>4. \A j \in ids : Satisfies(MadeTrue(total, lits), clauses[j].literals)
    BY <1>1, <1>3, <2>3, OtherClauseStaysSatisfied DEF SatisfiesClauses
  <2> QED BY <2>2, <2>4 DEF Satisfiable, SatisfiesClauses
<1> QED BY <1>2, <1>3

\* A clause with a blocking set may be removed: the rest of the formula is satisfiable
\* only if the formula is.
THEOREM SetBlockedClauseIsRedundant ==
  ASSUME NEW i \in DOMAIN clauses, NEW lits, BlockedBySet(i, lits)
  PROVE  RemovalPreservesUnsatisfiability(i)
  BY SetBlockedClauseIsRedundantInPart DEF RemovalPreservesUnsatisfiability

\* A blocking literal is a blocking set of size one.
LEMMA BlockingLiteralIsBlockingSet ==
  ASSUME NEW i, NEW l, BlockedByLiteral(i, l)
  PROVE  BlockedBySet(i, {l})
  BY DEF BlockedByLiteral, BlockedBySet, Tautology, Negated

\* A clause with a blocking literal may be removed.
THEOREM BlockedClauseIsRedundant ==
  ASSUME NEW i \in DOMAIN clauses, NEW l, BlockedByLiteral(i, l)
  PROVE  RemovalPreservesUnsatisfiability(i)
  BY BlockingLiteralIsBlockingSet, SetBlockedClauseIsRedundant
=============================================================================
