---------------------------- MODULE BinarySearch ----------------------------
(***************************************************************************)
(* The binary searches of binarySearchUtils.hpp in sorted vectors: for an  *)
(* element, for the position where it is inserted, and for the position    *)
(* where the elements up to it stop.  One behaviour is one call, one step  *)
(* one iteration of its loop.  Positions are of type size_t: the           *)
(* predecessor of 0 is SIZE_MAX.                                           *)
(***************************************************************************)
EXTENDS Integers, Sequences

CONSTANTS
  Elements,    \* ElemType
  MaxSize,     \* bound: the size of a container
  SizeMax,     \* SIZE_MAX
  NotFound     \* std::nullopt

\* A container has fewer elements than there are positions.
ASSUME SearchAssumption ==
  /\ Elements \subseteq Int
  /\ MaxSize \in Nat /\ SizeMax \in Nat /\ MaxSize < SizeMax
  /\ NotFound \notin Int

VARIABLES
  search,      \* which of the functions
  order,       \* SortOrder of the container
  container, element,
  low, high,
  phase,       \* "Call", "Loop" or "Return"
  answer

input == <<search, order, container, element>>
vars == <<input, low, high, phase, answer>>

At(i) == container[i + 1]

Precedes(v, w) == IF order = "Descending" THEN v > w ELSE v < w

Sorted == \A i, j \in 1 .. Len(container) : i < j => ~Precedes(container[j], container[i])

SearchInit ==
  /\ search \in {"Element", "InsertPosition", "StopPosition"}
  /\ order \in {"Ascending", "Descending"}
  /\ \E n \in 0 .. MaxSize : container \in [1 .. n -> Elements]
  /\ Sorted
  /\ element \in Elements
  /\ low = 0 /\ high = 0
  /\ phase = "Call" /\ answer = NotFound
-----------------------------------------------------------------------------
IsElementOutsideOfRange ==
  \/ container = <<>>
  \/ Precedes(element, At(0))
  \/ Precedes(At(Len(container) - 1), element)

ReturnEarly == container = <<>> \/ (search = "Element" /\ IsElementOutsideOfRange)

Return(result) ==
  /\ phase' = "Return" /\ answer' = result
  /\ UNCHANGED <<input, low, high>>

\* What is returned when there is nothing (left) to search.
Rest(position) == IF search = "Element" THEN NotFound ELSE position

Start ==
  /\ phase = "Call"
  /\ IF ReturnEarly
     THEN Return(Rest(0))
     ELSE /\ phase' = "Loop"
          /\ low' = 0 /\ high' = Len(container) - 1
          /\ UNCHANGED <<input, answer>>

\* Variant: the check for the wrap-around is missing.
IsWindowOpenUnwrapped == low <= high

IsWindowOpen == low <= high /\ high # SizeMax

Mid == low + ((high - low) \div 2)

\* Variant: the element in the middle stays in the window.
PredecessorSame(i) == i

Predecessor(i) == IF i = 0 THEN SizeMax ELSE i - 1

\* Variant: the stop position is searched like the insert position.
GoesRightStrictly(v) == Precedes(v, element)

\* Whether the position searched for lies to the right of the element v.
GoesRight(v) == Precedes(v, element) \/ (search = "StopPosition" /\ v = element)

IsHit(v) == search = "Element" /\ v = element

Hit ==
  /\ phase = "Loop" /\ IsWindowOpen
  /\ IsHit(At(Mid))
  /\ Return(Mid)

GoRight ==
  /\ phase = "Loop" /\ IsWindowOpen
  /\ ~IsHit(At(Mid)) /\ GoesRight(At(Mid))
  /\ low' = Mid + 1
  /\ UNCHANGED <<input, high, phase, answer>>

GoLeft ==
  /\ phase = "Loop" /\ IsWindowOpen
  /\ ~IsHit(At(Mid)) /\ ~GoesRight(At(Mid))
  /\ high' = Predecessor(Mid)
  /\ UNCHANGED <<input, low, phase, answer>>

LeaveLoop ==
  /\ phase = "Loop" /\ ~IsWindowOpen
  /\ Return(Rest(low))

SearchNext == Start \/ Hit \/ GoRight \/ GoLeft \/ LeaveLoop

SearchSpec == SearchInit /\ [][SearchNext]_vars
-----------------------------------------------------------------------------
(* Properties.                                                             *)

\* Positions stay positions, wrapped or not, and the loop reads inside the container:
\* container.at(mid) never throws.
SearchTypeOK ==
  /\ search \in {"Element", "InsertPosition", "StopPosition"}
  /\ order \in {"Ascending", "Descending"}
  /\ container \in Seq(Elements) /\ Len(container) <= MaxSize
  /\ element \in Elements
  /\ low \in 0 .. MaxSize /\ high \in 0 .. SizeMax
  /\ phase \in {"Call", "Loop", "Return"}
  /\ answer \in 0 .. MaxSize \cup {NotFound}
  /\ phase = "Loop" /\ IsWindowOpen => high < Len(container)

\* An element is found at a position that holds it, and not found only if no position
\* does, with duplicates too; an insert position has all smaller elements before it and
\* no others; a stop position has all elements up to the one given before it and no
\* others.  ("Smaller" is as the container is sorted.)
AnswerCorrect ==
  phase = "Return" =>
    /\ search = "Element" =>
         IF answer = NotFound THEN \A i \in 1 .. Len(container) : container[i] # element
         ELSE answer < Len(container) /\ At(answer) = element
    /\ search = "InsertPosition" =>
         /\ answer \in 0 .. Len(container)
         /\ \A i \in 1 .. Len(container) : i <= answer <=> Precedes(container[i], element)
    /\ search = "StopPosition" =>
         /\ answer \in 0 .. Len(container)
         /\ \A i \in 1 .. Len(container) : i <= answer <=> ~Precedes(element, container[i])

Window == IF IsWindowOpen THEN high - low + 1 ELSE 0

\* Every iteration that goes on at least halves the window, so that a search ends after
\* at most one iteration more than the binary logarithm of the size of the container.
WindowHalves == [][phase = "Loop" /\ phase' = "Loop" => 2 * Window' <= Window]_vars
=============================================================================
