------------------------- MODULE BinarySearchProofs -------------------------
(* The searches of BinarySearch are correct in containers of any size.      *)
EXTENDS BinarySearch, TLAPS

\* What the loop keeps: all elements before the window belong to the left of the position
\* searched for and all after it to its right, and none of them is the one searched for.
Excludes(i, side) == ~IsHit(container[i]) /\ (GoesRight(container[i]) <=> side = "Before")

WindowInv ==
  phase = "Loop" =>
    /\ IF high = SizeMax THEN low = 0 ELSE low <= high + 1 /\ high < Len(container)
    /\ \A i \in 1 .. Len(container) : i <= low => Excludes(i, "Before")
    /\ \A i \in 1 .. Len(container) : high = SizeMax \/ i > high + 1 => Excludes(i, "After")

SearchInv == SearchTypeOK /\ Sorted /\ WindowInv /\ AnswerCorrect

\* The middle is inside an open window, and the parts of the window on both sides of it
\* are at most half of it.
LEMMA MidInWindow ==
  ASSUME SearchTypeOK, phase = "Loop", IsWindowOpen
  PROVE  /\ Mid \in low .. high /\ Mid \in 0 .. Len(container) - 1
         /\ 2 * (high - Mid) <= high - low + 1
         /\ 2 * (Mid - low) <= high - low + 1
  BY SearchAssumption DEF SearchTypeOK, IsWindowOpen, Mid

\* Elements are numbers.
LEMMA ElementsAreNumbers ==
  ASSUME SearchTypeOK
  PROVE  /\ \A i \in 1 .. Len(container) : container[i] \in Int
         /\ element \in Int
         /\ Len(container) \in Nat
<1>1. container \in Seq(Elements) /\ element \in Elements
  BY DEF SearchTypeOK
<1>2. \A i \in 1 .. Len(container) : container[i] \in Elements
  BY <1>1
<1>3. Len(container) \in Nat
  BY <1>1
<1> QED
  BY <1>1, <1>2, <1>3, SearchAssumption

\* In a sorted container an element with GoesRight has only such elements before it, one
\* without it only such elements after it; and no hit lies on the other side of the middle.
LEMMA SidesOfMiddle ==
  ASSUME SearchTypeOK, Sorted, NEW m \in 1 .. Len(container), NEW i \in 1 .. Len(container),
         ~IsHit(container[m])
  PROVE  /\ GoesRight(container[m]) /\ i <= m => Excludes(i, "Before")
         /\ ~GoesRight(container[m]) /\ i >= m => Excludes(i, "After")
<1>1. container[m] \in Int /\ container[i] \in Int /\ element \in Int
  BY ElementsAreNumbers
<1>2. /\ i < m => ~Precedes(container[m], container[i])
      /\ m < i => ~Precedes(container[i], container[m])
  BY DEF Sorted
<1>3. m \in Int /\ i \in Int
  OBVIOUS
<1>4. i = m \/ i < m \/ m < i
  BY <1>3
<1>5. search = "Element" => search # "StopPosition"
  OBVIOUS
<1> QED
  BY <1>1, <1>2, <1>3, <1>4, <1>5 DEF Excludes, IsHit, GoesRight, Precedes

LEMMA SearchInvInit == SearchInit => SearchInv
<1> SUFFICES ASSUME SearchInit PROVE SearchInv
  OBVIOUS
<1>1. container \in Seq(Elements) /\ Len(container) <= MaxSize
  <2>1. PICK n \in 0 .. MaxSize : container \in [1 .. n -> Elements]
    BY DEF SearchInit
  <2> QED
    BY <2>1, SearchAssumption
<1> QED
  BY <1>1, SearchAssumption
  DEF SearchInit, SearchInv, SearchTypeOK, WindowInv, AnswerCorrect

\* An early return is right: a sorted container whose ends lie on one side of the element
\* does not hold it.
LEMMA EarlyReturnCorrect ==
  ASSUME SearchTypeOK, Sorted, search = "Element", IsElementOutsideOfRange,
         NEW i \in 1 .. Len(container)
  PROVE  container[i] # element
<1>1. /\ container \in Seq(Elements)
      /\ container[i] \in Int /\ element \in Int
      /\ Len(container) \in Nat /\ i \in Int /\ Len(container) >= 1
      /\ container[1] \in Int /\ container[Len(container)] \in Int
  BY ElementsAreNumbers DEF SearchTypeOK
<1>2. container # <<>>
  BY <1>1
<1>3. /\ At(0) = container[1] /\ At(Len(container) - 1) = container[Len(container)]
  BY <1>1 DEF At
<1>4. /\ i = 1 \/ ~Precedes(container[i], container[1])
      /\ i = Len(container) \/ ~Precedes(container[Len(container)], container[i])
  BY <1>1 DEF Sorted
<1>5. Precedes(element, container[1]) \/ Precedes(container[Len(container)], element)
  BY <1>2, <1>3 DEF IsElementOutsideOfRange
<1> QED
  <2>1. CASE i = 1 /\ i = Len(container)
    <3>1. Precedes(element, container[i]) \/ Precedes(container[i], element)
      BY <1>5, <2>1
    <3> QED BY <1>1, <3>1 DEF Precedes
  <2>2. CASE i = 1 /\ ~Precedes(container[Len(container)], container[i])
    BY <1>1, <1>5, <2>2 DEF Precedes
  <2>3. CASE ~Precedes(container[i], container[1]) /\ i = Len(container)
    BY <1>1, <1>5, <2>3 DEF Precedes
  <2>4. CASE ~Precedes(container[i], container[1]) /\ ~Precedes(container[Len(container)], container[i])
    BY <1>1, <1>5, <2>4 DEF Precedes
  <2> QED BY <1>4, <2>1, <2>2, <2>3, <2>4

\* Each step keeps the invariant.
LEMMA SearchInvNext == SearchInv /\ [SearchNext]_vars => SearchInv'
<1> SUFFICES ASSUME SearchInv, [SearchNext]_vars PROVE SearchInv'
  OBVIOUS
<1> USE SearchAssumption
<1>0. SearchTypeOK /\ Sorted /\ WindowInv /\ AnswerCorrect
  BY DEF SearchInv
<1>1. /\ Len(container) \in Nat
      /\ container # <<>> => Len(container) >= 1
      /\ container = <<>> => Len(container) = 0
  <2>1. container \in Seq(Elements)
    BY <1>0 DEF SearchTypeOK
  <2> QED
    BY <2>1
<1>a. CASE Start
  <2>1. CASE ReturnEarly
    <3>1. SearchTypeOK'
      BY <1>0, <1>a, <2>1 DEF SearchTypeOK, Start, Return, Rest, input
    <3>2. Sorted'
      BY <1>0, <1>a, <2>1 DEF Start, Return, input, Sorted, Precedes
    <3>3. WindowInv'
      BY <1>a, <2>1 DEF Start, Return, WindowInv
    <3>4. search = "Element" => IsElementOutsideOfRange
      BY <2>1 DEF ReturnEarly, IsElementOutsideOfRange
    <3>5. search = "Element" => \A i \in 1 .. Len(container) : container[i] # element
      BY <1>0, <3>4, EarlyReturnCorrect
    <3>6. search # "Element" => Len(container) = 0
      BY <1>1, <2>1 DEF ReturnEarly
    <3>7. /\ answer' = Rest(0) /\ UNCHANGED <<search, order, container, element>>
          /\ search = "Element" => Rest(0) = NotFound
          /\ search # "Element" => Rest(0) = 0
      BY <1>a, <2>1 DEF Start, Return, Rest, input
    <3>8. AnswerCorrect'
      BY <1>0, <1>1, <3>5, <3>6, <3>7 DEF AnswerCorrect, SearchTypeOK
    <3> QED
      BY <3>1, <3>2, <3>3, <3>8 DEF SearchInv
  <2>2. CASE ~ReturnEarly
    <3>1. Len(container) >= 1
      BY <1>1, <2>2 DEF ReturnEarly
    <3>2. SearchTypeOK'
      BY <1>0, <1>1, <1>a, <2>2, <3>1 DEF SearchTypeOK, Start, input
    <3>3. Sorted'
      BY <1>0, <1>a, <2>2 DEF Start, input, Sorted, Precedes
    <3>4. WindowInv'
      BY <1>0, <1>1, <1>a, <2>2, <3>1 DEF Start, input, WindowInv, SearchTypeOK
    <3>5. AnswerCorrect'
      BY <1>a, <2>2 DEF Start, AnswerCorrect
    <3> QED
      BY <3>2, <3>3, <3>4, <3>5 DEF SearchInv
  <2> QED
    BY <2>1, <2>2
<1>b. CASE Hit
  <2>1. Mid \in 0 .. Len(container) - 1 /\ Len(container) <= MaxSize
    BY <1>0, <1>b, MidInWindow DEF Hit, SearchTypeOK
  <2>2. SearchTypeOK'
    BY <1>0, <1>1, <1>b, <2>1 DEF SearchTypeOK, Hit, Return, input
  <2>3. Sorted'
    BY <1>0, <1>b DEF Hit, Return, input, Sorted, Precedes
  <2>4. WindowInv'
    BY <1>b DEF Hit, Return, WindowInv
  <2>5. search = "Element" /\ At(Mid) = element /\ Mid # NotFound
    BY <1>1, <1>b, <2>1 DEF Hit, IsHit
  <2>6. answer' = Mid /\ At(answer)' = At(Mid) /\ UNCHANGED <<search, container, element>>
    BY <1>b DEF Hit, Return, input, At
  <2>7. AnswerCorrect'
    BY <2>1, <2>5, <2>6 DEF AnswerCorrect
  <2> QED
    BY <2>2, <2>3, <2>4, <2>7 DEF SearchInv
<1>c. CASE GoRight
  <2>1. Mid \in low .. high /\ Mid \in 0 .. Len(container) - 1 /\ high < Len(container)
    BY <1>0, <1>c, MidInWindow DEF GoRight, SearchTypeOK
  <2>2. SearchTypeOK'
    BY <1>0, <1>1, <1>c, <2>1 DEF SearchTypeOK, GoRight, input, IsWindowOpen
  <2>3. Sorted'
    BY <1>0, <1>c DEF GoRight, input, Sorted, Precedes
  <2>4. \A i \in 1 .. Len(container) : i <= Mid + 1 => Excludes(i, "Before")
    <3>1. Mid + 1 \in 1 .. Len(container)
      BY <1>1, <2>1
    <3>2. ~IsHit(container[Mid + 1]) /\ GoesRight(container[Mid + 1])
      BY <1>c DEF GoRight, At
    <3> QED
      BY <1>0, <3>1, <3>2, SidesOfMiddle
  <2>5. WindowInv'
    BY <1>0, <1>1, <1>c, <2>1, <2>4
    DEF GoRight, input, WindowInv, Excludes, IsHit, GoesRight, Precedes, SearchTypeOK,
        IsWindowOpen
  <2>6. AnswerCorrect'
    BY <1>c DEF GoRight, AnswerCorrect
  <2> QED
    BY <2>2, <2>3, <2>5, <2>6 DEF SearchInv
<1>d. CASE GoLeft
  <2>1. Mid \in low .. high /\ Mid \in 0 .. Len(container) - 1 /\ high < Len(container)
    BY <1>0, <1>d, MidInWindow DEF GoLeft, SearchTypeOK
  <2>2. SearchTypeOK'
    BY <1>0, <1>1, <1>d, <2>1 DEF SearchTypeOK, GoLeft, input, IsWindowOpen, Predecessor
  <2>3. Sorted'
    BY <1>0, <1>d DEF GoLeft, input, Sorted, Precedes
  <2>4. \A i \in 1 .. Len(container) : i >= Mid + 1 => Excludes(i, "After")
    <3>1. Mid + 1 \in 1 .. Len(container)
      BY <1>1, <2>1
    <3>2. ~IsHit(container[Mid + 1]) /\ ~GoesRight(container[Mid + 1])
      BY <1>d DEF GoLeft, At
    <3> QED
      BY <1>0, <3>1, <3>2, SidesOfMiddle
  <2>5. WindowInv'
    BY <1>0, <1>1, <1>d, <2>1, <2>4
    DEF GoLeft, input, WindowInv, Excludes, IsHit, GoesRight, Precedes, SearchTypeOK,
        IsWindowOpen, Predecessor
  <2>6. AnswerCorrect'
    BY <1>d DEF GoLeft, AnswerCorrect
  <2> QED
    BY <2>2, <2>3, <2>5, <2>6 DEF SearchInv
<1>e. CASE LeaveLoop
  <2>1. /\ low \in 0 .. MaxSize /\ low <= Len(container)
        /\ \A i \in 1 .. Len(container) : i <= low => Excludes(i, "Before")
        /\ \A i \in 1 .. Len(container) : i > low => Excludes(i, "After")
    BY <1>0, <1>1, <1>e DEF LeaveLoop, IsWindowOpen, WindowInv, SearchTypeOK
  <2>2. SearchTypeOK'
    BY <1>0, <1>1, <1>e, <2>1 DEF SearchTypeOK, LeaveLoop, Return, Rest, input
  <2>3. Sorted'
    BY <1>0, <1>e DEF LeaveLoop, Return, input, Sorted, Precedes
  <2>4. WindowInv'
    BY <1>e DEF LeaveLoop, Return, WindowInv
  <2>5. \A i \in 1 .. Len(container) : ~IsHit(container[i]) /\ (i <= low <=> GoesRight(container[i]))
    BY <1>1, <2>1 DEF Excludes
  <2>6. answer' = Rest(low) /\ phase' = "Return" /\ UNCHANGED <<search, order, container, element>>
    BY <1>e DEF LeaveLoop, Return, input
  <2>7. AnswerCorrect'
    <3>1. CASE search = "Element"
      BY <2>5, <2>6, <3>1 DEF AnswerCorrect, Rest, IsHit
    <3>2. CASE search = "InsertPosition"
      BY <1>1, <2>1, <2>5, <2>6, <3>2 DEF AnswerCorrect, Rest, GoesRight, Precedes
    <3>3. CASE search = "StopPosition"
      <4>1. \A i \in 1 .. Len(container) : container[i] \in Int /\ element \in Int
        BY <1>0, ElementsAreNumbers
      <4>2. \A i \in 1 .. Len(container) :
              GoesRight(container[i]) <=> ~Precedes(element, container[i])
        BY <3>3, <4>1 DEF GoesRight, Precedes
      <4> QED
        BY <1>1, <2>1, <2>5, <2>6, <3>3, <4>2 DEF AnswerCorrect, Rest, Precedes
    <3> QED
      BY <1>0, <3>1, <3>2, <3>3 DEF SearchTypeOK
  <2> QED
    BY <2>2, <2>3, <2>4, <2>7 DEF SearchInv
<1>f. CASE UNCHANGED vars
  BY <1>0, <1>f DEF vars, input, SearchInv, SearchTypeOK, IsWindowOpen, Sorted, Precedes,
                   WindowInv, Excludes, IsHit, GoesRight, AnswerCorrect, At
<1> QED
  BY <1>a, <1>b, <1>c, <1>d, <1>e, <1>f DEF SearchNext

LEMMA SearchInvariant == SearchSpec => []SearchInv
  BY SearchInvInit, SearchInvNext, PTL DEF SearchSpec

\* No search reads outside of its container, whatever its size and in spite of the
\* wrap-around at 0.
THEOREM SearchTypeCorrectness == SearchSpec => []SearchTypeOK
<1>1. SearchInv => SearchTypeOK
  BY DEF SearchInv
<1> QED
  BY <1>1, SearchInvariant, PTL

\* The three searches answer right in both orders, for every container and every element.
THEOREM SearchesAreCorrect == SearchSpec => []AnswerCorrect
<1>1. SearchInv => AnswerCorrect
  BY DEF SearchInv
<1> QED
  BY <1>1, SearchInvariant, PTL

\* Every iteration halves the window.
THEOREM SearchesAreLogarithmic == SearchSpec => WindowHalves
<1>1. ASSUME SearchTypeOK, SearchTypeOK', [SearchNext]_vars
      PROVE  [phase = "Loop" /\ phase' = "Loop" => 2 * Window' <= Window]_vars
  <2> SUFFICES ASSUME SearchNext, phase = "Loop", phase' = "Loop"
               PROVE  2 * Window' <= Window
    BY <1>1
  <2>1. IsWindowOpen /\ (GoRight \/ GoLeft)
    BY DEF SearchNext, Start, Hit, GoRight, GoLeft, LeaveLoop, Return
  <2>2. /\ Mid \in low .. high /\ low \in Nat /\ high \in Nat /\ Mid \in Nat
        /\ 2 * (high - Mid) <= high - low + 1
        /\ 2 * (Mid - low) <= high - low + 1
    BY <1>1, <2>1, MidInWindow, SearchAssumption DEF SearchTypeOK
  <2>3. Window = high - low + 1
    BY <2>1 DEF Window
  <2>4. CASE GoRight
    <3>1. low' = Mid + 1 /\ high' = high
      BY <2>4 DEF GoRight
    <3>2. Window' = high - Mid \/ Window' = 0
      BY <2>2, <3>1 DEF Window
    <3> QED
      BY <2>2, <2>3, <3>2
  <2>5. CASE GoLeft
    <3>1. low' = low /\ high' = Predecessor(Mid)
      BY <2>5 DEF GoLeft
    <3>2. Window' = Mid - low \/ Window' = 0
      BY <2>2, <3>1, SearchAssumption DEF Window, Predecessor, IsWindowOpen
    <3> QED
      BY <2>2, <2>3, <3>2
  <2> QED
    BY <2>1, <2>4, <2>5
<1> QED
  BY <1>1, SearchTypeCorrectness, PTL DEF SearchSpec, WindowHalves
=============================================================================
