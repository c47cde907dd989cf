--------------------------- MODULE AvlIntervalTree ---------------------------
(***************************************************************************)
(* AvlIntervalTree and AvlIntervalTreeNode: the clauses of a formula in a  *)
(* balanced search tree.  A node's key is a literal; a clause is kept at   *)
(* the first node on its way down whose key its literals enclose, in two   *)
(* halves, one by its smallest and one by its largest literal.             *)
(*                                                                         *)
(* A node is known by its key: that no two nodes have the same key is part *)
(* of what the properties say.  A half is the set of its entries <<clause  *)
(* index, bound>>; the code keeps it as two sorted vectors, in which the   *)
(* searches of BinarySearch find the position of an entry and the end of a *)
(* prefix.  A loop takes one step per iteration.                           *)
(***************************************************************************)
EXTENDS InsertionOrder

CONSTANTS
  Formulas,    \* the formulas clients have: functions from clause indices to literals
  Removable,   \* bound: the clauses that clients remove from the formula
  Erasable,    \* bound: the literals that clients erase from its clauses
  Null         \* nullptr

Literals == UNION {UNION {f[i] : i \in DOMAIN f} : f \in Formulas}
ClauseIds == UNION {DOMAIN f : f \in Formulas}

\* Indices are of type size_t, clauses are finite, and 0 ends a clause in a DIMACS text.
ASSUME TreeAssumption ==
  /\ SizeMax \in Nat
  /\ ClauseIds \subseteq 0 .. SizeMax - 1
  /\ \A f \in Formulas : \A i \in DOMAIN f : IsFiniteSet(f[i])
  /\ Literals \subseteq Int \ {0}
  /\ Null \notin Int

VARIABLES
  clauses,     \* the literals of the clauses in the formula, by index
  root,        \* avlTreeRoot
  left, right, parent,   \* the pointers of the nodes, by key
  balance,     \* balancingFactor: -1 LeftHeavy, 0 Balanced, 1 RightHeavy
  lower,       \* overlappingIntervalsLowerBoundsData
  upper,       \* overlappingIntervalsUpperBoundsData
  recorded,    \* the clauses that were inserted
  phase,       \* "Idle", "Build", "Descend" or "Rebalance"
  inserted,    \* clauseIndex of the call of insertClause
  at,          \* traversalNode
  plan,        \* the clauses createFromCnfFormula has yet to insert
  outcome      \* of createFromCnfFormula

pointers == <<root, left, right, parent>>
halves == <<lower, upper>>
tree == <<pointers, balance, halves, recorded>>
call == <<phase, inserted, at>>
vars == <<clauses, tree, call, plan, outcome>>

Nodes == DOMAIN left
-----------------------------------------------------------------------------
(* Clauses.  Their literals are sorted: see ProblemDefinition.             *)

HasLiterals(i) == i \in DOMAIN clauses /\ clauses[i] # {}
Smallest(i) == Min(clauses[i])
Largest(i) == Max(clauses[i])

Midpoint(i) == MidpointOf(clauses[i])
Encloses(i, key) == Smallest(i) <= key /\ key <= Largest(i)
-----------------------------------------------------------------------------
(* insertClause.                                                           *)

EmptyTree ==
  /\ root = Null
  /\ left = <<>> /\ right = <<>> /\ parent = <<>>
  /\ balance = <<>>
  /\ lower = <<>> /\ upper = <<>>
  /\ recorded = {}

TreeInit ==
  /\ clauses \in Formulas
  /\ EmptyTree
  /\ phase = "Idle" /\ inserted = Null /\ at = Null
  /\ plan = <<>> /\ outcome = "None"

\* A field of the nodes in which the node k, that may be new, has the value v.
With(field, k, v) == [n \in DOMAIN field \cup {k} |-> IF n = k THEN v ELSE field[n]]

\* The fields of a new node that do not depend on where it hangs.
NewNode(i, p) ==
  LET key == Midpoint(i) IN
  /\ parent' = With(parent, key, p)
  /\ balance' = With(balance, key, 0)
  /\ lower' = With(lower, key, {<<i, Smallest(i)>>})
  /\ upper' = With(upper, key, {<<i, Largest(i)>>})

\* Where a call of insertClause returns to.
Caller == IF outcome = "Building" THEN "Build" ELSE "Idle"

Insert(i) ==
  /\ recorded' = recorded \cup {i}
  /\ inserted' = i
  /\ IF root = Null
     THEN /\ NewNode(i, Null)
          /\ left' = With(left, Midpoint(i), Null)
          /\ right' = With(right, Midpoint(i), Null)
          /\ root' = Midpoint(i)
          /\ phase' = Caller /\ at' = Null
     ELSE /\ phase' = "Descend" /\ at' = root
          /\ UNCHANGED <<pointers, balance, halves>>

\* Clients insert a clause of the formula once; an empty one is refused.
InsertClause(i) ==
  /\ phase = "Idle"
  /\ i \notin recorded
  /\ HasLiterals(i)
  /\ Insert(i)
  /\ outcome' = "None"
  /\ UNCHANGED <<clauses, plan>>

KeepHere ==
  /\ phase = "Descend"
  /\ Encloses(inserted, at)
  /\ lower' = [lower EXCEPT ![at] = @ \cup {<<inserted, Smallest(inserted)>>}]
  /\ upper' = [upper EXCEPT ![at] = @ \cup {<<inserted, Largest(inserted)>>}]
  /\ phase' = Caller /\ at' = Null
  /\ UNCHANGED <<clauses, pointers, balance, recorded, inserted, plan, outcome>>

ChildTowards(key) == IF key < at THEN left[at] ELSE right[at]

Descend ==
  /\ phase = "Descend"
  /\ ~Encloses(inserted, at)
  /\ ChildTowards(Midpoint(inserted)) # Null
  /\ at' = ChildTowards(Midpoint(inserted))
  /\ UNCHANGED <<clauses, tree, phase, inserted, plan, outcome>>

Attach ==
  LET key == Midpoint(inserted) IN
  /\ phase = "Descend"
  /\ ~Encloses(inserted, at)
  /\ ChildTowards(key) = Null
  /\ NewNode(inserted, at)
  /\ left' = With(IF key < at THEN With(left, at, key) ELSE left, key, Null)
  /\ right' = With(IF key < at THEN right ELSE With(right, at, key), key, Null)
  /\ phase' = "Rebalance" /\ at' = key
  /\ UNCHANGED <<clauses, root, recorded, inserted, plan, outcome>>
-----------------------------------------------------------------------------
(* Rotations.                                                              *)

\* Variant: a clause that ends at the key stays.
MovedClausesStrictly(h, from, to) ==
  IF from = Null \/ to = 0 THEN {}
  ELSE IF to < from
       THEN {e[1] : e \in {e \in h.lower[from] : e[2] < to}}
       ELSE {e[1] : e \in {e \in h.upper[from] : e[2] > to}}

\* moveIntervalsOverlappingParentFromChildToParent: the clauses of node `from' whose
\* literals enclose the key `to' move there.  Nothing moves to the key 0, which
\* removeClauseBoundsOverlappingLiteral takes for no literal, nor from nullptr.
MovedClauses(h, from, to) ==
  IF from = Null \/ to = 0 THEN {}
  ELSE IF to < from
       THEN {e[1] : e \in {e \in h.lower[from] : e[2] <= to}}
       ELSE {e[1] : e \in {e \in h.upper[from] : e[2] >= to}}

EntriesOf(half, ids) == {e \in half : e[1] \in ids}

\* Variant: nothing is removed from the child.
MovedEntriesKept(half, ids, from, to) ==
  IF ids = {} THEN half ELSE [half EXCEPT ![to] = @ \cup EntriesOf(half[from], ids)]

MovedEntries(half, ids, from, to) ==
  IF ids = {} THEN half
  ELSE [half EXCEPT ![from] = @ \ EntriesOf(half[from], ids),
                    ![to] = @ \cup EntriesOf(half[from], ids)]

Move(h, from, to) ==
  LET ids == MovedClauses(h, from, to) IN
  [lower |-> MovedEntries(h.lower, ids, from, to),
   upper |-> MovedEntries(h.upper, ids, from, to)]

BothHalves == [lower |-> lower, upper |-> upper]
HalvesBecome(h) == lower' = h.lower /\ upper' = h.upper

\* Variant: the check for nullptr is missing.
SetAnyway(field, node, v) == With(field, node, v)

\* A pointer of the node is set, if there is one.
Set(field, node, v) == IF node = Null THEN field ELSE With(field, node, v)

\* The subtree below the grandparent of a rotation gets the root s instead of p.
Grandparent(p) == parent[p]
HangsLeft(p) == Grandparent(p) # Null /\ left[Grandparent(p)] = p
LeftAbove(p, s) == IF HangsLeft(p) THEN With(left, Grandparent(p), s) ELSE left
RightAbove(p, s) == IF HangsLeft(p) THEN right ELSE Set(right, Grandparent(p), s)
ParentAbove(p, s) == With(parent, s, Grandparent(p))
RootAbove(p, s) == IF Grandparent(p) = Null THEN s ELSE root

RotateLeft(p, y) ==
  /\ right' = With(RightAbove(p, y), p, left[y])
  /\ left' = With(LeftAbove(p, y), y, p)
  /\ parent' = Set(With(ParentAbove(p, y), p, y), left[y], p)
  /\ root' = RootAbove(p, y)
  /\ balance' = [balance EXCEPT ![p] = 0, ![y] = 0]
  /\ HalvesBecome(Move(BothHalves, p, y))

RotateRight(p, x) ==
  /\ left' = With(LeftAbove(p, x), p, right[x])
  /\ right' = With(RightAbove(p, x), x, p)
  /\ parent' = Set(With(ParentAbove(p, x), p, x), right[x], p)
  /\ root' = RootAbove(p, x)
  /\ balance' = [balance EXCEPT ![p] = 0, ![x] = 0]
  /\ HalvesBecome(Move(BothHalves, p, x))

RotateLeftRight(p, x) ==
  LET z == right[x] IN
  /\ left' = With(With(LeftAbove(p, z), z, x), p, right[z])
  /\ right' = With(With(RightAbove(p, z), z, p), x, left[z])
  /\ parent' = LET above == With(With(ParentAbove(p, z), x, z), p, z)
                IN Set(Set(above, left[z], x), right[z], p)
  /\ root' = RootAbove(p, z)
  /\ balance' = [balance EXCEPT ![p] = IF balance[z] = -1 THEN 1 ELSE 0,
                                ![x] = IF balance[z] = 1 THEN -1 ELSE 0,
                                ![z] = 0]
  /\ HalvesBecome(Move(Move(Move(Move(BothHalves, x, z), left[z], p), p, z), right[z], p))

\* Variant: the subtrees of z change places with each other.
RotateRightLeftCrossed(p, y) ==
  LET z == left[y] IN
  /\ right' = With(With(RightAbove(p, z), z, y), p, right[z])
  /\ left' = With(With(LeftAbove(p, z), z, p), y, left[z])
  /\ parent' = LET above == With(With(ParentAbove(p, z), y, z), p, z)
                IN Set(Set(above, left[z], y), right[z], p)
  /\ root' = RootAbove(p, z)
  /\ balance' = [balance EXCEPT ![p] = IF balance[z] = 1 THEN -1 ELSE 0,
                                ![y] = IF balance[z] = -1 THEN 1 ELSE 0,
                                ![z] = 0]
  /\ HalvesBecome(Move(Move(Move(Move(BothHalves, y, z), right[z], p), p, z), left[z], p))

RotateRightLeft(p, y) ==
  LET z == left[y] IN
  /\ right' = With(With(RightAbove(p, z), z, y), p, left[z])
  /\ left' = With(With(LeftAbove(p, z), z, p), y, right[z])
  /\ parent' = LET above == With(With(ParentAbove(p, z), y, z), p, z)
                IN Set(Set(above, right[z], y), left[z], p)
  /\ root' = RootAbove(p, z)
  /\ balance' = [balance EXCEPT ![p] = IF balance[z] = 1 THEN -1 ELSE 0,
                                ![y] = IF balance[z] = -1 THEN 1 ELSE 0,
                                ![z] = 0]
  /\ HalvesBecome(Move(Move(Move(Move(BothHalves, y, z), right[z], p), p, z), left[z], p))
-----------------------------------------------------------------------------
(* The loop of insertClause back to the root.                              *)

Finish == phase' = Caller /\ at' = Null

ReachRoot ==
  /\ phase = "Rebalance" /\ parent[at] = Null
  /\ Finish
  /\ UNCHANGED <<clauses, tree, inserted, plan, outcome>>

\* -1 on the left of its parent, 1 on the right.
Side == IF left[parent[at]] = at THEN -1 ELSE 1

\* Variant: the loop does not end where the heights above stay the same.
GoesOnAlways == TRUE

\* A parent that was balanced has become higher.
GoesOn == balance[parent[at]] = 0

LeanTowards ==
  /\ phase = "Rebalance" /\ parent[at] # Null
  /\ balance[parent[at]] # Side
  /\ balance' = [balance EXCEPT ![parent[at]] = @ + Side]
  /\ IF GoesOn
     THEN phase' = phase /\ at' = parent[at]
     ELSE Finish
  /\ UNCHANGED <<clauses, pointers, halves, recorded, inserted, plan, outcome>>

\* The parent leans further to one side, and its child there as the rotation needs it.
TooHeavy(side, childBalances) ==
  /\ phase = "Rebalance" /\ parent[at] # Null
  /\ Side = side /\ balance[parent[at]] = side
  /\ balance[at] \in childBalances
  /\ Finish
  /\ UNCHANGED <<clauses, recorded, inserted, plan, outcome>>

Rebalance ==
  \/ ReachRoot
  \/ LeanTowards
  \/ TooHeavy(-1, {-1, 0}) /\ RotateRight(parent[at], at)
  \/ TooHeavy(-1, {1}) /\ RotateLeftRight(parent[at], at)
  \/ TooHeavy(1, {0, 1}) /\ RotateLeft(parent[at], at)
  \/ TooHeavy(1, {-1}) /\ RotateRightLeft(parent[at], at)
-----------------------------------------------------------------------------
(* createFromCnfFormula.                                                   *)

ClearTree ==
  /\ root' = Null
  /\ left' = <<>> /\ right' = <<>> /\ parent' = <<>>
  /\ balance' = <<>>
  /\ lower' = <<>> /\ upper' = <<>>
  /\ recorded' = {}

\* The new tree takes the place of the old one.
CreateFromCnfFormula ==
  /\ phase = "Idle"
  /\ ClearTree
  /\ IF SortingThrows(clauses)
     THEN outcome' = "Threw" /\ UNCHANGED <<phase, plan>>
     ELSE /\ outcome' = "Building" /\ phase' = "Build"
          /\ plan' = Positions(SizeOf(clauses))
  /\ UNCHANGED <<clauses, inserted, at>>

\* Variants: the loop does not move on; it moves on by two.
RestOfPlanSame == plan
RestOfPlanSkips == IF Len(plan) = 1 THEN <<>> ELSE SubSeq(plan, 3, Len(plan))

RestOfPlan == Tail(plan)

InsertNext ==
  /\ phase = "Build" /\ plan # <<>>
  /\ ~OutOfRange(clauses, Head(plan)) /\ Insertable(clauses, Head(plan))
  /\ Insert(ClauseAt(clauses, Head(plan)))
  /\ plan' = RestOfPlan
  /\ UNCHANGED <<clauses, outcome>>

\* No tree is returned.
Abandon(result) ==
  /\ ClearTree
  /\ phase' = "Idle" /\ plan' = <<>> /\ outcome' = result
  /\ UNCHANGED <<clauses, inserted, at>>

PositionOutOfRange ==
  /\ phase = "Build" /\ plan # <<>>
  /\ OutOfRange(clauses, Head(plan))
  /\ Abandon("Threw")

ClauseRefused ==
  /\ phase = "Build" /\ plan # <<>>
  /\ ~OutOfRange(clauses, Head(plan)) /\ ~Insertable(clauses, Head(plan))
  /\ Abandon("Failed")

Created ==
  /\ phase = "Build" /\ plan = <<>>
  /\ phase' = "Idle" /\ outcome' = "Created"
  /\ UNCHANGED <<clauses, tree, inserted, at, plan>>

TreeStep ==
  \/ KeepHere \/ Descend \/ Attach
  \/ Rebalance
  \/ InsertNext \/ PositionOutOfRange \/ ClauseRefused \/ Created
-----------------------------------------------------------------------------
(* The formula changes while the tree stays as it is.                      *)

RemoveClause(i) ==
  /\ phase = "Idle"
  /\ i \in DOMAIN clauses
  /\ clauses' = [j \in DOMAIN clauses \ {i} |-> clauses[j]]
  /\ outcome' = "None"
  /\ UNCHANGED <<tree, call, plan>>

RemoveLiteralFromClauses(l) ==
  /\ phase = "Idle"
  /\ \E i \in DOMAIN clauses : l \in clauses[i]
  /\ clauses' = [i \in DOMAIN clauses |-> clauses[i] \ {l}]
  /\ outcome' = "None"
  /\ UNCHANGED <<tree, call, plan>>

TreeNext ==
  \/ \E i \in ClauseIds : InsertClause(i)
  \/ CreateFromCnfFormula
  \/ TreeStep
  \/ \E i \in Removable : RemoveClause(i)
  \/ \E l \in Erasable : RemoveLiteralFromClauses(l)

\* A started call runs on: the library is sequential and does not block.
TreeSpec == TreeInit /\ [][TreeNext]_vars /\ WF_vars(TreeStep)
-----------------------------------------------------------------------------
(* determineIndicesOfClausesContainingLiteral.                             *)

NextNode(l, k) ==
  CASE k = Null \/ l = k -> Null
    [] k # Null /\ l < k -> left[k]
    [] k # Null /\ l > k -> right[k]

\* The nodes the search for a literal passes, at most all of them.
Visited(l) ==
  LET visit[n \in 0 .. Cardinality(Nodes)] ==
        IF n = 0 THEN root ELSE NextNode(l, visit[n - 1])
  IN {visit[n] : n \in 0 .. Cardinality(Nodes)} \ {Null}

\* The searched prefix of a half; the code's is longer by one entry if there is one,
\* and like the others that entry is then looked up in the formula.
Reported(l, k) ==
  IF l <= k THEN {e[1] : e \in {e \in lower[k] : e[2] <= l}}
            ELSE {e[1] : e \in {e \in upper[k] : e[2] >= l}}

IndicesOfClausesContaining(l) ==
  {i \in UNION {Reported(l, k) : k \in Visited(l)} : i \in DOMAIN clauses /\ l \in clauses[i]}
-----------------------------------------------------------------------------
(* Properties.                                                             *)

\* The state has the shape the code's types give it: pointers lead to nodes, and a
\* call that is active has a node to go on from.
TreeTypeOK ==
  /\ DOMAIN clauses \subseteq ClauseIds /\ \A i \in DOMAIN clauses : clauses[i] \subseteq Literals
  /\ root \in Nodes \cup {Null}
  /\ \A links \in {left, right, parent} : links \in [Nodes -> Nodes \cup {Null}]
  /\ balance \in [Nodes -> {-1, 0, 1}]
  /\ \A half \in {lower, upper} : half \in [Nodes -> SUBSET (ClauseIds \X Literals)]
  /\ recorded \subseteq ClauseIds
  /\ phase \in {"Idle", "Build", "Descend", "Rebalance"}
  /\ phase \in {"Descend", "Rebalance"} => at \in Nodes /\ inserted \in recorded
  /\ plan \in Seq(0 .. SizeMax)
  /\ outcome \in {"None", "Building", "Created", "Failed", "Threw"}

\* A node and the nodes above it.
Ancestors(k) ==
  LET up[n \in 0 .. Cardinality(Nodes)] ==
        IF n = 0 THEN k ELSE IF up[n - 1] = Null THEN Null ELSE parent[up[n - 1]]
  IN {up[n] : n \in 0 .. Cardinality(Nodes)} \ {Null}

Subtree(k) == {d \in Nodes : k \in Ancestors(d)}
Depth(k) == Cardinality(Ancestors(k))
Height(k) == IF k = Null THEN 0 ELSE Max({Depth(d) : d \in Subtree(k)}) - Depth(k) + 1

\* The two directions of the links agree, no subtree gets lost or shared, and keys to
\* the left are smaller, to the right larger: rotations at any depth, with and without
\* subtrees to hand over, keep the tree a search tree.
TreeOrdered ==
  /\ \A k \in Nodes :
       /\ root \in Ancestors(k)
       /\ parent[k] = Null <=> k = root
       /\ k # root => Cardinality({p \in Nodes : left[p] = k} \cup {p \in Nodes : right[p] = k}) = 1
       /\ left[k] # Null => parent[left[k]] = k /\ \A d \in Subtree(left[k]) : d < k
       /\ right[k] # Null => parent[right[k]] = k /\ \A d \in Subtree(right[k]) : d > k

\* Between two calls every balancing factor is the difference of the heights below its
\* node, so that the tree is an AVL tree: what a rotation writes without looking at the
\* heights is right for them.
TreeBalanced ==
  phase \in {"Idle", "Build"} =>
    \A k \in Nodes : balance[k] = Height(right[k]) - Height(left[k])

EntriesWith(half, i) == {e \in half : e[1] = i}

\* The halves of a node hold the same clauses, each once and around the key, whatever
\* moves between nodes; and each clause that was inserted is in one node.
HalvesInStep ==
  /\ \A k \in Nodes, i \in recorded :
       /\ \A e \in EntriesWith(lower[k], i), f \in EntriesWith(upper[k], i) : e[2] <= k /\ k <= f[2]
       /\ Cardinality(EntriesWith(lower[k], i)) = Cardinality(EntriesWith(upper[k], i))
       /\ Cardinality(EntriesWith(lower[k], i)) <= 1
  /\ phase \in {"Idle", "Build"} =>
       \A i \in recorded : Cardinality({k \in Nodes : EntriesWith(lower[k], i) # {}}) = 1

\* A search finds each recorded clause that holds the literal, in whatever order the
\* clauses were inserted and whatever the formula lost since then.  It needs that no
\* key is 0: only a clause that holds a literal and its negation has the midpoint 0.
QueriesExact ==
  (phase = "Idle" /\ 0 \notin Nodes) =>
    \A l \in Literals :
      IndicesOfClausesContaining(l) = {i \in recorded \cap DOMAIN clauses : l \in clauses[i]}

\* What a creation leaves behind, whatever the tree held before and however often the
\* insertions rotated: a tree with the clauses of the insertion order, or nothing.  The
\* tree knows all clauses only if there are 2, 3, 4k or 4k + 1 of them.
CreatedTreeHoldsPlan ==
  /\ outcome = "Created" =>
       /\ Creation(clauses) = "Created" /\ recorded = Inserted(clauses)
       /\ recorded = DOMAIN clauses <=> (SizeOf(clauses) \in {2, 3} \/ SizeOf(clauses) % 4 \in {0, 1})
  /\ outcome \in {"Failed", "Threw"} => Creation(clauses) = outcome /\ Nodes = {}

\* Every insertion ends, and so does the creation of a tree.
CallsReturn == phase # "Idle" ~> phase = "Idle"
=============================================================================
