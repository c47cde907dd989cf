------------------------ MODULE AvlIntervalTreeProofs ------------------------
(***************************************************************************)
(* Proofs about AvlIntervalTree for every set of formulas and every order  *)
(* of insertions.                                                          *)
(*                                                                         *)
(* The pointers alone do not say which nodes are below which.  The         *)
(* invariant says that there are sets that do (sub), heights (g), a node   *)
(* for each clause (home) and bounds for it (lo, hi) that fit the tree;    *)
(* the lemmas say how each step changes them.  From the invariant follow   *)
(* the six properties of AvlIntervalTree.                                  *)
(***************************************************************************)
EXTENDS AvlIntervalTree, FiniteSetTheorems, NaturalsInduction, WellFoundedInduction, TLAPS
-----------------------------------------------------------------------------
(* Search trees. A shape consists of the pointers and, for each node, the  *)
(* set of the nodes below it; a rotation to the right is a rotation to the *)
(* left of the mirrored tree.                                              *)

\* The nodes below a pointer.
Below(sub, n) == IF n = Null THEN {} ELSE sub[n]

\* R is a strict order on the nodes N.
StrictOrderOn(N, R) ==
  /\ \A a \in N : <<a, a>> \notin R
  /\ \A a, b, c \in N : <<a, b>> \in R /\ <<b, c>> \in R => <<a, c>> \in R

\* The two directions of the pointers agree.
LinksOK(N, l, r, up) ==
  /\ l \in [N -> N \cup {Null}] /\ r \in [N -> N \cup {Null}] /\ up \in [N -> N \cup {Null}]
  /\ \A k \in N : /\ l[k] # Null => up[l[k]] = k
                  /\ r[k] # Null => up[r[k]] = k
                  /\ up[k] # Null => l[up[k]] = k \/ r[up[k]] = k

\* sub[k] holds the nodes of the subtree with the root k.
SubtreesOK(N, l, r, up, sub) ==
  /\ sub \in [N -> SUBSET N]
  /\ \A k \in N : sub[k] = {k} \cup Below(sub, l[k]) \cup Below(sub, r[k])
  /\ \A j \in N : \A d \in sub[j] : sub[d] \subseteq sub[j] /\ (d # j => up[d] \in sub[j])

\* The nodes to the left of a node come before it, those to the right after it.
SearchOK(N, R, l, r, sub) ==
  \A k \in N : /\ \A d \in Below(sub, l[k]) : <<d, k>> \in R
               /\ \A d \in Below(sub, r[k]) : <<k, d>> \in R

\* The pointers of a search tree on the nodes N, in the order R.
Shape(N, R, l, r, up, sub) ==
  /\ Null \notin N
  /\ StrictOrderOn(N, R)
  /\ LinksOK(N, l, r, up)
  /\ SubtreesOK(N, l, r, up, sub)
  /\ SearchOK(N, R, l, r, sub)

\* The pointers and the subtrees after a rotation to the left of p and its child y.
LeftOf(N, l, p, y) == [n \in N |-> IF n = y THEN p ELSE IF l[n] = p THEN y ELSE l[n]]
RightOf(N, l, r, p, y) == [n \in N |-> IF n = p THEN l[y] ELSE IF r[n] = p THEN y ELSE r[n]]
UpOf(N, l, up, p, y) ==
  [n \in N |-> IF n = p THEN y ELSE IF n = y THEN up[p] ELSE IF n = l[y] THEN p ELSE up[n]]
SubOf(N, l, sub, p, y) ==
  [n \in N |-> IF n = p THEN {p} \cup Below(sub, l[p]) \cup Below(sub, l[y])
               ELSE IF n = y THEN sub[p] ELSE sub[n]]

\* A rotation to the left keeps a search tree a search tree.
LEMMA RotationKeepsShape ==
  ASSUME NEW N, NEW R, NEW l, NEW r, NEW up, NEW sub, NEW p \in N, NEW y,
         Shape(N, R, l, r, up, sub), y = r[p], y # Null
  PROVE  Shape(N, R, LeftOf(N, l, p, y), RightOf(N, l, r, p, y), UpOf(N, l, up, p, y),
               SubOf(N, l, sub, p, y))
<1> DEFINE l2 == LeftOf(N, l, p, y)
           r2 == RightOf(N, l, r, p, y)
           up2 == UpOf(N, l, up, p, y)
           sub2 == SubOf(N, l, sub, p, y)
<1>1. /\ Null \notin N /\ y \in N
      /\ l \in [N -> N \cup {Null}] /\ r \in [N -> N \cup {Null}] /\ up \in [N -> N \cup {Null}]
      /\ sub \in [N -> SUBSET N]
  BY DEF Shape, LinksOK, SubtreesOK
<1>2. /\ \A k \in N : l[k] # Null => up[l[k]] = k
      /\ \A k \in N : r[k] # Null => up[r[k]] = k
      /\ \A k \in N : up[k] # Null => l[up[k]] = k \/ r[up[k]] = k
  BY DEF Shape, LinksOK
<1>3. /\ \A k \in N : sub[k] = {k} \cup Below(sub, l[k]) \cup Below(sub, r[k])
      /\ \A j \in N : \A d \in sub[j] : sub[d] \subseteq sub[j]
      /\ \A j \in N : \A d \in sub[j] : d # j => up[d] \in sub[j]
  BY DEF Shape, SubtreesOK
<1>4. /\ \A k \in N : \A d \in Below(sub, l[k]) : <<d, k>> \in R
      /\ \A k \in N : \A d \in Below(sub, r[k]) : <<k, d>> \in R
      /\ \A a \in N : <<a, a>> \notin R
      /\ \A a, b, c \in N : <<a, b>> \in R /\ <<b, c>> \in R => <<a, c>> \in R
  BY DEF Shape, SearchOK, StrictOrderOn
<1>5. /\ \A k \in N : k \in sub[k]
      /\ \A k \in N : Below(sub, l[k]) \subseteq sub[k] /\ Below(sub, r[k]) \subseteq sub[k]
      /\ \A k \in N : Below(sub, l[k]) \subseteq N /\ Below(sub, r[k]) \subseteq N
  BY <1>1, <1>3 DEF Below
<1>6. /\ \A k \in N : l[k] # Null => l[k] \in N /\ <<l[k], k>> \in R /\ l[k] # k /\ l[k] # r[k] /\ Below(sub, l[k]) = sub[l[k]]
      /\ \A k \in N : r[k] # Null => r[k] \in N /\ <<k, r[k]>> \in R /\ r[k] # k /\ Below(sub, r[k]) = sub[r[k]]
  <2>1. \A k \in N : l[k] # Null => l[k] \in Below(sub, l[k]) /\ l[k] \in N
    BY <1>1, <1>5 DEF Below
  <2>2. \A k \in N : r[k] # Null => r[k] \in Below(sub, r[k]) /\ r[k] \in N
    BY <1>1, <1>5 DEF Below
  <2> QED BY <2>1, <2>2, <1>4, <1>1 DEF Below
<1>7. y # p /\ up[y] = p /\ l[y] # p /\ r[y] # p /\ l[p] # y /\ l[y] # y /\ r[y] # y
  <2>1. y # p /\ l[p] # y /\ l[y] # y /\ r[y] # y
    BY <1>1, <1>6
  <2>2. up[y] = p
    BY <1>2
  <2>3. p \notin sub[y] /\ sub[y] = Below(sub, r[p])
    BY <1>1, <1>4 DEF Below
  <2>4. l[y] # p /\ r[y] # p
    <3>1. p \in sub[p] BY <1>5
    <3> QED BY <3>1, <2>3, <1>1, <1>5 DEF Below
  <2> QED BY <2>1, <2>2, <2>4
<1>8. /\ l2 \in [N -> N \cup {Null}] /\ r2 \in [N -> N \cup {Null}] /\ up2 \in [N -> N \cup {Null}]
      /\ sub2 \in [N -> SUBSET N]
  BY <1>1, <1>5 DEF LeftOf, RightOf, UpOf, SubOf
<1>9. /\ \A n \in N : l2[n] = IF n = y THEN p ELSE IF l[n] = p THEN y ELSE l[n]
      /\ \A n \in N : r2[n] = IF n = p THEN l[y] ELSE IF r[n] = p THEN y ELSE r[n]
      /\ \A n \in N : up2[n] = IF n = p THEN y ELSE IF n = y THEN up[p]
                               ELSE IF n = l[y] THEN p ELSE up[n]
      /\ \A n \in N : sub2[n] = IF n = p THEN {p} \cup Below(sub, l[p]) \cup Below(sub, l[y])
                                ELSE IF n = y THEN sub[p] ELSE sub[n]
  BY DEF LeftOf, RightOf, UpOf, SubOf
<1> HIDE DEF l2, r2, up2, sub2
<1>10. LinksOK(N, l2, r2, up2)
  <2>1. \A k \in N : l2[k] # Null => up2[l2[k]] = k
    <3> TAKE k \in N
    <3>1. CASE k = y BY <3>1, <1>1, <1>7, <1>9
    <3>2. CASE k # y /\ l[k] = p BY <3>2, <1>1, <1>2, <1>7, <1>9
    <3>3. CASE k # y /\ l[k] # p BY <3>3, <1>1, <1>2, <1>7, <1>9
    <3> QED BY <3>1, <3>2, <3>3
  <2>2. \A k \in N : r2[k] # Null => up2[r2[k]] = k
    <3> TAKE k \in N
    <3>1. CASE k = p BY <3>1, <1>1, <1>7, <1>9
    <3>2. CASE k # p /\ r[k] = p BY <3>2, <1>1, <1>2, <1>7, <1>9
    <3>3. CASE k # p /\ r[k] # p
      <4>1. CASE r[k] # Null
        <5>1. r[k] \in N /\ up[r[k]] = k /\ r[k] # y
          BY <3>3, <4>1, <1>1, <1>2, <1>7
        <5>2. r[k] # l[y]
          <6> SUFFICES ASSUME r[k] = l[y] PROVE FALSE
            OBVIOUS
          <6>1. up[l[y]] = y BY <4>1, <1>1, <1>2
          <6>2. k = y BY <6>1, <5>1
          <6> QED BY <6>2, <4>1, <1>1, <1>6
        <5> QED BY <3>3, <5>1, <5>2, <1>9
      <4>2. CASE r[k] = Null BY <3>3, <4>2, <1>9
      <4> QED BY <4>1, <4>2
    <3> QED BY <3>1, <3>2, <3>3
  <2>3. \A k \in N : up2[k] # Null => l2[up2[k]] = k \/ r2[up2[k]] = k
    BY <1>1, <1>2, <1>6, <1>7, <1>9
  <2> QED BY <2>1, <2>2, <2>3, <1>8 DEF LinksOK
<1>11. sub[y] \subseteq sub[p] /\ y \in sub[p] /\ sub[y] = Below(sub, r[p])
  BY <1>1, <1>5 DEF Below
<1>12. \A k \in N : k # p /\ k # y => Below(sub2, l2[k]) = Below(sub, l[k]) /\ Below(sub2, r2[k]) = Below(sub, r[k])
  <2> TAKE k \in N
  <2> HAVE k # p /\ k # y
  <2>0. l[k] # y /\ r[k] # y
    BY <1>1, <1>2, <1>7
  <2>1. Below(sub2, l2[k]) = Below(sub, l[k])
    BY <2>0, <1>1, <1>9 DEF Below
  <2>2. Below(sub2, r2[k]) = Below(sub, r[k])
    BY <2>0, <1>1, <1>9 DEF Below
  <2> QED BY <2>1, <2>2
<1>13. /\ Below(sub2, l2[p]) = Below(sub, l[p]) /\ Below(sub2, r2[p]) = Below(sub, l[y])
       /\ Below(sub2, l2[y]) = {p} \cup Below(sub, l[p]) \cup Below(sub, l[y])
       /\ Below(sub2, r2[y]) = Below(sub, r[y])
  <2>1. l[p] # p /\ r[p] # p
    BY <1>1, <1>6
  <2> QED BY <2>1, <1>1, <1>7, <1>9 DEF Below
<1>14. /\ sub[y] = {y} \cup Below(sub, l[y]) \cup Below(sub, r[y])
       /\ sub[p] = {p} \cup Below(sub, l[p]) \cup sub[y]
  BY <1>1, <1>3, <1>11
<1>15. \A k \in N : sub2[k] = {k} \cup Below(sub2, l2[k]) \cup Below(sub2, r2[k])
  <2> TAKE k \in N
  <2>1. CASE k = p BY <2>1, <1>9, <1>13
  <2>2. CASE k = y BY <2>2, <1>7, <1>9, <1>13, <1>14
  <2>3. CASE k # p /\ k # y BY <2>3, <1>3, <1>9, <1>12
  <2> QED BY <2>1, <2>2, <2>3
<1>16. SearchOK(N, R, l2, r2, sub2)
  <2> SUFFICES ASSUME NEW k \in N
               PROVE  /\ \A d \in Below(sub2, l2[k]) : <<d, k>> \in R
                      /\ \A d \in Below(sub2, r2[k]) : <<k, d>> \in R
    BY DEF SearchOK
  <2>1. CASE k = p
    <3>1. Below(sub, l[y]) \subseteq Below(sub, r[p])
      BY <1>11, <1>14
    <3> QED BY <2>1, <3>1, <1>4, <1>13
  <2>2. CASE k = y
    <3>1. <<p, y>> \in R
      BY <1>1, <1>6
    <3>2. \A d \in Below(sub, l[p]) : <<d, y>> \in R
      BY <3>1, <1>1, <1>4, <1>5
    <3> QED BY <2>2, <3>1, <3>2, <1>1, <1>4, <1>13
  <2>3. CASE k # p /\ k # y
    BY <2>3, <1>4, <1>12
  <2> QED BY <2>1, <2>2, <2>3
<1>17. \A j \in N : \A d \in sub2[j] : sub2[d] \subseteq sub2[j]
  <2> TAKE j \in N
  <2> TAKE d \in sub2[j]
  <2>1. sub2[p] \subseteq sub[p] /\ d \in N
    BY <1>8, <1>9, <1>14
  <2>2. CASE j = p
    <3>1. CASE d = p BY <2>2, <3>1
    <3>2. CASE d # p
      <4>1. d \in Below(sub, l[p]) \/ d \in Below(sub, l[y])
        BY <2>2, <3>2, <1>9
      <4>2. d # y
        BY <4>1, <1>1, <1>4, <1>6
      <4>3. sub2[d] = sub[d]
        BY <2>1, <3>2, <4>2, <1>9
      <4>4. CASE d \in Below(sub, l[p])
        BY <4>3, <4>4, <2>2, <1>1, <1>3, <1>6, <1>9 DEF Below
      <4>5. CASE d \in Below(sub, l[y])
        BY <4>3, <4>5, <2>2, <1>1, <1>3, <1>6, <1>9 DEF Below
      <4> QED BY <4>1, <4>4, <4>5
    <3> QED BY <3>1, <3>2
  <2>3. CASE j = y
    BY <2>1, <2>3, <1>1, <1>3, <1>7, <1>9
  <2>4. CASE j # p /\ j # y
    <3>1. sub2[j] = sub[j] /\ d \in sub[j]
      BY <2>4, <1>9
    <3>2. CASE d = p BY <3>1, <3>2, <2>1, <1>3
    <3>3. CASE d = y
      BY <3>1, <3>3, <2>4, <1>1, <1>3, <1>7, <1>9
    <3>4. CASE d # p /\ d # y
      BY <3>1, <3>4, <2>1, <1>3, <1>9
    <3> QED BY <3>2, <3>3, <3>4
  <2> QED BY <2>2, <2>3, <2>4
<1>18. \A j \in N : \A d \in sub2[j] : d # j => up2[d] \in sub2[j]
  <2> TAKE j \in N
  <2> TAKE d \in sub2[j]
  <2> HAVE d # j
  <2>1. d \in N
    BY <1>8
  <2>2. CASE j = p
    <3>1. d \in Below(sub, l[p]) \/ d \in Below(sub, l[y])
      BY <2>2, <1>9
    <3>2. d # y
      BY <3>1, <1>1, <1>4, <1>6
    <3>3. CASE d \in Below(sub, l[p])
      <4>1. l[p] \in N /\ d \in sub[l[p]] /\ Below(sub, l[p]) = sub[l[p]]
        BY <3>3, <1>1 DEF Below
      <4>2. d # l[y]
        <5>1. CASE l[y] = Null BY <5>1, <2>1, <1>1
        <5>2. CASE l[y] # Null
          <6>1. l[y] \in Below(sub, l[y]) /\ Below(sub, l[y]) \subseteq Below(sub, r[p])
            BY <5>2, <1>1, <1>5, <1>11, <1>14 DEF Below
          <6>2. <<p, l[y]>> \in R
            BY <6>1, <1>4
          <6>3. <<d, p>> \in R
            BY <3>3, <1>4
          <6> QED BY <6>2, <6>3, <5>2, <2>1, <1>1, <1>4
        <5> QED BY <5>1, <5>2
      <4>3. up2[d] = up[d]
        BY <2>1, <2>2, <3>2, <4>2, <1>9
      <4>4. CASE d = l[p] BY <4>3, <4>4, <4>1, <2>2, <1>2, <1>9, <1>1
      <4>5. CASE d # l[p] BY <4>3, <4>5, <4>1, <2>2, <1>3, <1>9
      <4> QED BY <4>4, <4>5
    <3>4. CASE d \in Below(sub, l[y])
      <4>1. l[y] \in N /\ d \in sub[l[y]] /\ Below(sub, l[y]) = sub[l[y]]
        BY <3>4, <1>1 DEF Below
      <4>2. CASE d = l[y] BY <4>2, <2>1, <2>2, <3>2, <1>9
      <4>3. CASE d # l[y] BY <4>1, <4>3, <2>1, <2>2, <3>2, <1>3, <1>9
      <4> QED BY <4>2, <4>3
    <3> QED BY <3>1, <3>3, <3>4
  <2>3. CASE j = y
    <3>1. d \in sub[p] /\ sub2[y] = sub[p] /\ d # y
      BY <2>3, <1>1, <1>7, <1>9
    <3>2. CASE d = p BY <3>1, <3>2, <2>3, <1>9, <1>11
    <3>3. CASE d # p BY <3>1, <3>3, <2>1, <2>3, <1>1, <1>3, <1>5, <1>9
    <3> QED BY <3>2, <3>3
  <2>4. CASE j # p /\ j # y
    <3>1. sub2[j] = sub[j] /\ d \in sub[j]
      BY <2>4, <1>9
    <3>2. CASE d = p
      BY <3>1, <3>2, <1>3, <1>9, <1>11
    <3>3. CASE d = y
      <4>1. p \in sub[j] BY <3>1, <3>3, <2>4, <1>3, <1>7
      <4> QED BY <4>1, <3>1, <3>3, <2>4, <1>1, <1>3, <1>7, <1>9
    <3>4. CASE d = l[y]
      <4>1. y \in sub[j]
        BY <3>1, <3>4, <2>1, <1>1, <1>2, <1>3
      <4>2. p \in sub[j]
        BY <4>1, <2>4, <1>3, <1>7
      <4> QED BY <4>2, <3>1, <3>4, <2>1, <1>1, <1>7, <1>9
    <3>5. CASE d # p /\ d # y /\ d # l[y]
      BY <3>1, <3>5, <2>1, <1>3, <1>9
    <3> QED BY <3>2, <3>3, <3>4, <3>5
  <2> QED BY <2>2, <2>3, <2>4
<1>19. SubtreesOK(N, l2, r2, up2, sub2)
  BY <1>8, <1>15, <1>17, <1>18 DEF SubtreesOK
<1> QED BY <1>1, <1>10, <1>16, <1>19 DEF Shape, l2, r2, up2, sub2

\* The order of the keys, and the order in the mirrored tree.
Less == {e \in Int \X Int : e[1] < e[2]}
Greater == {e \in Int \X Int : e[1] > e[2]}

\* The two orders are mirror images of each other.
Inverses(N, R, Q) == \A a, b \in N : <<a, b>> \in R <=> <<b, a>> \in Q

\* Smaller and greater are orders, and mirror images of each other.
LEMMA LessGreater ==
  ASSUME NEW N, N \subseteq Int
  PROVE  /\ Inverses(N, Less, Greater) /\ Inverses(N, Greater, Less)
         /\ StrictOrderOn(N, Less)
         /\ StrictOrderOn(N, Greater)
<1>1. \A a, b \in N : (<<a, b>> \in Less <=> a < b) /\ (<<a, b>> \in Greater <=> b < a)
  BY DEF Less, Greater
<1>2. \A a \in N : <<a, a>> \notin Less /\ <<a, a>> \notin Greater
  BY <1>1
<1>3. \A a, b, c \in N : <<a, b>> \in Less /\ <<b, c>> \in Less => <<a, c>> \in Less
  BY <1>1
<1>4. \A a, b, c \in N : <<a, b>> \in Greater /\ <<b, c>> \in Greater => <<a, c>> \in Greater
  BY <1>1
<1>5. Inverses(N, Less, Greater) /\ Inverses(N, Greater, Less)
  BY <1>1 DEF Inverses
<1> QED BY <1>2, <1>3, <1>4, <1>5 DEF StrictOrderOn

\* The mirror image of a search tree is a search tree in the inverse order.
LEMMA MirrorShape ==
  ASSUME NEW N, NEW R, NEW Q, Inverses(N, R, Q), NEW l, NEW r, NEW up, NEW sub,
         Shape(N, R, l, r, up, sub)
  PROVE  Shape(N, Q, r, l, up, sub)
<1>1. StrictOrderOn(N, Q)
  <2>1. \A a \in N : <<a, a>> \notin Q
    BY DEF Shape, StrictOrderOn, Inverses
  <2>2. \A a, b, c \in N : <<a, b>> \in Q /\ <<b, c>> \in Q => <<a, c>> \in Q
    BY DEF Shape, StrictOrderOn, Inverses
  <2> QED BY <2>1, <2>2 DEF StrictOrderOn
<1>2. LinksOK(N, r, l, up)
  BY DEF Shape, LinksOK
<1>3. SubtreesOK(N, r, l, up, sub)
  BY DEF Shape, SubtreesOK
<1>4. \A k \in N : Below(sub, l[k]) \subseteq N /\ Below(sub, r[k]) \subseteq N
  BY DEF Shape, LinksOK, SubtreesOK, Below
<1>5. SearchOK(N, Q, r, l, sub)
  BY <1>4 DEF Shape, SearchOK, Inverses
<1> QED BY <1>1, <1>2, <1>3, <1>5 DEF Shape

\* All nodes are below the root.
Rooted(N, up, rt, sub) ==
  IF rt = Null THEN N = {} ELSE rt \in N /\ up[rt] = Null /\ sub[rt] = N

\* The root after a rotation of p that puts y in its place.
RootOf(up, rt, p, y) == IF up[p] = Null THEN y ELSE rt

\* After a rotation all nodes are below the root that RootAbove names.
LEMMA RotationKeepsRoot ==
  ASSUME NEW N, NEW R, NEW l, NEW r, NEW up, NEW rt, NEW sub, NEW p \in N, NEW y,
         Shape(N, R, l, r, up, sub), y = r[p], y # Null, Rooted(N, up, rt, sub)
  PROVE  Rooted(N, UpOf(N, l, up, p, y), RootOf(up, rt, p, y), SubOf(N, l, sub, p, y))
<1>1. /\ Null \notin N /\ y \in N /\ up[y] = p
      /\ rt \in N /\ up[rt] = Null /\ sub[rt] = N
      /\ \A n \in N : l[n] \in N \cup {Null}
      /\ \A n \in N : sub[n] \subseteq N
  BY DEF Shape, LinksOK, SubtreesOK, Rooted
<1>2. y # p
  BY DEF Shape, SearchOK, LinksOK, SubtreesOK, StrictOrderOn, Below
<1>3. UpOf(N, l, up, p, y)[y] = up[p] /\ SubOf(N, l, sub, p, y)[y] = sub[p]
  BY <1>1, <1>2 DEF UpOf, SubOf
<1>4. CASE up[p] = Null
  <2>1. p = rt
    BY <1>1, <1>4 DEF Shape, SubtreesOK
  <2> QED BY <1>1, <1>3, <1>4, <2>1 DEF Rooted, RootOf
<1>5. CASE up[p] # Null
  <2>1. rt # p /\ rt # y
    BY <1>1, <1>5
  <2>2. l[y] # Null => up[l[y]] = y
    BY <1>1 DEF Shape, LinksOK
  <2>3. rt # l[y]
    BY <1>1, <2>2
  <2>4. UpOf(N, l, up, p, y)[rt] = Null /\ SubOf(N, l, sub, p, y)[rt] = N
    BY <1>1, <2>1, <2>3 DEF UpOf, SubOf
  <2> QED BY <1>1, <1>5, <2>4 DEF Rooted, RootOf
<1> QED BY <1>4, <1>5

\* The subtrees with a new leaf m below the node at_.
SubWith(N, sub, at_, m) == [n \in N \cup {m} |-> IF n = m THEN {m} ELSE IF at_ \in sub[n] THEN sub[n] \cup {m} ELSE sub[n]]

\* The path from the root to a node has a place for m below it.
LeadsTo(N, R, l, r, sub, a, m) ==
  \A k \in N : /\ a \in Below(sub, l[k]) => <<m, k>> \in R
               /\ a \in Below(sub, r[k]) => <<k, m>> \in R

\* A new left leaf where the path leads keeps the tree a search tree.
LEMMA AttachKeepsShape ==
  ASSUME NEW N, NEW R, NEW l, NEW r, NEW up, NEW sub, NEW a \in N, NEW m,
         Shape(N, R, l, r, up, sub), m \notin N, m # Null, StrictOrderOn(N \cup {m}, R),
         l[a] = Null, LeadsTo(N, R, l, r, sub, a, m), <<m, a>> \in R
  PROVE  Shape(N \cup {m}, R, With(With(l, a, m), m, Null), With(r, m, Null), With(up, m, a),
               SubWith(N, sub, a, m))
<1> DEFINE l2 == With(With(l, a, m), m, Null)
           r2 == With(r, m, Null)
           up2 == With(up, m, a)
           sub2 == SubWith(N, sub, a, m)
           M == N \cup {m}
<1>1. /\ Null \notin N
      /\ l \in [N -> N \cup {Null}] /\ r \in [N -> N \cup {Null}] /\ up \in [N -> N \cup {Null}]
      /\ sub \in [N -> SUBSET N]
  BY DEF Shape, LinksOK, SubtreesOK
<1>2. /\ \A k \in N : l[k] # Null => up[l[k]] = k
      /\ \A k \in N : r[k] # Null => up[r[k]] = k
      /\ \A k \in N : up[k] # Null => l[up[k]] = k \/ r[up[k]] = k
  BY DEF Shape, LinksOK
<1>3. /\ \A k \in N : sub[k] = {k} \cup Below(sub, l[k]) \cup Below(sub, r[k])
      /\ \A j \in N : \A d \in sub[j] : sub[d] \subseteq sub[j]
      /\ \A j \in N : \A d \in sub[j] : d # j => up[d] \in sub[j]
  BY DEF Shape, SubtreesOK
<1>4. /\ \A k \in N : \A d \in Below(sub, l[k]) : <<d, k>> \in R
      /\ \A k \in N : \A d \in Below(sub, r[k]) : <<k, d>> \in R
  BY DEF Shape, SearchOK
<1>5. /\ l2 \in [M -> M \cup {Null}] /\ r2 \in [M -> M \cup {Null}] /\ up2 \in [M -> M \cup {Null}]
      /\ sub2 \in [M -> SUBSET M]
  BY <1>1 DEF With, SubWith
<1>6. /\ l2[m] = Null /\ r2[m] = Null /\ up2[m] = a /\ sub2[m] = {m}
      /\ \A n \in N : n # m
      /\ \A n \in N : l2[n] = IF n = a THEN m ELSE l[n]
      /\ \A n \in N : r2[n] = r[n]
      /\ \A n \in N : up2[n] = up[n]
      /\ \A n \in N : sub2[n] = IF a \in sub[n] THEN sub[n] \cup {m} ELSE sub[n]
  BY <1>1 DEF With, SubWith
<1> HIDE DEF l2, r2, up2, sub2
<1>7. LinksOK(M, l2, r2, up2)
  <2>1. \A k \in M : l2[k] # Null => up2[l2[k]] = k
    BY <1>1, <1>2, <1>6
  <2>2. \A k \in M : r2[k] # Null => up2[r2[k]] = k
    BY <1>1, <1>2, <1>6
  <2>3. \A k \in M : up2[k] # Null => l2[up2[k]] = k \/ r2[up2[k]] = k
    <3> TAKE k \in M
    <3>1. CASE k = m BY <3>1, <1>6
    <3>2. CASE k \in N
      <4>1. k # Null BY <3>2, <1>1
      <4> QED BY <3>2, <4>1, <1>1, <1>2, <1>6
    <3> QED BY <3>1, <3>2
  <2> QED BY <1>5, <2>1, <2>2, <2>3 DEF LinksOK
<1>8. \A n \in N \cup {Null} : /\ Below(sub2, n) \subseteq Below(sub, n) \cup {m}
                               /\ m \in Below(sub2, n) <=> a \in Below(sub, n)
                               /\ Below(sub, n) \subseteq Below(sub2, n)
                               /\ Below(sub, n) \subseteq N
  BY <1>1, <1>6 DEF Below
<1>14. \A n \in N \cup {Null} : Below(sub2, n) = IF a \in Below(sub, n) THEN Below(sub, n) \cup {m}
                                                ELSE Below(sub, n)
  <2> TAKE n \in N \cup {Null}
  <2>1. CASE n = Null BY <2>1 DEF Below
  <2>2. CASE n # Null
    <3>1. n \in N /\ Below(sub2, n) = sub2[n] /\ Below(sub, n) = sub[n]
      BY <2>2 DEF Below
    <3> QED BY <3>1, <1>6
  <2> QED BY <2>1, <2>2
<1>9. Below(sub2, m) = {m} /\ Below(sub2, Null) = {}
  BY <1>6 DEF Below
<1>10. \A k \in M : sub2[k] = {k} \cup Below(sub2, l2[k]) \cup Below(sub2, r2[k])
  <2> TAKE k \in M
  <2>1. CASE k = m
    BY <2>1, <1>6, <1>9
  <2>2. CASE k = a
    <3>1. a \in sub[a] /\ Below(sub, l[a]) = {}
      BY <1>3 DEF Below
    <3>2. sub2[a] = sub[a] \cup {m} /\ l2[a] = m /\ r2[a] = r[a] /\ sub[a] = {a} \cup Below(sub, r[a])
      BY <3>1, <1>3, <1>6
    <3>3. a \notin Below(sub, r[a])
      BY <1>4 DEF Shape, StrictOrderOn
    <3>4. Below(sub2, r[a]) = Below(sub, r[a])
      BY <3>3, <1>1, <1>8
    <3> QED BY <2>2, <3>2, <3>4, <1>9
  <2>3. CASE k \in N /\ k # a
    <3>1. l2[k] = l[k] /\ r2[k] = r[k] /\ l[k] \in N \cup {Null} /\ r[k] \in N \cup {Null}
      BY <2>3, <1>1, <1>6
    <3>2. sub[k] = {k} \cup Below(sub, l[k]) \cup Below(sub, r[k])
      BY <2>3, <1>3
    <3>3. CASE a \in sub[k]
      <4>1. a \in Below(sub, l[k]) \/ a \in Below(sub, r[k])
        BY <3>2, <3>3, <2>3
      <4>2. sub2[k] = sub[k] \cup {m}
        BY <2>3, <3>3, <1>6
      <4> QED BY <3>1, <3>2, <4>1, <4>2, <1>8
    <3>4. CASE a \notin sub[k]
      <4>1. a \notin Below(sub, l[k]) /\ a \notin Below(sub, r[k])
        BY <3>2, <3>4
      <4>2. Below(sub2, l[k]) = Below(sub, l[k]) /\ Below(sub2, r[k]) = Below(sub, r[k])
        BY <3>1, <4>1, <1>14
      <4>3. sub2[k] = sub[k]
        BY <2>3, <3>4, <1>6
      <4> QED BY <3>1, <3>2, <4>2, <4>3
    <3> QED BY <3>3, <3>4
  <2> QED BY <2>1, <2>2, <2>3
<1>11. \A j \in M : \A d \in sub2[j] : sub2[d] \subseteq sub2[j]
  <2> TAKE j \in M
  <2> TAKE d \in sub2[j]
  <2>1. CASE d = m BY <2>1, <1>6
  <2>2. CASE d # m
    <3>1. j # m /\ j \in N /\ d \in sub[j] /\ d \in N
      BY <2>2, <1>1, <1>6
    <3>2. a \in sub[d] => a \in sub[j]
      BY <3>1, <1>3
    <3>3. sub[d] \subseteq sub[j]
      BY <3>1, <1>3
    <3>4. sub2[d] = IF a \in sub[d] THEN sub[d] \cup {m} ELSE sub[d]
      BY <3>1, <1>6
    <3>5. sub2[j] = IF a \in sub[j] THEN sub[j] \cup {m} ELSE sub[j]
      BY <3>1, <1>6
    <3> QED BY <3>2, <3>3, <3>4, <3>5
  <2> QED BY <2>1, <2>2
<1>12. \A j \in M : \A d \in sub2[j] : d # j => up2[d] \in sub2[j]
  <2> TAKE j \in M
  <2> TAKE d \in sub2[j]
  <2> HAVE d # j
  <2>1. CASE d = m BY <2>1, <1>1, <1>6
  <2>2. CASE d # m
    <3>1. j # m /\ j \in N /\ d \in sub[j] /\ d \in N
      BY <2>2, <1>1, <1>6
    <3> QED BY <3>1, <1>3, <1>6
  <2> QED BY <2>1, <2>2
<1>13. SearchOK(M, R, l2, r2, sub2)
  <2> SUFFICES ASSUME NEW k \in M
               PROVE  /\ \A d \in Below(sub2, l2[k]) : <<d, k>> \in R
                      /\ \A d \in Below(sub2, r2[k]) : <<k, d>> \in R
    BY DEF SearchOK
  <2>1. CASE k = m BY <2>1, <1>6, <1>9
  <2>2. CASE k \in N
    <3>1. \A d \in Below(sub2, r2[k]) : <<k, d>> \in R
      <4>1. r2[k] = r[k] /\ r[k] \in N \cup {Null}
        BY <2>2, <1>1, <1>6
      <4>2. a \in Below(sub, r[k]) => <<k, m>> \in R
        BY <2>2 DEF LeadsTo
      <4>3. \A d \in Below(sub, r[k]) : <<k, d>> \in R
        BY <2>2, <1>4
      <4> QED BY <4>1, <4>2, <4>3, <1>14
    <3>2. CASE k = a
      BY <3>1, <3>2, <1>6, <1>9
    <3>3. CASE k # a
      <4>1. \A d \in Below(sub2, l2[k]) : <<d, k>> \in R
        <5>1. l2[k] = l[k] /\ l[k] \in N \cup {Null}
          BY <2>2, <3>3, <1>1, <1>6
        <5>2. a \in Below(sub, l[k]) => <<m, k>> \in R
          BY <2>2 DEF LeadsTo
        <5>3. \A d \in Below(sub, l[k]) : <<d, k>> \in R
          BY <2>2, <1>4
        <5> QED BY <5>1, <5>2, <5>3, <1>14
      <4> QED BY <3>1, <4>1
    <3> QED BY <3>2, <3>3
  <2> QED BY <2>1, <2>2
<1> QED BY <1>1, <1>5, <1>7, <1>10, <1>11, <1>12, <1>13 DEF Shape, SubtreesOK, l2, r2, up2, sub2

\* One step down to the left stays on the path to the new key.
LEMMA DescentKeepsLeadsTo ==
  ASSUME NEW N, NEW R, NEW l, NEW r, NEW up, NEW sub, NEW a \in N, NEW m,
         Shape(N, R, l, r, up, sub), LeadsTo(N, R, l, r, sub, a, m), m # a,
         l[a] # Null, <<m, a>> \in R, m \in N => m \in sub[a]
  PROVE  /\ l[a] \in N
         /\ LeadsTo(N, R, l, r, sub, l[a], m)
         /\ m \in N => m \in sub[l[a]]
<1>1. /\ Null \notin N /\ l[a] \in N
      /\ \A k \in N : l[k] \in N \cup {Null} /\ r[k] \in N \cup {Null}
      /\ \A k \in N : l[k] # Null => up[l[k]] = k
      /\ \A k \in N : r[k] # Null => up[r[k]] = k
  BY DEF Shape, LinksOK
<1>2. /\ \A k \in N : sub[k] = {k} \cup Below(sub, l[k]) \cup Below(sub, r[k])
      /\ \A j \in N : \A d \in sub[j] : d # j => up[d] \in sub[j]
  BY DEF Shape, SubtreesOK
<1>3. /\ \A k \in N : \A d \in Below(sub, l[k]) : <<d, k>> \in R
      /\ \A k \in N : \A d \in Below(sub, r[k]) : <<k, d>> \in R
      /\ \A c \in N : <<c, c>> \notin R
      /\ \A c, d, e \in N : <<c, d>> \in R /\ <<d, e>> \in R => <<c, e>> \in R
  BY DEF Shape, SearchOK, StrictOrderOn
<1>4. l[a] # r[a]
  BY <1>1, <1>2, <1>3 DEF Below
<1>5. ASSUME NEW k \in N, l[a] \in Below(sub, l[k]) PROVE <<m, k>> \in R
  <2>1. l[k] \in N /\ Below(sub, l[k]) = sub[l[k]]
    BY <1>5, <1>1 DEF Below
  <2>2. CASE l[a] = l[k]
    <3>1. k = a BY <2>2, <1>1
    <3> QED BY <3>1
  <2>3. CASE l[a] # l[k]
    <3>1. a \in sub[l[k]] BY <1>5, <2>1, <2>3, <1>1, <1>2
    <3> QED BY <3>1, <2>1 DEF LeadsTo
  <2> QED BY <2>2, <2>3
<1>6. ASSUME NEW k \in N, l[a] \in Below(sub, r[k]) PROVE <<k, m>> \in R
  <2>1. r[k] \in N /\ Below(sub, r[k]) = sub[r[k]]
    BY <1>6, <1>1 DEF Below
  <2>2. CASE l[a] = r[k]
    <3>1. k = a BY <2>2, <1>1
    <3> QED BY <3>1, <2>2, <1>4
  <2>3. CASE l[a] # r[k]
    <3>1. a \in sub[r[k]] BY <1>6, <2>1, <2>3, <1>1, <1>2
    <3> QED BY <3>1, <2>1 DEF LeadsTo
  <2> QED BY <2>2, <2>3
<1>7. ASSUME m \in N PROVE m \in sub[l[a]]
  <2>1. m \in Below(sub, l[a]) \/ m \in Below(sub, r[a])
    BY <1>7, <1>2
  <2>2. m \notin Below(sub, r[a])
    BY <1>7, <1>3
  <2> QED BY <2>1, <2>2, <1>1 DEF Below
<1> QED BY <1>1, <1>5, <1>6, <1>7 DEF LeadsTo

\* A path in the tree is a path in its mirror image.
LEMMA MirrorLeadsTo ==
  ASSUME NEW N, NEW m, NEW R, NEW Q, Inverses(N \cup {m}, R, Q), NEW l, NEW r, NEW sub, NEW a,
         LeadsTo(N, R, l, r, sub, a, m)
  PROVE  LeadsTo(N, Q, r, l, sub, a, m)
BY DEF LeadsTo, Inverses
\* The height of the subtree a pointer leads to.
Tall(g, n) == IF n = Null THEN 0 ELSE g[n]
\* The greater one of two heights.
Higher(a, b) == IF a <= b THEN b ELSE a

\* g holds heights that fit the balancing factors. The subtree of the node grown is
\* already one higher than g says, and its parent does not know yet.
HeightsFit(N, l, r, b, g, grown) ==
  /\ g \in [N -> Nat]
  /\ b \in [N -> {-1, 0, 1}]
  /\ \A k \in N : b[k] = Tall(g, r[k]) - Tall(g, l[k])
  /\ \A k \in N : g[k] = Higher(Tall(g, l[k]), Tall(g, r[k])) + IF k = grown THEN 0 ELSE 1
  /\ grown \in N /\ b[grown] = 0 => g[grown] = 0

\* The balancing factors of the mirrored tree.
Negated(N, b) == [k \in N |-> - b[k]]

\* The heights of a tree fit its mirror image.
LEMMA MirrorHeights ==
  ASSUME NEW N, NEW l, NEW r, NEW b, NEW g, NEW grown, HeightsFit(N, l, r, b, g, grown),
         l \in [N -> N \cup {Null}], r \in [N -> N \cup {Null}]
  PROVE  HeightsFit(N, r, l, Negated(N, b), g, grown)
<1>1. \A k \in N : Tall(g, l[k]) \in Nat /\ Tall(g, r[k]) \in Nat
  BY DEF HeightsFit, Tall
<1>2. \A k \in N : Negated(N, b)[k] = - b[k] /\ b[k] \in {-1, 0, 1}
  BY DEF Negated, HeightsFit
<1>3. \A k \in N : Higher(Tall(g, l[k]), Tall(g, r[k])) = Higher(Tall(g, r[k]), Tall(g, l[k]))
  BY <1>1 DEF Higher
<1>4. Negated(N, b) \in [N -> {-1, 0, 1}]
  BY <1>2 DEF Negated
<1>5. \A k \in N : Negated(N, b)[k] = Tall(g, l[k]) - Tall(g, r[k])
  BY <1>1, <1>2 DEF HeightsFit
<1>6. grown \in N /\ Negated(N, b)[grown] = 0 => g[grown] = 0
  BY <1>2 DEF HeightsFit
<1>7. g \in [N -> Nat] /\ \A k \in N : g[k] = Higher(Tall(g, r[k]), Tall(g, l[k])) + IF k = grown THEN 0 ELSE 1
  BY <1>3 DEF HeightsFit
<1> HIDE DEF Negated
<1> QED BY <1>4, <1>5, <1>6, <1>7 DEF HeightsFit

\* What heights and the links to a node and its parent say of a rotation to the left.
LEMMA RotationKeepsHeights ==
  ASSUME NEW N, NEW R, NEW l, NEW r, NEW up, NEW sub, NEW b, NEW g, NEW p \in N, NEW y,
         Shape(N, R, l, r, up, sub), y = r[p], y # Null, HeightsFit(N, l, r, b, g, y),
         b[p] = 1, b[y] \in {0, 1}
  PROVE  HeightsFit(N, LeftOf(N, l, p, y), RightOf(N, l, r, p, y), [b EXCEPT ![p] = 0, ![y] = 0],
                    [g EXCEPT ![p] = g[p] - 1, ![y] = g[p]], Null)
<1> DEFINE l2 == LeftOf(N, l, p, y)
           r2 == RightOf(N, l, r, p, y)
           b2 == [b EXCEPT ![p] = 0, ![y] = 0]
           g2 == [g EXCEPT ![p] = g[p] - 1, ![y] = g[p]]
<1>1. /\ Null \notin N /\ y \in N /\ up[y] = p
      /\ \A k \in N : l[k] \in N \cup {Null} /\ r[k] \in N \cup {Null}
      /\ \A k \in N : l[k] # Null => up[l[k]] = k
      /\ \A k \in N : r[k] # Null => up[r[k]] = k
  BY DEF Shape, LinksOK
<1>2. \A k \in N : k \in sub[k] /\ <<k, k>> \notin R
  BY DEF Shape, SubtreesOK, StrictOrderOn
<1>3. \A k \in N : l[k] # k /\ r[k] # k
  BY <1>1, <1>2 DEF Shape, SearchOK, Below
<1>4. \A k \in N : l[k] # Null => l[k] # r[k]
  <2> TAKE k \in N
  <2> SUFFICES ASSUME l[k] # Null, l[k] = r[k] PROVE FALSE
    OBVIOUS
  <2>1. l[k] \in Below(sub, l[k]) /\ l[k] \in Below(sub, r[k]) /\ l[k] \in N
    BY <1>1, <1>2 DEF Below
  <2>2. <<l[k], k>> \in R /\ <<k, l[k]>> \in R
    BY <2>1 DEF Shape, SearchOK
  <2>3. <<k, k>> \in R
    BY <2>1, <2>2 DEF Shape, StrictOrderOn
  <2> QED BY <2>3, <1>2
<1>5. l[p] # y /\ l[y] # p /\ r[y] # p
  <2>1. l[p] # y BY <1>1, <1>4
  <2>2. p \notin sub[y]
    BY <1>1, <1>2 DEF Shape, SearchOK, Below
  <2>3. Below(sub, l[y]) \subseteq sub[y] /\ Below(sub, r[y]) \subseteq sub[y]
    BY <1>1 DEF Shape, SubtreesOK
  <2>4. l[y] # p /\ r[y] # p
    BY <2>2, <2>3, <1>1, <1>2 DEF Below
  <2> QED BY <2>1, <2>4
<1>6. /\ g \in [N -> Nat] /\ b \in [N -> {-1, 0, 1}]
      /\ \A k \in N : Tall(g, l[k]) \in Nat /\ Tall(g, r[k]) \in Nat
      /\ \A k \in N : b[k] = Tall(g, r[k]) - Tall(g, l[k])
      /\ \A k \in N : g[k] = Higher(Tall(g, l[k]), Tall(g, r[k])) + IF k = y THEN 0 ELSE 1
      /\ b[y] = 0 => g[y] = 0
  BY <1>1 DEF HeightsFit, Tall
<1> DEFINE H == Tall(g, l[p])
<1>7. /\ H \in Nat /\ g[y] = H + 1 /\ g[p] = H + 2
      /\ b[y] = 1 /\ Tall(g, l[y]) = H /\ Tall(g, r[y]) = H + 1
  <2>1. Tall(g, r[p]) = g[y] /\ p # y
    BY <1>1, <1>3 DEF Tall
  <2>2. H \in Nat /\ g[y] \in Nat /\ g[y] - H = 1
    BY <2>1, <1>6
  <2>3. g[p] = H + 2
    BY <2>1, <2>2, <1>6 DEF Higher
  <2>4. b[y] = 1
    BY <2>2, <1>6
  <2>5. /\ Tall(g, l[y]) \in Nat /\ Tall(g, r[y]) \in Nat /\ Tall(g, r[y]) - Tall(g, l[y]) = 1
        /\ g[y] = Higher(Tall(g, l[y]), Tall(g, r[y]))
    BY <2>4, <1>1, <1>6 DEF Higher
  <2> HIDE DEF H
  <2>6. Tall(g, l[y]) = H /\ Tall(g, r[y]) = H + 1
    BY <2>2, <2>5 DEF Higher
  <2> QED BY <2>2, <2>3, <2>4, <2>6
<1>8. /\ g2 \in [N -> Nat] /\ b2 \in [N -> {-1, 0, 1}]
      /\ g2[p] = H + 1 /\ g2[y] = H + 2 /\ b2[p] = 0 /\ b2[y] = 0
      /\ \A k \in N : k # p /\ k # y => g2[k] = g[k] /\ b2[k] = b[k]
  <2>1. g[p] - 1 \in Nat /\ g[p] - 1 = H + 1 /\ g[p] \in Nat /\ p # y
    BY <1>1, <1>3, <1>7
  <2> QED BY <2>1, <1>1, <1>6, <1>7
<1>9. /\ l2[y] = p /\ l2[p] = l[p] /\ r2[y] = r[y] /\ r2[p] = l[y]
      /\ \A k \in N : k # p /\ k # y => l2[k] = (IF l[k] = p THEN y ELSE l[k]) /\ r2[k] = (IF r[k] = p THEN y ELSE r[k])
  BY <1>1, <1>3, <1>5 DEF LeftOf, RightOf
<1> HIDE DEF l2, r2, g2, b2, H
<1>10. \A n \in N \cup {Null} : n # p /\ n # y => Tall(g2, n) = Tall(g, n)
  BY <1>8 DEF Tall
<1>11. Tall(g2, p) = H + 1 /\ Tall(g2, y) = H + 2 /\ Tall(g, p) = H + 2
  BY <1>1, <1>7, <1>8 DEF Tall
<1>12. ASSUME NEW k \in N, k # p, k # y
       PROVE  Tall(g2, l2[k]) = Tall(g, l[k]) /\ Tall(g2, r2[k]) = Tall(g, r[k])
  <2>1. l[k] # y /\ r[k] # y
    BY <1>12, <1>1
  <2> QED BY <2>1, <1>1, <1>9, <1>10, <1>11, <1>12
<1>13. /\ Tall(g2, l2[p]) = H /\ Tall(g2, r2[p]) = H
       /\ Tall(g2, l2[y]) = H + 1 /\ Tall(g2, r2[y]) = H + 1
  <2>1. Tall(g2, l[p]) = H
    BY <1>1, <1>3, <1>5, <1>10 DEF H
  <2>2. Tall(g2, l[y]) = H
    BY <1>1, <1>3, <1>5, <1>7, <1>10
  <2>3. Tall(g2, r[y]) = H + 1
    BY <1>1, <1>3, <1>5, <1>7, <1>10
  <2> QED BY <2>1, <2>2, <2>3, <1>9, <1>11
<1>14. ASSUME NEW k \in N
       PROVE  /\ b2[k] = Tall(g2, r2[k]) - Tall(g2, l2[k])
              /\ g2[k] = Higher(Tall(g2, l2[k]), Tall(g2, r2[k])) + 1
  <2>1. CASE k = p BY <2>1, <1>7, <1>8, <1>13 DEF Higher
  <2>2. CASE k = y BY <2>2, <1>7, <1>8, <1>13 DEF Higher
  <2>3. CASE k # p /\ k # y
    BY <2>3, <1>6, <1>8, <1>12
  <2> QED BY <2>1, <2>2, <2>3
<1>15. HeightsFit(N, l2, r2, b2, g2, Null)
  BY <1>1, <1>8, <1>14 DEF HeightsFit
<1> QED BY <1>15 DEF l2, r2, g2, b2
-----------------------------------------------------------------------------
(* Double rotations: two rotations, of the child and of its parent.        *)

\* The pointers after a double rotation of p, its left child x and the right child z of
\* x.
DoubleLeft(N, l, r, p, x, z) ==
  [n \in N |-> IF n = z THEN x ELSE IF n = p THEN r[z] ELSE IF l[n] = p THEN z ELSE l[n]]
DoubleRight(N, l, r, p, x, z) ==
  [n \in N |-> IF n = z THEN p ELSE IF n = x THEN l[z] ELSE IF r[n] = p THEN z ELSE r[n]]
DoubleUp(N, l, r, up, p, x, z) ==
  [n \in N |-> IF n = x \/ n = p THEN z ELSE IF n = z THEN up[p]
               ELSE IF n = l[z] THEN x ELSE IF n = r[z] THEN p ELSE up[n]]

\* The nodes of a double rotation differ, and are where their names say.
LEMMA NodesOfDoubleRotation ==
  ASSUME NEW N, NEW R, NEW l, NEW r, NEW up, NEW sub, NEW p \in N, NEW x, NEW z,
         Shape(N, R, l, r, up, sub), x = l[p], x # Null, z = r[x], z # Null
  PROVE  /\ x \in N /\ z \in N /\ up[x] = p /\ up[z] = x
         /\ p # x /\ p # z /\ x # z
         /\ l[p] # p /\ r[p] # p /\ r[p] # x /\ r[p] # z
         /\ l[x] # p /\ l[x] # x /\ l[x] # z
         /\ l[z] # p /\ l[z] # x /\ l[z] # z
         /\ r[z] # p /\ r[z] # x /\ r[z] # z
         /\ l[z] # Null => l[z] # r[z] /\ up[l[z]] = z
         /\ r[z] # Null => up[r[z]] = z
<1>1. /\ Null \notin N /\ x \in N /\ z \in N /\ up[x] = p /\ up[z] = x
      /\ \A k \in N : l[k] \in N \cup {Null} /\ r[k] \in N \cup {Null}
      /\ \A k \in N : l[k] # Null => up[l[k]] = k
      /\ \A k \in N : r[k] # Null => up[r[k]] = k
  BY DEF Shape, LinksOK
<1>2. /\ \A k \in N : sub[k] = {k} \cup Below(sub, l[k]) \cup Below(sub, r[k])
      /\ \A k \in N : \A d \in Below(sub, l[k]) : <<d, k>> \in R
      /\ \A k \in N : \A d \in Below(sub, r[k]) : <<k, d>> \in R
      /\ \A k \in N : <<k, k>> \notin R
  BY DEF Shape, SubtreesOK, SearchOK, StrictOrderOn
<1>3. /\ \A k \in N : l[k] # Null => /\ l[k] \in sub[k] /\ l[k] \in Below(sub, l[k]) /\ sub[l[k]] \subseteq sub[k]
                                     /\ Below(sub, l[k]) = sub[l[k]]
      /\ \A k \in N : r[k] # Null => /\ r[k] \in sub[k] /\ r[k] \in Below(sub, r[k]) /\ sub[r[k]] \subseteq sub[k]
                                     /\ Below(sub, r[k]) = sub[r[k]]
  BY <1>1, <1>2 DEF Below
<1>4. \A k \in N : l[k] # k /\ r[k] # k
  BY <1>1, <1>2, <1>3
<1>5. \A k \in N : l[k] # Null => l[k] # r[k]
  <2> TAKE k \in N
  <2> SUFFICES ASSUME l[k] # Null, l[k] = r[k] PROVE FALSE
    OBVIOUS
  <2>1. <<l[k], k>> \in R /\ <<k, l[k]>> \in R /\ l[k] \in N
    BY <1>1, <1>2, <1>3
  <2> QED BY <2>1, <1>2 DEF Shape, StrictOrderOn
<1>6. /\ p \notin sub[x] /\ x \notin sub[z] /\ p \notin sub[z]
      /\ \A n \in N : n \in sub[n]
  <2>1. sub[x] = Below(sub, l[p]) /\ sub[z] = Below(sub, r[x]) /\ sub[z] \subseteq sub[x]
    BY <1>1, <1>3
  <2>2. \A k \in N : k \notin Below(sub, l[k]) /\ k \notin Below(sub, r[k])
    BY <1>2
  <2>4. \A n \in N : n \in sub[n] BY <1>2
  <2> QED BY <2>1, <2>2, <2>4, <1>1
<1>7. p # x /\ p # z /\ x # z /\ r[p] # x
  BY <1>1, <1>3, <1>5, <1>6
<1>8. l[x] # p /\ l[z] # p /\ r[z] # p /\ l[z] # x /\ r[z] # x
  BY <1>1, <1>3, <1>6
<1>9. r[p] # z /\ l[x] # z
  <2>1. l[x] # z BY <1>1, <1>5
  <2>2. r[p] # z BY <1>1, <1>7
  <2> QED BY <2>1, <2>2
<1> QED BY <1>1, <1>4, <1>5, <1>7, <1>8, <1>9

\* The pointers a double rotation writes are those of two rotations in a row.
LEMMA DoubleRotationIsTwoRotations ==
  ASSUME NEW N, NEW R, NEW l, NEW r, NEW up, NEW sub, NEW p \in N, NEW x, NEW z,
         Shape(N, R, l, r, up, sub), x = l[p], x # Null, z = r[x], z # Null,
         NEW l1, l1 = LeftOf(N, l, x, z), NEW r1, r1 = RightOf(N, l, r, x, z),
         NEW up1, up1 = UpOf(N, l, up, x, z)
  PROVE  /\ l1[p] = z /\ up1[p] = up[p] /\ up[x] # Null
         /\ LeftOf(N, r1, p, z) = DoubleRight(N, l, r, p, x, z)
         /\ RightOf(N, r1, l1, p, z) = DoubleLeft(N, l, r, p, x, z)
         /\ UpOf(N, r1, up1, p, z) = DoubleUp(N, l, r, up, p, x, z)
<1>1. /\ x \in N /\ z \in N /\ up[x] = p /\ up[z] = x
      /\ p # x /\ p # z /\ x # z
      /\ l[p] # p /\ r[p] # p /\ r[p] # x /\ r[p] # z
      /\ l[x] # p /\ l[x] # x /\ l[x] # z
      /\ l[z] # p /\ l[z] # x /\ l[z] # z
      /\ r[z] # p /\ r[z] # x /\ r[z] # z
      /\ l[z] # Null => l[z] # r[z] /\ up[l[z]] = z
      /\ r[z] # Null => up[r[z]] = z
  BY NodesOfDoubleRotation
<1>2. /\ Null \notin N
      /\ \A k \in N : l[k] \in N \cup {Null} /\ r[k] \in N \cup {Null}
      /\ \A k \in N : l[k] # Null => up[l[k]] = k
      /\ \A k \in N : r[k] # Null => up[r[k]] = k
  BY DEF Shape, LinksOK
<1>3. /\ \A n \in N : l1[n] = IF n = z THEN x ELSE IF l[n] = x THEN z ELSE l[n]
      /\ \A n \in N : r1[n] = IF n = x THEN l[z] ELSE IF r[n] = x THEN z ELSE r[n]
      /\ \A n \in N : up1[n] = IF n = x THEN z ELSE IF n = z THEN up[x]
                               ELSE IF n = l[z] THEN x ELSE up[n]
  BY DEF LeftOf, RightOf, UpOf
<1>4. /\ \A n \in N : l[n] = x <=> n = p
      /\ \A n \in N : r[n] # x
  BY <1>1, <1>2
<1>5. l1[p] = z /\ up1[p] = up[p] /\ r1[z] = r[z]
  <2>1. p # l[z]
    BY <1>1
  <2> QED BY <2>1, <1>1, <1>3, <1>4
<1>6. LeftOf(N, r1, p, z) = DoubleRight(N, l, r, p, x, z)
  <2>1. \A n \in N : (IF n = z THEN p ELSE IF r1[n] = p THEN z ELSE r1[n])
                     = (IF n = z THEN p ELSE IF n = x THEN l[z] ELSE IF r[n] = p THEN z ELSE r[n])
    BY <1>1, <1>3, <1>4
  <2> QED BY <2>1 DEF LeftOf, DoubleRight
<1>7. RightOf(N, r1, l1, p, z) = DoubleLeft(N, l, r, p, x, z)
  <2>1. \A n \in N : (IF n = p THEN r1[z] ELSE IF l1[n] = p THEN z ELSE l1[n])
                     = (IF n = z THEN x ELSE IF n = p THEN r[z] ELSE IF l[n] = p THEN z ELSE l[n])
    BY <1>1, <1>3, <1>4, <1>5
  <2> QED BY <2>1 DEF RightOf, DoubleLeft
<1>8. UpOf(N, r1, up1, p, z) = DoubleUp(N, l, r, up, p, x, z)
  <2>1. ASSUME NEW n \in N
        PROVE (IF n = p THEN z ELSE IF n = z THEN up1[p] ELSE IF n = r1[z] THEN p ELSE up1[n])
              = (IF n = x \/ n = p THEN z ELSE IF n = z THEN up[p]
                 ELSE IF n = l[z] THEN x ELSE IF n = r[z] THEN p ELSE up[n])
    <3>1. CASE n = l[z] \/ n = r[z]
      BY <3>1, <1>1, <1>2, <1>3, <1>5
    <3>2. CASE n # l[z] /\ n # r[z]
      BY <3>2, <1>1, <1>3, <1>5
    <3> QED BY <3>1, <3>2
  <2> QED BY <2>1 DEF UpOf, DoubleUp
<1> QED BY <1>1, <1>2, <1>5, <1>6, <1>7, <1>8

\* The subtrees after a double rotation.
DoubleSub(N, l, r, sub, p, x, z) ==
  SubOf(N, RightOf(N, l, r, x, z), SubOf(N, l, sub, x, z), p, z)

\* A double rotation keeps a search tree a search tree with all nodes below its root.
LEMMA DoubleRotationKeepsShape ==
  ASSUME NEW N, NEW R, NEW Q, Inverses(N, R, Q), Inverses(N, Q, R),
         NEW l, NEW r, NEW up, NEW rt, NEW sub, NEW p \in N, NEW x, NEW z,
         Shape(N, R, l, r, up, sub), Rooted(N, up, rt, sub), x = l[p], x # Null, z = r[x], z # Null
  PROVE  /\ Shape(N, R, DoubleLeft(N, l, r, p, x, z), DoubleRight(N, l, r, p, x, z),
                  DoubleUp(N, l, r, up, p, x, z), DoubleSub(N, l, r, sub, p, x, z))
         /\ Rooted(N, DoubleUp(N, l, r, up, p, x, z), RootOf(up, rt, p, z), DoubleSub(N, l, r, sub, p, x, z))
<1> DEFINE l1 == LeftOf(N, l, x, z)
           r1 == RightOf(N, l, r, x, z)
           up1 == UpOf(N, l, up, x, z)
           sub1 == SubOf(N, l, sub, x, z)
           sub2 == SubOf(N, r1, sub1, p, z)
<1>1. x \in N /\ z \in N
  BY NodesOfDoubleRotation
<1>2. Shape(N, R, l1, r1, up1, sub1)
  BY <1>1, RotationKeepsShape
<1>3. /\ l1[p] = z /\ up1[p] = up[p] /\ up[x] # Null
      /\ LeftOf(N, r1, p, z) = DoubleRight(N, l, r, p, x, z)
      /\ RightOf(N, r1, l1, p, z) = DoubleLeft(N, l, r, p, x, z)
      /\ UpOf(N, r1, up1, p, z) = DoubleUp(N, l, r, up, p, x, z)
  BY DoubleRotationIsTwoRotations
<1>4. Rooted(N, up1, rt, sub1)
  <2>1. Rooted(N, up1, RootOf(up, rt, x, z), sub1)
    BY <1>1, RotationKeepsRoot
  <2> QED BY <2>1, <1>3 DEF RootOf
<1> HIDE DEF l1, r1, up1, sub1
<1>5. Shape(N, Q, r1, l1, up1, sub1)
  BY <1>2, MirrorShape
<1>6. Shape(N, Q, LeftOf(N, r1, p, z), RightOf(N, r1, l1, p, z), UpOf(N, r1, up1, p, z), sub2)
  BY <1>3, <1>5, RotationKeepsShape
<1>7. Rooted(N, UpOf(N, r1, up1, p, z), RootOf(up1, rt, p, z), sub2)
  BY <1>3, <1>4, <1>5, RotationKeepsRoot
<1> HIDE DEF sub2
<1>8. Shape(N, R, RightOf(N, r1, l1, p, z), LeftOf(N, r1, p, z), UpOf(N, r1, up1, p, z), sub2)
  BY <1>6, MirrorShape
<1>9. RootOf(up1, rt, p, z) = RootOf(up, rt, p, z)
  BY <1>3 DEF RootOf
<1>10. sub2 = DoubleSub(N, l, r, sub, p, x, z)
  BY DEF sub2, sub1, r1, DoubleSub
<1> QED BY <1>3, <1>7, <1>8, <1>9, <1>10

\* A node that leans to one side has a child there, so that a double rotation follows no
\* null pointer.
LEMMA HeavyChildHasChild ==
  ASSUME NEW N, NEW l, NEW r, NEW b, NEW g, NEW x \in N, NEW grown,
         HeightsFit(N, l, r, b, g, grown), l[x] \in N \cup {Null}, b[x] = 1
  PROVE  r[x] # Null
BY DEF HeightsFit, Tall

\* The balancing factors a double rotation writes are right for the heights.
LEMMA DoubleRotationKeepsHeights ==
  ASSUME NEW N, NEW R, NEW l, NEW r, NEW up, NEW sub, NEW b, NEW g, NEW p \in N, NEW x, NEW z,
         Shape(N, R, l, r, up, sub), x = l[p], x # Null, z = r[x], z # Null,
         HeightsFit(N, l, r, b, g, x), b[p] = -1, b[x] = 1,
         NEW b3, b3 = [b EXCEPT ![p] = IF b[z] = -1 THEN 1 ELSE 0,
                                ![x] = IF b[z] = 1 THEN -1 ELSE 0,
                                ![z] = 0],
         NEW g3, g3 = [g EXCEPT ![p] = g[p] - 1, ![z] = g[p]]
  PROVE  HeightsFit(N, DoubleLeft(N, l, r, p, x, z), DoubleRight(N, l, r, p, x, z), b3, g3, Null)
<1> SUFFICES HeightsFit(N, DoubleLeft(N, l, r, p, x, z), DoubleRight(N, l, r, p, x, z),
               [b EXCEPT ![p] = IF b[z] = -1 THEN 1 ELSE 0,
                         ![x] = IF b[z] = 1 THEN -1 ELSE 0,
                         ![z] = 0],
               [g EXCEPT ![p] = g[p] - 1, ![z] = g[p]], Null)
  OBVIOUS
<1> DEFINE l2 == DoubleLeft(N, l, r, p, x, z)
           r2 == DoubleRight(N, l, r, p, x, z)
           b2 == [b EXCEPT ![p] = IF b[z] = -1 THEN 1 ELSE 0, ![x] = IF b[z] = 1 THEN -1 ELSE 0, ![z] = 0]
           g2 == [g EXCEPT ![p] = g[p] - 1, ![z] = g[p]]
           H == Tall(g, r[p])
<1>1. /\ x \in N /\ z \in N /\ up[x] = p /\ up[z] = x
      /\ p # x /\ p # z /\ x # z
      /\ l[p] # p /\ r[p] # p /\ r[p] # x /\ r[p] # z
      /\ l[x] # p /\ l[x] # x /\ l[x] # z
      /\ l[z] # p /\ l[z] # x /\ l[z] # z
      /\ r[z] # p /\ r[z] # x /\ r[z] # z
      /\ l[z] # Null => l[z] # r[z] /\ up[l[z]] = z
      /\ r[z] # Null => up[r[z]] = z
  BY NodesOfDoubleRotation
<1>2. /\ Null \notin N
      /\ \A k \in N : l[k] \in N \cup {Null} /\ r[k] \in N \cup {Null}
      /\ \A k \in N : l[k] # Null => up[l[k]] = k
      /\ \A k \in N : r[k] # Null => up[r[k]] = k
  BY DEF Shape, LinksOK
<1>3. /\ g \in [N -> Nat] /\ b \in [N -> {-1, 0, 1}]
      /\ \A k \in N : Tall(g, l[k]) \in Nat /\ Tall(g, r[k]) \in Nat
      /\ \A k \in N : b[k] = Tall(g, r[k]) - Tall(g, l[k])
      /\ \A k \in N : g[k] = Higher(Tall(g, l[k]), Tall(g, r[k])) + IF k = x THEN 0 ELSE 1
  BY <1>2 DEF HeightsFit, Tall
<1>4. H \in Nat /\ g[x] = H + 1 /\ g[p] = H + 2
  <2>1. Tall(g, l[p]) = g[x]
    BY <1>1, <1>2 DEF Tall
  <2>2. H \in Nat /\ g[x] \in Nat /\ H - g[x] = -1
    BY <2>1, <1>1, <1>3
  <2>3. g[p] = H + 2
    BY <2>1, <2>2, <1>1, <1>3 DEF Higher
  <2> QED BY <2>2, <2>3
<1>5. Tall(g, l[x]) = H /\ g[z] = H + 1
  <2>1. Tall(g, r[x]) = g[z] /\ g[z] \in Nat /\ Tall(g, l[x]) \in Nat
    BY <1>1, <1>2, <1>3 DEF Tall
  <2>2. g[z] - Tall(g, l[x]) = 1 /\ g[x] = Higher(Tall(g, l[x]), g[z])
    BY <2>1, <1>1, <1>3 DEF Higher
  <2> HIDE DEF H
  <2> QED BY <2>1, <2>2, <1>4 DEF Higher
<1>6. /\ b[z] = -1 => Tall(g, l[z]) = H /\ Tall(g, r[z]) = H - 1
      /\ b[z] = 0 => Tall(g, l[z]) = H /\ Tall(g, r[z]) = H
      /\ b[z] = 1 => Tall(g, l[z]) = H - 1 /\ Tall(g, r[z]) = H
      /\ b[z] \in {-1, 0, 1}
  <2>1. /\ Tall(g, l[z]) \in Nat /\ Tall(g, r[z]) \in Nat /\ b[z] = Tall(g, r[z]) - Tall(g, l[z])
        /\ g[z] = Higher(Tall(g, l[z]), Tall(g, r[z])) + 1
        /\ b[z] \in {-1, 0, 1}
    BY <1>1, <1>3
  <2> HIDE DEF H
  <2> QED BY <2>1, <1>4, <1>5 DEF Higher
<1>7. /\ g2 \in [N -> Nat] /\ b2 \in [N -> {-1, 0, 1}]
      /\ g2[p] = H + 1 /\ g2[x] = H + 1 /\ g2[z] = H + 2
      /\ b2[p] = (IF b[z] = -1 THEN 1 ELSE 0) /\ b2[x] = (IF b[z] = 1 THEN -1 ELSE 0) /\ b2[z] = 0
      /\ \A k \in N : k # p /\ k # x /\ k # z => g2[k] = g[k] /\ b2[k] = b[k]
  <2>1. g[p] - 1 \in Nat /\ g[p] - 1 = H + 1 /\ g[p] \in Nat
    BY <1>4
  <2> QED BY <2>1, <1>1, <1>3, <1>4
<1>8. /\ l2[z] = x /\ l2[p] = r[z] /\ l2[x] = l[x]
      /\ r2[z] = p /\ r2[x] = l[z] /\ r2[p] = r[p]
      /\ \A k \in N : k # p /\ k # x /\ k # z =>
           l2[k] = (IF l[k] = p THEN z ELSE l[k]) /\ r2[k] = (IF r[k] = p THEN z ELSE r[k])
  BY <1>1 DEF DoubleLeft, DoubleRight
<1> HIDE DEF l2, r2, g2, b2, H
<1>9. \A n \in N \cup {Null} : n # p /\ n # x /\ n # z => Tall(g2, n) = Tall(g, n)
  BY <1>7 DEF Tall
<1>10. Tall(g2, p) = H + 1 /\ Tall(g2, x) = H + 1 /\ Tall(g2, z) = H + 2 /\ Tall(g, p) = H + 2
  BY <1>1, <1>2, <1>4, <1>7 DEF Tall
<1>11. ASSUME NEW k \in N, k # p, k # x, k # z
       PROVE  Tall(g2, l2[k]) = Tall(g, l[k]) /\ Tall(g2, r2[k]) = Tall(g, r[k])
  <2>1. l[k] # x /\ r[k] # x /\ l[k] # z /\ r[k] # z
    BY <1>11, <1>1, <1>2
  <2>2. CASE l[k] = p /\ r[k] # p BY <2>1, <2>2, <1>2, <1>8, <1>9, <1>10, <1>11
  <2>3. CASE r[k] = p /\ l[k] # p BY <2>1, <2>3, <1>2, <1>8, <1>9, <1>10, <1>11
  <2>4. CASE r[k] = p /\ l[k] = p BY <2>1, <2>4, <1>2, <1>8, <1>9, <1>10, <1>11
  <2>5. CASE r[k] # p /\ l[k] # p BY <2>1, <2>5, <1>2, <1>8, <1>9, <1>10, <1>11
  <2> QED BY <2>2, <2>3, <2>4, <2>5
<1>12. /\ Tall(g2, l2[p]) = Tall(g, r[z]) /\ Tall(g2, r2[p]) = H
       /\ Tall(g2, l2[x]) = H /\ Tall(g2, r2[x]) = Tall(g, l[z])
       /\ Tall(g2, l2[z]) = H + 1 /\ Tall(g2, r2[z]) = H + 1
  <2>1. Tall(g2, r[p]) = H
    BY <1>1, <1>2, <1>9 DEF H
  <2>2. Tall(g2, l[x]) = H
    BY <1>1, <1>2, <1>5, <1>9
  <2>3. Tall(g2, r[z]) = Tall(g, r[z]) /\ Tall(g2, l[z]) = Tall(g, l[z])
    BY <1>1, <1>2, <1>9
  <2> QED BY <2>1, <2>2, <2>3, <1>8, <1>10
<1>13. ASSUME NEW k \in N
       PROVE  /\ b2[k] = Tall(g2, r2[k]) - Tall(g2, l2[k])
              /\ g2[k] = Higher(Tall(g2, l2[k]), Tall(g2, r2[k])) + 1
  <2>1. CASE k = p BY <2>1, <1>4, <1>6, <1>7, <1>12 DEF Higher
  <2>2. CASE k = x BY <2>2, <1>4, <1>6, <1>7, <1>12 DEF Higher
  <2>3. CASE k = z BY <2>3, <1>4, <1>7, <1>12 DEF Higher
  <2>4. CASE k # p /\ k # x /\ k # z
    BY <2>4, <1>3, <1>7, <1>11
  <2> QED BY <2>1, <2>2, <2>3, <2>4
<1>14. HeightsFit(N, l2, r2, b2, g2, Null)
  BY <1>2, <1>7, <1>13 DEF HeightsFit
<1> QED BY <1>14 DEF l2, r2, g2, b2

\* A parent that leans towards its grown child, in the direction of the second children.
LEMMA LeaningKeepsHeights ==
  ASSUME NEW N, NEW R, NEW l, NEW r, NEW up, NEW sub, NEW b, NEW g, NEW p \in N, NEW y,
         Shape(N, R, l, r, up, sub), y = r[p], y # Null, HeightsFit(N, l, r, b, g, y), b[p] # 1
  PROVE  HeightsFit(N, l, r, [b EXCEPT ![p] = @ + 1], [g EXCEPT ![y] = @ + 1],
                    IF b[p] = 0 THEN p ELSE Null)
<1> DEFINE b2 == [b EXCEPT ![p] = @ + 1]
           g2 == [g EXCEPT ![y] = @ + 1]
<1>1. /\ Null \notin N /\ y \in N /\ up[y] = p
      /\ \A k \in N : l[k] \in N \cup {Null} /\ r[k] \in N \cup {Null}
      /\ \A k \in N : l[k] # Null => up[l[k]] = k
      /\ \A k \in N : r[k] # Null => up[r[k]] = k
  BY DEF Shape, LinksOK
<1>2. l[p] # y /\ y # p /\ l[y] # y /\ r[y] # y
  <2>1. /\ \A k \in N : \A d \in Below(sub, l[k]) : <<d, k>> \in R
        /\ \A k \in N : \A d \in Below(sub, r[k]) : <<k, d>> \in R
        /\ \A k \in N : <<k, k>> \notin R /\ k \in sub[k]
        /\ \A c, d \in N : ~(<<c, d>> \in R /\ <<d, c>> \in R)
    BY DEF Shape, SubtreesOK, SearchOK, StrictOrderOn
  <2>2. \A k \in N : (l[k] # Null => l[k] \in Below(sub, l[k])) /\ (r[k] # Null => r[k] \in Below(sub, r[k]))
    BY <2>1, <1>1 DEF Below
  <2>3. <<p, y>> \in R BY <2>1, <2>2
  <2>4. l[p] # y BY <2>1, <2>2, <2>3, <1>1
  <2>5. y # p BY <2>1, <2>3
  <2>6. l[y] # y /\ r[y] # y BY <2>1, <2>2, <1>1
  <2> QED BY <2>4, <2>5, <2>6
<1>3. /\ g \in [N -> Nat] /\ b \in [N -> {-1, 0, 1}]
      /\ \A k \in N : Tall(g, l[k]) \in Nat /\ Tall(g, r[k]) \in Nat
      /\ \A k \in N : b[k] = Tall(g, r[k]) - Tall(g, l[k])
      /\ \A k \in N : g[k] = Higher(Tall(g, l[k]), Tall(g, r[k])) + IF k = y THEN 0 ELSE 1
  BY <1>1 DEF HeightsFit, Tall
<1>4. /\ g2 \in [N -> Nat] /\ b2 \in [N -> {-1, 0, 1}]
      /\ g2[y] = g[y] + 1 /\ b2[p] = b[p] + 1
      /\ \A k \in N : k # y => g2[k] = g[k]
      /\ \A k \in N : k # p => b2[k] = b[k]
  <2>1. b[p] + 1 \in {-1, 0, 1} /\ g[y] + 1 \in Nat
    BY <1>1, <1>3
  <2> QED BY <2>1, <1>1, <1>3
<1> HIDE DEF b2, g2
<1>5. \A n \in N \cup {Null} : n # y => Tall(g2, n) = Tall(g, n)
  BY <1>4 DEF Tall
<1>6. /\ \A k \in N : Tall(g2, l[k]) = Tall(g, l[k])
      /\ \A k \in N : k # p => Tall(g2, r[k]) = Tall(g, r[k])
      /\ Tall(g2, r[p]) = Tall(g, r[p]) + 1
  <2>1. \A k \in N : l[k] # y
    BY <1>1, <1>2
  <2>2. \A k \in N : k # p => r[k] # y
    BY <1>1
  <2>3. Tall(g2, r[p]) = g2[y] /\ Tall(g, r[p]) = g[y]
    BY DEF Tall
  <2> QED BY <2>1, <2>2, <2>3, <1>1, <1>4, <1>5
<1>7. ASSUME NEW k \in N
      PROVE  /\ b2[k] = Tall(g2, r[k]) - Tall(g2, l[k])
             /\ g2[k] = Higher(Tall(g2, l[k]), Tall(g2, r[k]))
                          + IF k = (IF b[p] = 0 THEN p ELSE Null) THEN 0 ELSE 1
  <2>1. CASE k = p
    <3>1. /\ Tall(g, l[p]) \in Nat /\ Tall(g, r[p]) \in Nat /\ b[p] = Tall(g, r[p]) - Tall(g, l[p])
          /\ g[p] = Higher(Tall(g, l[p]), Tall(g, r[p])) + 1 /\ b[p] \in {-1, 0}
      BY <1>2, <1>3
    <3>2. g2[p] = g[p] /\ b2[p] = b[p] + 1 /\ Tall(g2, l[p]) = Tall(g, l[p]) /\ Tall(g2, r[p]) = Tall(g, r[p]) + 1
      BY <1>2, <1>4, <1>6
    <3>3. p # Null BY <1>1
    <3>4. b2[p] = Tall(g2, r[p]) - Tall(g2, l[p])
      BY <3>1, <3>2
    <3>5. b[p] = 0 => g2[p] = Higher(Tall(g2, l[p]), Tall(g2, r[p]))
      BY <3>1, <3>2 DEF Higher
    <3>6. b[p] # 0 => g2[p] = Higher(Tall(g2, l[p]), Tall(g2, r[p])) + 1
      BY <3>1, <3>2 DEF Higher
    <3>7. Higher(Tall(g2, l[p]), Tall(g2, r[p])) \in Int
      BY <3>1, <3>2 DEF Higher
    <3> QED BY <2>1, <3>3, <3>4, <3>5, <3>6, <3>7
  <2>2. CASE k = y
    <3>1. g[y] = Higher(Tall(g, l[y]), Tall(g, r[y])) /\ g[y] \in Nat
      BY <1>1, <1>3 DEF Higher
    <3>2. y # Null /\ y # p BY <1>1, <1>2
    <3> QED BY <2>2, <3>1, <3>2, <1>1, <1>3, <1>4, <1>6
  <2>3. CASE k # p /\ k # y
    <3>1. k # Null BY <1>1
    <3> QED BY <2>3, <3>1, <1>3, <1>4, <1>6
  <2> QED BY <2>1, <2>2, <2>3
<1>8. b[p] = 0 => b2[p] # 0
  BY <1>4
<1>9. HeightsFit(N, l, r, b2, g2, IF b[p] = 0 THEN p ELSE Null)
  BY <1>1, <1>4, <1>7, <1>8 DEF HeightsFit
<1> QED BY <1>9 DEF b2, g2

\* Reaching the root: the height of the grown node itself.
LEMMA GrowingKeepsHeights ==
  ASSUME NEW N, NEW l, NEW r, NEW up, NEW b, NEW g, NEW a \in N, Null \notin N, LinksOK(N, l, r, up),
         HeightsFit(N, l, r, b, g, a), up[a] = Null
  PROVE  HeightsFit(N, l, r, b, [g EXCEPT ![a] = @ + 1], Null)
<1> DEFINE g2 == [g EXCEPT ![a] = @ + 1]
<1>1. /\ \A k \in N : l[k] \in N \cup {Null} /\ r[k] \in N \cup {Null}
      /\ \A k \in N : l[k] # a /\ r[k] # a
  BY DEF LinksOK
<1>2. /\ g2 \in [N -> Nat] /\ g2[a] = g[a] + 1 /\ \A k \in N : k # a => g2[k] = g[k]
  BY DEF HeightsFit
<1>3. /\ g \in [N -> Nat] /\ b \in [N -> {-1, 0, 1}]
      /\ \A k \in N : Tall(g, l[k]) \in Nat /\ Tall(g, r[k]) \in Nat
      /\ \A k \in N : b[k] = Tall(g, r[k]) - Tall(g, l[k])
      /\ \A k \in N : g[k] = Higher(Tall(g, l[k]), Tall(g, r[k])) + IF k = a THEN 0 ELSE 1
  BY <1>1 DEF HeightsFit, Tall
<1> HIDE DEF g2
<1>4. \A k \in N : Tall(g2, l[k]) = Tall(g, l[k]) /\ Tall(g2, r[k]) = Tall(g, r[k])
  BY <1>1, <1>2 DEF Tall
<1>5. \A k \in N : g2[k] = Higher(Tall(g2, l[k]), Tall(g2, r[k])) + 1
  <2> TAKE k \in N
  <2>1. CASE k = a
    <3>1. g[a] = Higher(Tall(g, l[a]), Tall(g, r[a]))
      BY <1>3 DEF Higher
    <3> QED BY <2>1, <3>1, <1>2, <1>4
  <2>2. CASE k # a BY <2>2, <1>2, <1>3, <1>4
  <2> QED BY <2>1, <2>2
<1>6. HeightsFit(N, l, r, b, g2, Null)
  BY <1>2, <1>3, <1>4, <1>5 DEF HeightsFit
<1> QED BY <1>6 DEF g2

\* Attaching a new node: it is the grown one, and its old height is 0.
LEMMA AttachKeepsHeights ==
  ASSUME NEW N, NEW l, NEW r, NEW up, NEW b, NEW g, NEW a \in N, NEW m, m \notin N, m # Null, Null \notin N,
         LinksOK(N, l, r, up), HeightsFit(N, l, r, b, g, Null), l[a] = Null
  PROVE  HeightsFit(N \cup {m}, With(With(l, a, m), m, Null), With(r, m, Null), With(b, m, 0), With(g, m, 0), m)
<1> DEFINE l2 == With(With(l, a, m), m, Null)
           r2 == With(r, m, Null)
           b2 == With(b, m, 0)
           g2 == With(g, m, 0)
           M == N \cup {m}
<1>1. /\ l \in [N -> N \cup {Null}] /\ r \in [N -> N \cup {Null}]
      /\ g \in [N -> Nat] /\ b \in [N -> {-1, 0, 1}]
  BY DEF LinksOK, HeightsFit
<1>2. /\ g2 \in [M -> Nat] /\ b2 \in [M -> {-1, 0, 1}]
      /\ g2[m] = 0 /\ b2[m] = 0 /\ l2[m] = Null /\ r2[m] = Null
      /\ \A n \in N : n # m
      /\ \A n \in N : g2[n] = g[n] /\ b2[n] = b[n] /\ r2[n] = r[n] /\ l2[n] = IF n = a THEN m ELSE l[n]
  BY <1>1 DEF With
<1>3. /\ \A k \in N : Tall(g, l[k]) \in Nat /\ Tall(g, r[k]) \in Nat
      /\ \A k \in N : b[k] = Tall(g, r[k]) - Tall(g, l[k])
      /\ \A k \in N : g[k] = Higher(Tall(g, l[k]), Tall(g, r[k])) + 1
  <2>1. \A k \in N : k # Null OBVIOUS
  <2> QED BY <2>1, <1>1 DEF HeightsFit, Tall
<1> HIDE DEF l2, r2, b2, g2
<1>4. \A k \in N : Tall(g2, l2[k]) = Tall(g, l[k]) /\ Tall(g2, r2[k]) = Tall(g, r[k])
  <2> TAKE k \in N
  <2>1. Tall(g2, r2[k]) = Tall(g, r[k])
    BY <1>1, <1>2 DEF Tall
  <2>2. CASE k = a BY <2>1, <2>2, <1>2 DEF Tall
  <2>3. CASE k # a BY <2>1, <2>3, <1>1, <1>2 DEF Tall
  <2> QED BY <2>2, <2>3
<1>5. Tall(g2, l2[m]) = 0 /\ Tall(g2, r2[m]) = 0
  BY <1>2 DEF Tall
<1>6. \A k \in M : b2[k] = Tall(g2, r2[k]) - Tall(g2, l2[k])
  BY <1>2, <1>3, <1>4, <1>5
<1>7. \A k \in M : g2[k] = Higher(Tall(g2, l2[k]), Tall(g2, r2[k])) + IF k = m THEN 0 ELSE 1
  <2> TAKE k \in M
  <2>1. CASE k = m BY <2>1, <1>2, <1>5 DEF Higher
  <2>2. CASE k \in N BY <2>2, <1>2, <1>3, <1>4
  <2> QED BY <2>1, <2>2
<1>8. HeightsFit(M, l2, r2, b2, g2, m)
  BY <1>2, <1>6, <1>7 DEF HeightsFit
<1> QED BY <1>8 DEF l2, r2, b2, g2
-----------------------------------------------------------------------------
(* Bounds and midpoints of clauses.                                        *)

\* A set of natural numbers has a least element.
LEMMA LeastNatural ==
  ASSUME NEW S \in SUBSET Nat, S # {}
  PROVE  \E m \in S : \A k \in S : m <= k
<1> DEFINE R == OpToRel(<, Nat)
<1>1. IsWellFoundedOn(R, Nat)
  BY NatLessThanWellFounded
<1>2. \A k, m \in S : k < m => <<k, m>> \in R
  BY DEF OpToRel
<1> HIDE DEF R
<1>3. PICK m \in S : \A k \in S : ~(<<k, m>> \in R)
  BY <1>1, WFMin
<1>4. ASSUME NEW k \in S
      PROVE  m <= k
  <2>1. m \in Nat /\ k \in Nat /\ ~(k < m)
    BY <1>2, <1>3
  <2> QED BY <2>1
<1> QED BY <1>4

\* A finite set of integers has a least and a greatest element.
LEMMA ExtremaExist ==
  ASSUME NEW S, S \subseteq Int, IsFiniteSet(S), S # {}
  PROVE  /\ \E x \in S : \A y \in S : x <= y
         /\ \E x \in S : \A y \in S : x >= y
<1> DEFINE Bounded(T) == (\E x \in T : \A y \in T : x <= y) /\ (\E x \in T : \A y \in T : x >= y)
           Bad == {n \in Nat : \E T \in SUBSET S : T # {} /\ Cardinality(T) = n /\ ~Bounded(T)}
<1>1. \A T \in SUBSET S : IsFiniteSet(T) /\ Cardinality(T) \in Nat
  BY FS_Subset, FS_CardinalityType
<1>2. Bad = {}
  <2> SUFFICES ASSUME Bad # {} PROVE FALSE
    OBVIOUS
  <2>1. PICK m \in Bad : \A k \in Bad : m <= k
    <3>1. Bad \in SUBSET Nat OBVIOUS
    <3> HIDE DEF Bad
    <3> QED BY <3>1, LeastNatural
  <2>2. PICK T \in SUBSET S : T # {} /\ Cardinality(T) = m /\ ~Bounded(T)
    BY <2>1
  <2>3. PICK e \in T : TRUE
    BY <2>2
  <2> DEFINE U == T \ {e}
  <2>4. Cardinality(U) = m - 1 /\ U \in SUBSET S /\ T = U \cup {e} /\ e \in Int
    BY <1>1, <2>2, <2>3, FS_RemoveElement
  <2>5. CASE U = {}
    <3>1. T = {e} BY <2>4, <2>5
    <3>2. e <= e /\ e >= e BY <2>4
    <3> QED BY <2>2, <3>1, <3>2
  <2>6. CASE U # {}
    <3> HIDE DEF U
    <3>1. Cardinality(U) \in Nat /\ m \in Nat
      BY <1>1, <2>1, <2>4
    <3>2. Bounded(U)
      <4>1. m - 1 \notin Bad BY <2>1, <2>4, <3>1
      <4> QED BY <4>1, <2>4, <2>6, <3>1
    <3>3. PICK x \in U : \A y \in U : x <= y
      BY <3>2
    <3>4. PICK z \in U : \A y \in U : z >= y
      BY <3>2
    <3>5. \A y \in T : y \in Int
      BY <2>2
    <3>6. \E w \in T : \A y \in T : w <= y
      <4>1. CASE x <= e BY <4>1, <2>4, <3>3, <3>5
      <4>2. CASE ~(x <= e)
        <5>1. \A y \in T : e <= y BY <4>2, <2>4, <3>3, <3>5
        <5> QED BY <5>1, <2>3
      <4> QED BY <4>1, <4>2
    <3>7. \E w \in T : \A y \in T : w >= y
      <4>1. CASE z >= e BY <4>1, <2>4, <3>4, <3>5
      <4>2. CASE ~(z >= e)
        <5>1. \A y \in T : e >= y BY <4>2, <2>4, <3>4, <3>5
        <5> QED BY <5>1, <2>3
      <4> QED BY <4>1, <4>2
    <3> QED BY <2>2, <3>6, <3>7
  <2> QED BY <2>5, <2>6
<1>3. Cardinality(S) \in Nat
  BY <1>1
<1> QED BY <1>2, <1>3

\* Min and Max of a finite set of integers are what they are called.
LEMMA Extrema ==
  ASSUME NEW S, S \subseteq Int, IsFiniteSet(S), S # {}
  PROVE  /\ Min(S) \in S /\ \A y \in S : Min(S) <= y
         /\ Max(S) \in S /\ \A y \in S : Max(S) >= y
<1>1. PICK x \in S : \A y \in S : x <= y
  BY ExtremaExist
<1>2. PICK z \in S : \A y \in S : z >= y
  BY ExtremaExist
<1>3. Min(S) \in S /\ \A y \in S : Min(S) <= y
  BY <1>1 DEF Min
<1>4. Max(S) \in S /\ \A y \in S : Max(S) >= y
  BY <1>2 DEF Max
<1> QED BY <1>3, <1>4

\* The rounded midpoint of two integers is between them.
LEMMA HalfIsBetween ==
  ASSUME NEW a \in Int, NEW b \in Int, a <= b
  PROVE  RoundedHalf(a + b) \in Int /\ a <= RoundedHalf(a + b) /\ RoundedHalf(a + b) <= b
BY DEF RoundedHalf

\* The clauses of the formula are finite sets of literals.
FormulaOK ==
  /\ DOMAIN clauses \subseteq ClauseIds
  /\ \A i \in DOMAIN clauses : clauses[i] \subseteq Literals /\ IsFiniteSet(clauses[i])

\* A clause spans its literals and its midpoint.
LEMMA BoundsOfClause ==
  ASSUME FormulaOK, NEW i, HasLiterals(i)
  PROVE  /\ i \in ClauseIds
         /\ Smallest(i) \in clauses[i] /\ Largest(i) \in clauses[i]
         /\ Smallest(i) \in Literals /\ Largest(i) \in Literals
         /\ Smallest(i) \in Int /\ Largest(i) \in Int /\ Midpoint(i) \in Int
         /\ \A y \in clauses[i] : y \in Int /\ Smallest(i) <= y /\ y <= Largest(i)
         /\ Encloses(i, Midpoint(i)) /\ Smallest(i) <= Largest(i)
<1>1. /\ i \in ClauseIds /\ clauses[i] \subseteq Literals /\ IsFiniteSet(clauses[i]) /\ clauses[i] # {}
      /\ clauses[i] \subseteq Int
  BY TreeAssumption DEF FormulaOK, HasLiterals
<1> DEFINE S == clauses[i]
<1>2. /\ Min(S) \in S /\ \A y \in S : Min(S) <= y
      /\ Max(S) \in S /\ \A y \in S : Max(S) >= y
  <2> HIDE DEF S
  <2> QED BY <1>1, Extrema DEF S
<1>3. Min(S) \in Int /\ Max(S) \in Int /\ Min(S) <= Max(S)
  BY <1>1, <1>2
<1>4. /\ RoundedHalf(Min(S) + Max(S)) \in Int /\ Min(S) <= RoundedHalf(Min(S) + Max(S))
      /\ RoundedHalf(Min(S) + Max(S)) <= Max(S)
  BY <1>3, HalfIsBetween
<1>5. Smallest(i) = Min(S) /\ Largest(i) = Max(S) /\ Midpoint(i) = RoundedHalf(Min(S) + Max(S))
  BY DEF Smallest, Largest, Midpoint, MidpointOf
<1>6. \A y \in S : y \in Int /\ Min(S) <= y /\ y <= Max(S)
  BY <1>1, <1>2, <1>3
<1> HIDE DEF S
<1> QED BY <1>1, <1>2, <1>3, <1>4, <1>5, <1>6 DEF Encloses, S
-----------------------------------------------------------------------------
(* What the rotations do to the pointers.                                  *)

\* The children of a node are different nodes that know their parent.
LEMMA ParentsOfNodes ==
  ASSUME NEW N, NEW R, NEW l, NEW r, NEW up, NEW sub, Shape(N, R, l, r, up, sub)
  PROVE  /\ \A k \in N : l[k] # Null => l[k] \in N /\ up[l[k]] = k /\ l[k] # r[k] /\ l[k] # k
         /\ \A k \in N : r[k] # Null => r[k] \in N /\ up[r[k]] = k /\ r[k] # k
         /\ Null \notin N
<1>1. /\ Null \notin N
      /\ \A k \in N : l[k] \in N \cup {Null} /\ r[k] \in N \cup {Null}
      /\ \A k \in N : l[k] # Null => up[l[k]] = k
      /\ \A k \in N : r[k] # Null => up[r[k]] = k
  BY DEF Shape, LinksOK
<1>2. /\ \A k \in N : k \in sub[k]
      /\ \A k \in N : \A d \in Below(sub, l[k]) : <<d, k>> \in R
      /\ \A k \in N : \A d \in Below(sub, r[k]) : <<k, d>> \in R
      /\ \A k \in N : <<k, k>> \notin R
      /\ \A c, d \in N : ~(<<c, d>> \in R /\ <<d, c>> \in R)
  BY DEF Shape, SubtreesOK, SearchOK, StrictOrderOn
<1>3. \A k \in N : /\ l[k] # Null => l[k] \in Below(sub, l[k])
                   /\ r[k] # Null => r[k] \in Below(sub, r[k])
  BY <1>1, <1>2 DEF Below
<1>4. \A k \in N : l[k] # Null => l[k] # r[k]
  BY <1>1, <1>2, <1>3
<1>5. \A k \in N : l[k] # k /\ r[k] # k
  BY <1>1, <1>2, <1>3
<1> QED BY <1>1, <1>4, <1>5

\* Each pointer leads to a node or nowhere.
LinksAreFunctions == left \in [Nodes -> Nodes \cup {Null}] /\ right \in [Nodes -> Nodes \cup {Null}]
                       /\ parent \in [Nodes -> Nodes \cup {Null}]

\* What hangs above a rotation, as functions on all nodes.
LEMMA LinksAbove ==
  ASSUME NEW sub, Shape(Nodes, Less, left, right, parent, sub), NEW p \in Nodes, NEW s \in Nodes
  PROVE  /\ LeftAbove(p, s) = [n \in Nodes |-> IF left[n] = p THEN s ELSE left[n]]
         /\ RightAbove(p, s) = [n \in Nodes |-> IF right[n] = p THEN s ELSE right[n]]
         /\ ParentAbove(p, s) = [n \in Nodes |-> IF n = s THEN parent[p] ELSE parent[n]]
         /\ RootAbove(p, s) = RootOf(parent, root, p, s)
<1>1. /\ \A k \in Nodes : left[k] # Null => left[k] \in Nodes /\ parent[left[k]] = k /\ left[k] # right[k]
      /\ \A k \in Nodes : right[k] # Null => right[k] \in Nodes /\ parent[right[k]] = k
      /\ Null \notin Nodes
  BY ParentsOfNodes
<1>2. /\ LinksAreFunctions
      /\ \A k \in Nodes : parent[k] # Null => left[parent[k]] = k \/ right[parent[k]] = k
  BY DEF Shape, LinksOK, LinksAreFunctions
<1>3. DOMAIN left = Nodes /\ DOMAIN right = Nodes /\ DOMAIN parent = Nodes
  BY <1>2 DEF LinksAreFunctions
<1> DEFINE G == parent[p]
<1>4. G \in Nodes \cup {Null} /\ p # Null
  BY <1>1, <1>2 DEF LinksAreFunctions
<1>5. /\ \A n \in Nodes : left[n] = p => n = G
      /\ \A n \in Nodes : right[n] = p => n = G
  BY <1>1, <1>4
<1>6. CASE G = Null
  <2>1. ~HangsLeft(p) /\ \A n \in Nodes : left[n] # p /\ right[n] # p
    BY <1>1, <1>5, <1>6 DEF HangsLeft, Grandparent
  <2>2. LeftAbove(p, s) = left /\ RightAbove(p, s) = right
    BY <2>1, <1>6 DEF LeftAbove, RightAbove, Set, Grandparent
  <2>3. left = [n \in Nodes |-> IF left[n] = p THEN s ELSE left[n]]
    BY <2>1, <1>2 DEF LinksAreFunctions
  <2>4. right = [n \in Nodes |-> IF right[n] = p THEN s ELSE right[n]]
    BY <2>1, <1>2 DEF LinksAreFunctions
  <2> QED BY <2>2, <2>3, <2>4, <1>3 DEF ParentAbove, RootAbove, RootOf, With, Grandparent
<1>7. CASE G # Null /\ left[G] = p
  <2>1. HangsLeft(p) /\ \A n \in Nodes : (left[n] = p <=> n = G) /\ right[n] # p
    BY <1>1, <1>4, <1>5, <1>7 DEF HangsLeft, Grandparent
  <2>2. LeftAbove(p, s) = With(left, G, s) /\ RightAbove(p, s) = right
    BY <2>1 DEF LeftAbove, RightAbove, Grandparent
  <2>3. With(left, G, s) = [n \in Nodes |-> IF left[n] = p THEN s ELSE left[n]]
    BY <2>1, <1>3, <1>4, <1>7 DEF With
  <2>4. right = [n \in Nodes |-> IF right[n] = p THEN s ELSE right[n]]
    BY <2>1, <1>2 DEF LinksAreFunctions
  <2> QED BY <2>2, <2>3, <2>4, <1>3 DEF ParentAbove, RootAbove, RootOf, With, Grandparent
<1>8. CASE G # Null /\ left[G] # p
  <2>1. ~HangsLeft(p) /\ \A n \in Nodes : (right[n] = p <=> n = G) /\ left[n] # p
    BY <1>1, <1>2, <1>4, <1>5, <1>8 DEF HangsLeft, Grandparent
  <2>2. LeftAbove(p, s) = left /\ RightAbove(p, s) = With(right, G, s)
    BY <2>1, <1>8 DEF LeftAbove, RightAbove, Set, Grandparent
  <2>3. With(right, G, s) = [n \in Nodes |-> IF right[n] = p THEN s ELSE right[n]]
    BY <2>1, <1>3, <1>4, <1>8 DEF With
  <2>4. left = [n \in Nodes |-> IF left[n] = p THEN s ELSE left[n]]
    BY <2>1, <1>2 DEF LinksAreFunctions
  <2> QED BY <2>2, <2>3, <2>4, <1>3 DEF ParentAbove, RootAbove, RootOf, With, Grandparent
<1> QED BY <1>6, <1>7, <1>8

\* rotateLeft writes the pointers of a rotation to the left.
LEMMA RotateLeftLinks ==
  ASSUME NEW sub, Shape(Nodes, Less, left, right, parent, sub), NEW p \in Nodes, NEW y,
         y = right[p], y # Null, RotateLeft(p, y)
  PROVE  /\ left' = LeftOf(Nodes, left, p, y)
         /\ right' = RightOf(Nodes, left, right, p, y)
         /\ parent' = UpOf(Nodes, left, parent, p, y)
         /\ root' = RootOf(parent, root, p, y)
<1>1. y \in Nodes /\ y # p /\ p # Null
  BY ParentsOfNodes
<1>2. /\ left[y] \in Nodes \cup {Null} /\ left[y] # y
      /\ left[y] # Null => parent[left[y]] = y
      /\ parent[p] \in Nodes \cup {Null}
      /\ Null \notin Nodes
  BY <1>1, ParentsOfNodes DEF Shape, LinksOK
<1>3. left[y] # p
  <2>1. p \notin sub[y]
    BY <1>1 DEF Shape, SearchOK, StrictOrderOn, Below
  <2>2. left[y] # Null => left[y] \in sub[y]
    BY <1>1, <1>2 DEF Shape, SubtreesOK, Below
  <2> QED BY <2>1, <2>2, <1>1
<1>4. /\ LeftAbove(p, y) = [n \in Nodes |-> IF left[n] = p THEN y ELSE left[n]]
      /\ RightAbove(p, y) = [n \in Nodes |-> IF right[n] = p THEN y ELSE right[n]]
      /\ ParentAbove(p, y) = [n \in Nodes |-> IF n = y THEN parent[p] ELSE parent[n]]
      /\ RootAbove(p, y) = RootOf(parent, root, p, y)
  BY <1>1, LinksAbove
<1>5. left' = LeftOf(Nodes, left, p, y)
  BY <1>1, <1>4 DEF RotateLeft, With, LeftOf
<1>6. right' = RightOf(Nodes, left, right, p, y)
  BY <1>1, <1>4 DEF RotateLeft, With, RightOf
<1>7. parent' = UpOf(Nodes, left, parent, p, y)
  <2>1. With(ParentAbove(p, y), p, y) = [n \in Nodes |-> IF n = p THEN y ELSE IF n = y THEN parent[p] ELSE parent[n]]
    BY <1>4 DEF With
  <2>2. CASE left[y] = Null
    <3>1. parent' = With(ParentAbove(p, y), p, y)
      BY <2>2 DEF RotateLeft, Set
    <3>2. \A n \in Nodes : n # left[y]
      BY <2>2, <1>2
    <3> QED BY <3>1, <3>2, <2>1 DEF UpOf
  <2>3. CASE left[y] # Null
    <3>1. parent' = With(With(ParentAbove(p, y), p, y), left[y], p) /\ left[y] \in Nodes
      BY <2>3, <1>2 DEF RotateLeft, Set
    <3>2. parent' = [n \in Nodes |-> IF n = left[y] THEN p ELSE IF n = p THEN y ELSE IF n = y THEN parent[p] ELSE parent[n]]
      BY <3>1, <2>1 DEF With
    <3> QED BY <3>2, <1>2, <1>3 DEF UpOf
  <2> QED BY <2>2, <2>3
<1> QED BY <1>4, <1>5, <1>6, <1>7 DEF RotateLeft

\* rotateRight writes the pointers of the mirrored rotation.
LEMMA RotateRightLinks ==
  ASSUME NEW sub, Shape(Nodes, Less, left, right, parent, sub), NEW p \in Nodes, NEW x,
         x = left[p], x # Null, RotateRight(p, x)
  PROVE  /\ right' = LeftOf(Nodes, right, p, x)
         /\ left' = RightOf(Nodes, right, left, p, x)
         /\ parent' = UpOf(Nodes, right, parent, p, x)
         /\ root' = RootOf(parent, root, p, x)
<1>1. x \in Nodes /\ x # p /\ p # Null
  BY ParentsOfNodes
<1>2. /\ right[x] \in Nodes \cup {Null} /\ right[x] # x
      /\ right[x] # Null => parent[right[x]] = x
      /\ parent[p] \in Nodes \cup {Null}
      /\ Null \notin Nodes
  BY <1>1, ParentsOfNodes DEF Shape, LinksOK
<1>3. right[x] # p
  <2>1. p \notin sub[x]
    BY <1>1 DEF Shape, SearchOK, StrictOrderOn, Below
  <2>2. right[x] # Null => right[x] \in sub[x]
    BY <1>1, <1>2 DEF Shape, SubtreesOK, Below
  <2> QED BY <2>1, <2>2, <1>1
<1>4. /\ LeftAbove(p, x) = [n \in Nodes |-> IF left[n] = p THEN x ELSE left[n]]
      /\ RightAbove(p, x) = [n \in Nodes |-> IF right[n] = p THEN x ELSE right[n]]
      /\ ParentAbove(p, x) = [n \in Nodes |-> IF n = x THEN parent[p] ELSE parent[n]]
      /\ RootAbove(p, x) = RootOf(parent, root, p, x)
  BY <1>1, LinksAbove
<1>5. right' = LeftOf(Nodes, right, p, x)
  BY <1>1, <1>4 DEF RotateRight, With, LeftOf
<1>6. left' = RightOf(Nodes, right, left, p, x)
  BY <1>1, <1>4 DEF RotateRight, With, RightOf
<1>7. parent' = UpOf(Nodes, right, parent, p, x)
  <2>1. With(ParentAbove(p, x), p, x) = [n \in Nodes |-> IF n = p THEN x ELSE IF n = x THEN parent[p] ELSE parent[n]]
    BY <1>4 DEF With
  <2>2. CASE right[x] = Null
    <3>1. parent' = With(ParentAbove(p, x), p, x)
      BY <2>2 DEF RotateRight, Set
    <3>2. \A n \in Nodes : n # right[x]
      BY <2>2, <1>2
    <3> QED BY <3>1, <3>2, <2>1 DEF UpOf
  <2>3. CASE right[x] # Null
    <3>1. parent' = With(With(ParentAbove(p, x), p, x), right[x], p) /\ right[x] \in Nodes
      BY <2>3, <1>2 DEF RotateRight, Set
    <3>2. parent' = [n \in Nodes |-> IF n = right[x] THEN p ELSE IF n = p THEN x ELSE IF n = x THEN parent[p] ELSE parent[n]]
      BY <3>1, <2>1 DEF With
    <3> QED BY <3>2, <1>2, <1>3 DEF UpOf
  <2> QED BY <2>2, <2>3
<1> QED BY <1>4, <1>5, <1>6, <1>7 DEF RotateRight

\* rotateLeftRight writes the pointers of a double rotation.
LEMMA RotateLeftRightLinks ==
  ASSUME NEW sub, Shape(Nodes, Less, left, right, parent, sub), NEW p \in Nodes, NEW x, NEW z,
         x = left[p], x # Null, z = right[x], z # Null, RotateLeftRight(p, x)
  PROVE  /\ left' = DoubleLeft(Nodes, left, right, p, x, z)
         /\ right' = DoubleRight(Nodes, left, right, p, x, z)
         /\ parent' = DoubleUp(Nodes, left, right, parent, p, x, z)
         /\ root' = RootOf(parent, root, p, z)
<1>1. /\ x \in Nodes /\ z \in Nodes /\ p # x /\ p # z /\ x # z
      /\ left[z] # p /\ left[z] # x /\ left[z] # z
      /\ right[z] # p /\ right[z] # x /\ right[z] # z
      /\ left[z] # Null => left[z] # right[z]
  BY NodesOfDoubleRotation
<1>2. /\ left[z] \in Nodes \cup {Null} /\ right[z] \in Nodes \cup {Null}
      /\ Null \notin Nodes
  BY <1>1 DEF Shape, LinksOK
<1>3. /\ LeftAbove(p, z) = [n \in Nodes |-> IF left[n] = p THEN z ELSE left[n]]
      /\ RightAbove(p, z) = [n \in Nodes |-> IF right[n] = p THEN z ELSE right[n]]
      /\ ParentAbove(p, z) = [n \in Nodes |-> IF n = z THEN parent[p] ELSE parent[n]]
      /\ RootAbove(p, z) = RootOf(parent, root, p, z)
  BY <1>1, LinksAbove
<1>4. left' = DoubleLeft(Nodes, left, right, p, x, z)
  <2>1. With(LeftAbove(p, z), z, x) = [n \in Nodes |-> IF n = z THEN x ELSE IF left[n] = p THEN z ELSE left[n]]
    BY <1>1, <1>3 DEF With
  <2>2. left' = [n \in Nodes |-> IF n = p THEN right[z] ELSE IF n = z THEN x ELSE IF left[n] = p THEN z ELSE left[n]]
    BY <2>1 DEF RotateLeftRight, With
  <2> QED BY <2>2, <1>1 DEF DoubleLeft
<1>5. right' = DoubleRight(Nodes, left, right, p, x, z)
  <2>1. With(RightAbove(p, z), z, p) = [n \in Nodes |-> IF n = z THEN p ELSE IF right[n] = p THEN z ELSE right[n]]
    BY <1>1, <1>3 DEF With
  <2>2. right' = [n \in Nodes |-> IF n = x THEN left[z] ELSE IF n = z THEN p ELSE IF right[n] = p THEN z ELSE right[n]]
    BY <2>1, <1>1 DEF RotateLeftRight, With
  <2> QED BY <2>2, <1>1 DEF DoubleRight
<1>6. parent' = DoubleUp(Nodes, left, right, parent, p, x, z)
  <2> DEFINE up1 == With(With(ParentAbove(p, z), x, z), p, z)
             up2 == Set(up1, left[z], x)
  <2>1. up1 = [n \in Nodes |-> IF n = p \/ n = x THEN z ELSE IF n = z THEN parent[p] ELSE parent[n]]
    <3>1. With(ParentAbove(p, z), x, z) = [n \in Nodes |-> IF n = x THEN z ELSE IF n = z THEN parent[p] ELSE parent[n]]
      BY <1>1, <1>3 DEF With
    <3>2. up1 = [n \in Nodes |-> IF n = p THEN z ELSE IF n = x THEN z ELSE IF n = z THEN parent[p] ELSE parent[n]]
      BY <3>1 DEF With
    <3> QED BY <3>2
  <2>2. parent' = Set(up2, right[z], p)
    BY DEF RotateLeftRight
  <2> HIDE DEF up1
  <2>3. up2 = [n \in Nodes |-> IF n = left[z] THEN x ELSE IF n = p \/ n = x THEN z ELSE IF n = z THEN parent[p] ELSE parent[n]]
    <3>1. CASE left[z] = Null
      <4>1. \A n \in Nodes : n # left[z] BY <3>1, <1>2
      <4> QED BY <3>1, <4>1, <2>1 DEF Set
    <3>2. CASE left[z] # Null
      <4>1. left[z] \in Nodes BY <3>2, <1>2
      <4> QED BY <3>2, <4>1, <2>1 DEF Set, With
    <3> QED BY <3>1, <3>2
  <2> HIDE DEF up2
  <2>4. parent' = [n \in Nodes |-> IF n = right[z] THEN p ELSE IF n = left[z] THEN x
                     ELSE IF n = p \/ n = x THEN z ELSE IF n = z THEN parent[p] ELSE parent[n]]
    <3>1. CASE right[z] = Null
      <4>1. \A n \in Nodes : n # right[z] BY <3>1, <1>2
      <4> QED BY <3>1, <4>1, <2>2, <2>3 DEF Set
    <3>2. CASE right[z] # Null
      <4>1. right[z] \in Nodes BY <3>2, <1>2
      <4> QED BY <3>2, <4>1, <2>2, <2>3 DEF Set, With
    <3> QED BY <3>1, <3>2
  <2>5. \A n \in Nodes : n = left[z] => n # right[z]
    BY <1>1, <1>2
  <2> QED BY <2>4, <2>5, <1>1 DEF DoubleUp
<1> QED BY <1>3, <1>4, <1>5, <1>6 DEF RotateLeftRight

\* rotateRightLeft writes the pointers of the mirrored double rotation.
LEMMA RotateRightLeftLinks ==
  ASSUME NEW sub, Shape(Nodes, Less, left, right, parent, sub), Nodes \subseteq Int,
         NEW p \in Nodes, NEW y, NEW z,
         y = right[p], y # Null, z = left[y], z # Null, RotateRightLeft(p, y)
  PROVE  /\ right' = DoubleLeft(Nodes, right, left, p, y, z)
         /\ left' = DoubleRight(Nodes, right, left, p, y, z)
         /\ parent' = DoubleUp(Nodes, right, left, parent, p, y, z)
         /\ root' = RootOf(parent, root, p, z)
<1>0. Shape(Nodes, Greater, right, left, parent, sub)
  BY LessGreater, MirrorShape
<1>1. /\ y \in Nodes /\ z \in Nodes /\ p # y /\ p # z /\ y # z
      /\ left[z] # p /\ left[z] # y /\ left[z] # z
      /\ right[z] # p /\ right[z] # y /\ right[z] # z
      /\ right[z] # Null => left[z] # right[z]
  BY <1>0, NodesOfDoubleRotation
<1>2. /\ left[z] \in Nodes \cup {Null} /\ right[z] \in Nodes \cup {Null}
      /\ Null \notin Nodes
  BY <1>1 DEF Shape, LinksOK
<1>3. /\ LeftAbove(p, z) = [n \in Nodes |-> IF left[n] = p THEN z ELSE left[n]]
      /\ RightAbove(p, z) = [n \in Nodes |-> IF right[n] = p THEN z ELSE right[n]]
      /\ ParentAbove(p, z) = [n \in Nodes |-> IF n = z THEN parent[p] ELSE parent[n]]
      /\ RootAbove(p, z) = RootOf(parent, root, p, z)
  BY <1>1, LinksAbove
<1>4. right' = DoubleLeft(Nodes, right, left, p, y, z)
  <2>1. With(RightAbove(p, z), z, y) = [n \in Nodes |-> IF n = z THEN y ELSE IF right[n] = p THEN z ELSE right[n]]
    BY <1>1, <1>3 DEF With
  <2>2. right' = [n \in Nodes |-> IF n = p THEN left[z] ELSE IF n = z THEN y ELSE IF right[n] = p THEN z ELSE right[n]]
    BY <2>1 DEF RotateRightLeft, With
  <2> QED BY <2>2, <1>1 DEF DoubleLeft
<1>5. left' = DoubleRight(Nodes, right, left, p, y, z)
  <2>1. With(LeftAbove(p, z), z, p) = [n \in Nodes |-> IF n = z THEN p ELSE IF left[n] = p THEN z ELSE left[n]]
    BY <1>1, <1>3 DEF With
  <2>2. left' = [n \in Nodes |-> IF n = y THEN right[z] ELSE IF n = z THEN p ELSE IF left[n] = p THEN z ELSE left[n]]
    BY <2>1, <1>1 DEF RotateRightLeft, With
  <2> QED BY <2>2, <1>1 DEF DoubleRight
<1>6. parent' = DoubleUp(Nodes, right, left, parent, p, y, z)
  <2> DEFINE up1 == With(With(ParentAbove(p, z), y, z), p, z)
             up2 == Set(up1, right[z], y)
  <2>1. up1 = [n \in Nodes |-> IF n = p \/ n = y THEN z ELSE IF n = z THEN parent[p] ELSE parent[n]]
    <3>1. With(ParentAbove(p, z), y, z) = [n \in Nodes |-> IF n = y THEN z ELSE IF n = z THEN parent[p] ELSE parent[n]]
      BY <1>1, <1>3 DEF With
    <3>2. up1 = [n \in Nodes |-> IF n = p THEN z ELSE IF n = y THEN z ELSE IF n = z THEN parent[p] ELSE parent[n]]
      BY <3>1 DEF With
    <3> QED BY <3>2
  <2>2. parent' = Set(up2, left[z], p)
    BY DEF RotateRightLeft
  <2> HIDE DEF up1
  <2>3. up2 = [n \in Nodes |-> IF n = right[z] THEN y ELSE IF n = p \/ n = y THEN z ELSE IF n = z THEN parent[p] ELSE parent[n]]
    <3>1. CASE right[z] = Null
      <4>1. \A n \in Nodes : n # right[z] BY <3>1, <1>2
      <4> QED BY <3>1, <4>1, <2>1 DEF Set
    <3>2. CASE right[z] # Null
      <4>1. right[z] \in Nodes BY <3>2, <1>2
      <4> QED BY <3>2, <4>1, <2>1 DEF Set, With
    <3> QED BY <3>1, <3>2
  <2> HIDE DEF up2
  <2>4. parent' = [n \in Nodes |-> IF n = left[z] THEN p ELSE IF n = right[z] THEN y
                     ELSE IF n = p \/ n = y THEN z ELSE IF n = z THEN parent[p] ELSE parent[n]]
    <3>1. CASE left[z] = Null
      <4>1. \A n \in Nodes : n # left[z] BY <3>1, <1>2
      <4> QED BY <3>1, <4>1, <2>2, <2>3 DEF Set
    <3>2. CASE left[z] # Null
      <4>1. left[z] \in Nodes BY <3>2, <1>2
      <4> QED BY <3>2, <4>1, <2>2, <2>3 DEF Set, With
    <3> QED BY <3>1, <3>2
  <2>5. \A n \in Nodes : n = right[z] => n # left[z]
    BY <1>1, <1>2
  <2> QED BY <2>4, <2>5, <1>1 DEF DoubleUp
<1> QED BY <1>3, <1>4, <1>5, <1>6 DEF RotateRightLeft
-----------------------------------------------------------------------------
(* Where clauses are kept: at the highest node in the span of their        *)
(* literals.                                                               *)

\* Sets that hold with two nodes all nodes between them.
Convex(N, R, D, span) ==
  \A i \in D : \A a, b, c \in N :
    a \in span[i] /\ c \in span[i] /\ <<a, b>> \in R /\ <<b, c>> \in R => b \in span[i]

\* Each i is at a node in its span, and none of the nodes above that is in the span.
Highest(N, sub, D, home, span) ==
  \A i \in D : /\ home[i] \in N /\ home[i] \in span[i]
               /\ \A j \in N : home[i] \in sub[j] /\ j # home[i] => j \notin span[i]

\* Where the clauses are after those of node from that fit moved to node to.
Rehomed(D, home, span, from, to) ==
  [i \in D |-> IF home[i] = from /\ to \in span[i] THEN to ELSE home[i]]

\* If in a rotation the clauses move that span the node that comes up, each clause stays
\* at the highest node it spans.
LEMMA RotationKeepsHighest ==
  ASSUME NEW N, NEW R, NEW l, NEW r, NEW up, NEW sub, NEW p \in N, NEW y,
         Shape(N, R, l, r, up, sub), y = r[p], y # Null,
         NEW D, NEW home, NEW span, Highest(N, sub, D, home, span), Convex(N, R, D, span)
  PROVE  Highest(N, SubOf(N, l, sub, p, y), D, Rehomed(D, home, span, p, y), span)
<1> DEFINE sub2 == SubOf(N, l, sub, p, y)
           home2 == Rehomed(D, home, span, p, y)
<1>1. /\ Null \notin N /\ y \in N /\ up[y] = p /\ y # p
      /\ \A k \in N : l[k] \in N \cup {Null} /\ r[k] \in N \cup {Null}
  BY ParentsOfNodes DEF Shape, LinksOK
<1>2. /\ \A k \in N : sub[k] = {k} \cup Below(sub, l[k]) \cup Below(sub, r[k])
      /\ \A k \in N : sub[k] \subseteq N
      /\ \A j \in N : \A d \in sub[j] : d # j => up[d] \in sub[j]
      /\ \A k \in N : \A d \in Below(sub, l[k]) : <<d, k>> \in R
      /\ \A k \in N : \A d \in Below(sub, r[k]) : <<k, d>> \in R
      /\ \A c \in N : <<c, c>> \notin R
      /\ \A c, d \in N : ~(<<c, d>> \in R /\ <<d, c>> \in R)
  BY DEF Shape, SubtreesOK, SearchOK, StrictOrderOn
<1>3. /\ sub[p] = {p} \cup Below(sub, l[p]) \cup sub[y]
      /\ sub[y] = {y} \cup Below(sub, l[y]) \cup Below(sub, r[y])
      /\ Below(sub, r[p]) = sub[y]
      /\ <<p, y>> \in R
  BY <1>1, <1>2 DEF Below
<1>4. /\ \A n \in N : sub2[n] = IF n = p THEN {p} \cup Below(sub, l[p]) \cup Below(sub, l[y])
                                ELSE IF n = y THEN sub[p] ELSE sub[n]
      /\ \A i \in D : home2[i] = IF home[i] = p /\ y \in span[i] THEN y ELSE home[i]
  BY DEF SubOf, Rehomed
<1> HIDE DEF sub2, home2
<1> SUFFICES ASSUME NEW i \in D
             PROVE  /\ home2[i] \in N /\ home2[i] \in span[i]
                    /\ \A j \in N : home2[i] \in sub2[j] /\ j # home2[i] => j \notin span[i]
  BY DEF Highest, sub2, home2
<1>5. /\ home[i] \in N /\ home[i] \in span[i]
      /\ \A j \in N : home[i] \in sub[j] /\ j # home[i] => j \notin span[i]
  BY DEF Highest
<1>6. CASE home[i] = p /\ y \in span[i]
  <2>1. home2[i] = y
    BY <1>4, <1>6
  <2>2. ASSUME NEW j \in N, y \in sub2[j], j # y
        PROVE  j \notin span[i]
    <3>1. y \notin Below(sub, l[p]) /\ y \notin Below(sub, l[y])
      BY <1>1, <1>2, <1>3
    <3>2. j # p
      BY <3>1, <2>2, <1>1, <1>4
    <3>3. p \in sub[j]
      BY <3>2, <2>2, <1>1, <1>2, <1>4
    <3> QED BY <3>2, <3>3, <1>5, <1>6
  <2> QED BY <2>1, <2>2, <1>1, <1>6
<1>7. CASE ~(home[i] = p /\ y \in span[i])
  <2>1. home2[i] = home[i]
    BY <1>4, <1>7
  <2>2. ASSUME NEW j \in N, home[i] \in sub2[j], j # home[i]
        PROVE  j \notin span[i]
    <3>1. CASE j # p /\ j # y
      BY <3>1, <2>2, <1>4, <1>5
    <3>2. CASE j = p
      <4>1. home[i] \in sub[p]
        BY <3>2, <2>2, <1>3, <1>4
      <4> QED BY <4>1, <3>2, <2>2, <1>5
    <3>3. CASE j = y
      <4>1. home[i] \in sub[p]
        BY <3>3, <2>2, <1>1, <1>4
      <4>2. CASE home[i] = p BY <4>2, <3>3, <1>7
      <4>3. CASE home[i] \in sub[y] BY <4>3, <3>3, <2>2, <1>1, <1>5
      <4>4. CASE home[i] \in Below(sub, l[p]) /\ home[i] # p
        <5>1. p \notin span[i]
          BY <4>1, <4>4, <1>5
        <5>2. <<home[i], p>> \in R
          BY <4>4, <1>2
        <5> QED BY <5>1, <5>2, <3>3, <1>1, <1>3, <1>5 DEF Convex
      <4> QED BY <4>1, <4>2, <4>3, <4>4, <1>3
    <3> QED BY <3>1, <3>2, <3>3
  <2> QED BY <2>1, <2>2, <1>5
<1> QED BY <1>6, <1>7

\* Nothing moves to a node from below it.
LEMMA NothingToMoveUp ==
  ASSUME NEW N, NEW sub, NEW D, NEW home, NEW span, Highest(N, sub, D, home, span),
         NEW from, NEW to \in N, from # to, from \in sub[to], home \in [D -> N]
  PROVE  Rehomed(D, home, span, from, to) = home
<1>1. \A i \in D : ~(home[i] = from /\ to \in span[i])
  BY DEF Highest
<1> QED BY <1>1 DEF Rehomed

\* Spans are convex in the mirrored order, too.
LEMMA ConvexMirror ==
  ASSUME NEW N, NEW R, NEW Q, Inverses(N, R, Q), NEW D, NEW span, Convex(N, R, D, span)
  PROVE  Convex(N, Q, D, span)
BY DEF Inverses, Convex

\* The same for the four moves of a double rotation.
LEMMA DoubleRotationKeepsHighest ==
  ASSUME NEW N, NEW R, NEW Q, Inverses(N, R, Q), Inverses(N, Q, R),
         NEW l, NEW r, NEW up, NEW sub, NEW p \in N, NEW x, NEW z,
         Shape(N, R, l, r, up, sub), x = l[p], x # Null, z = r[x], z # Null,
         NEW D, NEW home, NEW span, Highest(N, sub, D, home, span), Convex(N, R, D, span),
         NEW home1, home1 = Rehomed(D, home, span, x, z),
         NEW home2, home2 = IF l[z] = Null THEN home1 ELSE Rehomed(D, home1, span, l[z], p),
         NEW home3, home3 = Rehomed(D, home2, span, p, z),
         NEW home4, home4 = IF r[z] = Null THEN home3 ELSE Rehomed(D, home3, span, r[z], p)
  PROVE  Highest(N, DoubleSub(N, l, r, sub, p, x, z), D, home4, span)
<1> DEFINE l1 == LeftOf(N, l, x, z)
           r1 == RightOf(N, l, r, x, z)
           up1 == UpOf(N, l, up, x, z)
           sub1 == SubOf(N, l, sub, x, z)
           sub2 == SubOf(N, r1, sub1, p, z)
<1>1. /\ x \in N /\ z \in N /\ p # x /\ p # z /\ x # z
      /\ l[z] # p /\ l[z] # x /\ l[z] # z
      /\ r[z] # p /\ r[z] # x /\ r[z] # z
      /\ Null \notin N /\ r[x] # x
  BY NodesOfDoubleRotation DEF Shape
<1>2. Shape(N, R, l1, r1, up1, sub1)
  BY <1>1, RotationKeepsShape
<1>3. /\ l1[p] = z /\ l1[z] = x /\ r1[x] = l[z] /\ r1[z] = r[z]
  <2>1. l1[p] = z BY DoubleRotationIsTwoRotations
  <2> QED BY <2>1, <1>1 DEF LeftOf, RightOf
<1>4. Highest(N, sub1, D, home1, span)
  BY <1>1, RotationKeepsHighest
<1>5. home1 \in [D -> N]
  BY <1>1 DEF Rehomed, Highest
<1> HIDE DEF l1, r1, up1, sub1
<1>6. \A k \in N : k \in sub1[k] /\ (l1[k] # Null => l1[k] \in N /\ sub1[l1[k]] \subseteq sub1[k])
                     /\ (r1[k] # Null => r1[k] \in N /\ sub1[r1[k]] \subseteq sub1[k])
  BY <1>2 DEF Shape, LinksOK, SubtreesOK, Below
<1>7. home2 = home1
  <2>1. CASE l[z] = Null BY <2>1
  <2>2. CASE l[z] # Null
    <3>1. l[z] \in sub1[x] /\ sub1[x] \subseteq sub1[z] /\ sub1[z] \subseteq sub1[p]
      BY <2>2, <1>1, <1>3, <1>6
    <3>2. l[z] \in sub1[p] /\ l[z] # p
      BY <3>1, <1>1
    <3>3. Rehomed(D, home1, span, l[z], p) = home1
      BY <3>2, <1>4, <1>5, NothingToMoveUp
    <3> QED BY <2>2, <3>3
  <2> QED BY <2>1, <2>2
<1>8. Shape(N, Q, r1, l1, up1, sub1)
  BY <1>2, MirrorShape
<1>9. Shape(N, Q, LeftOf(N, r1, p, z), RightOf(N, r1, l1, p, z), UpOf(N, r1, up1, p, z), sub2)
  BY <1>3, <1>8, RotationKeepsShape
<1>10. Highest(N, sub2, D, home3, span)
  BY <1>3, <1>4, <1>7, <1>8, ConvexMirror, RotationKeepsHighest
<1>11. RightOf(N, r1, l1, p, z)[p] = r[z]
  BY <1>3 DEF RightOf
<1>12. home3 \in [D -> N]
  BY <1>1, <1>5, <1>7 DEF Rehomed
<1> DEFINE s2 == RightOf(N, r1, l1, p, z)
<1> HIDE DEF sub2, s2
<1>13. \A k \in N : k \in sub2[k] /\ (s2[k] # Null => s2[k] \in N /\ sub2[s2[k]] \subseteq sub2[k])
  BY <1>9 DEF Shape, LinksOK, SubtreesOK, Below, s2
<1>14. home4 = home3
  <2>1. CASE r[z] = Null BY <2>1
  <2>2. CASE r[z] # Null
    <3>1. r[z] \in sub2[p] /\ r[z] # p
      BY <2>2, <1>1, <1>11, <1>13 DEF s2
    <3>2. Rehomed(D, home3, span, r[z], p) = home3
      BY <3>1, <1>10, <1>12, NothingToMoveUp
    <3> QED BY <2>2, <3>2
  <2> QED BY <2>1, <2>2
<1> QED BY <1>10, <1>14 DEF sub2, sub1, r1, DoubleSub

\* A new leaf is above nothing that is there.
LEMMA AttachKeepsHighest ==
  ASSUME NEW N, NEW sub, NEW a \in N, NEW m, m \notin N, sub \in [N -> SUBSET N],
         NEW D, NEW home, NEW span, Highest(N, sub, D, home, span)
  PROVE  Highest(N \cup {m}, SubWith(N, sub, a, m), D, home, span)
<1> DEFINE sub2 == SubWith(N, sub, a, m)
<1>1. /\ sub2[m] = {m}
      /\ \A n \in N : sub2[n] \subseteq sub[n] \cup {m}
  BY DEF SubWith
<1> HIDE DEF sub2
<1>2. ASSUME NEW i \in D, NEW j \in N \cup {m}, home[i] \in sub2[j], j # home[i]
      PROVE  j \notin span[i]
  <2>1. home[i] \in N /\ home[i] # m
    BY DEF Highest
  <2>2. j \in N BY <2>1, <1>1, <1>2
  <2>3. home[i] \in sub[j] BY <2>1, <2>2, <1>1, <1>2
  <2> QED BY <2>2, <2>3, <1>2 DEF Highest
<1> QED BY <1>2 DEF Highest, sub2

\* A new clause whose span meets no node above its own is at the highest node.
LEMMA HomeFound ==
  ASSUME NEW N, NEW sub, NEW D, NEW home, NEW span, Highest(N, sub, D, home, span), DOMAIN home = D, DOMAIN span = D,
         NEW i, i \notin D, NEW k \in N, NEW s, k \in s,
         \A j \in N : k \in sub[j] /\ j # k => j \notin s
  PROVE  Highest(N, sub, D \cup {i}, With(home, i, k), With(span, i, s))
<1>1. /\ With(home, i, k)[i] = k /\ With(span, i, s)[i] = s
      /\ \A n \in D : n # i /\ With(home, i, k)[n] = home[n] /\ With(span, i, s)[n] = span[n]
  BY DEF With
<1> QED BY <1>1 DEF Highest
-----------------------------------------------------------------------------
(* What the rotations do to the halves.                                    *)

\* The entries of one half of the nodes, for clauses at home[i] with the bound bound[i].
Half(N, D, home, bound) == [k \in N |-> {<<i, bound[i]>> : i \in {i \in D : home[i] = k}}]

\* The literals a clause spans, from its smallest to its largest.
Spans(D, lo, hi) == [i \in D |-> lo[i] .. hi[i]]

\* Each clause in D has one node, a key between its bounds.
Housed(N, D, home, lo, hi) ==
  /\ home \in [D -> N] /\ lo \in [D -> Int] /\ hi \in [D -> Int]
  /\ \A i \in D : lo[i] <= home[i] /\ home[i] <= hi[i]

\* What is in a half.
LEMMA EntryOfHalf ==
  ASSUME NEW N, NEW D, NEW home, NEW bound, NEW k \in N
  PROVE  /\ \A i \in D : home[i] = k => <<i, bound[i]>> \in Half(N, D, home, bound)[k]
         /\ \A e \in Half(N, D, home, bound)[k] : e[1] \in D /\ home[e[1]] = k /\ e[2] = bound[e[1]] /\ e = <<e[1], e[2]>>
BY DEF Half

\* The entries of some clauses in a half.
LEMMA EntriesOfHalf ==
  ASSUME NEW N, NEW D, NEW home, NEW bound, NEW k \in N, NEW ids
  PROVE  EntriesOf(Half(N, D, home, bound)[k], ids) = {<<i, bound[i]>> : i \in {i \in D : home[i] = k /\ i \in ids}}
<1>1. Half(N, D, home, bound)[k] = {<<i, bound[i]>> : i \in {i \in D : home[i] = k}}
  BY DEF Half
<1> QED BY <1>1 DEF EntriesOf

\* The prefix that moves consists of the clauses at the child that span the parent's
\* key.
LEMMA EntriesThatMove ==
  ASSUME NEW N, N \subseteq Int, NEW D, NEW home, NEW lo, NEW hi, Housed(N, D, home, lo, hi),
         NEW h, h.lower = Half(N, D, home, lo), h.upper = Half(N, D, home, hi),
         NEW from \in N, NEW to \in N, from # to, from # Null, to # 0
  PROVE  MovedClauses(h, from, to) = {i \in D : home[i] = from /\ to \in Spans(D, lo, hi)[i]}
<1>1. \A i \in D : /\ lo[i] \in Int /\ hi[i] \in Int /\ home[i] \in N
                   /\ lo[i] <= home[i] /\ home[i] <= hi[i]
                   /\ Spans(D, lo, hi)[i] = lo[i] .. hi[i]
  BY DEF Housed, Spans
<1>2. from \in Int /\ to \in Int
  OBVIOUS
<1>3. CASE to < from
  <2>1. MovedClauses(h, from, to) = {e[1] : e \in {e \in h.lower[from] : e[2] <= to}}
    BY <1>3 DEF MovedClauses
  <2>2. \A i \in D : home[i] = from => (lo[i] <= to <=> to \in Spans(D, lo, hi)[i])
    BY <1>1, <1>2, <1>3
  <2>3. ASSUME NEW i \in MovedClauses(h, from, to)
        PROVE  i \in D /\ home[i] = from /\ to \in Spans(D, lo, hi)[i]
    <3>1. PICK e \in h.lower[from] : e[2] <= to /\ i = e[1]
      BY <2>1
    <3>2. i \in D /\ home[i] = from /\ e[2] = lo[i]
      BY <3>1, EntryOfHalf
    <3> QED BY <3>1, <3>2, <2>2
  <2>4. ASSUME NEW i \in D, home[i] = from, to \in Spans(D, lo, hi)[i]
        PROVE  i \in MovedClauses(h, from, to)
    <3>1. <<i, lo[i]>> \in h.lower[from]
      BY <2>4, EntryOfHalf
    <3>2. lo[i] <= to BY <2>2, <2>4
    <3> QED BY <3>1, <3>2, <2>1
  <2> QED BY <2>3, <2>4
<1>4. CASE ~(to < from)
  <2>1. MovedClauses(h, from, to) = {e[1] : e \in {e \in h.upper[from] : e[2] >= to}}
    BY <1>4 DEF MovedClauses
  <2>2. \A i \in D : home[i] = from => (hi[i] >= to <=> to \in Spans(D, lo, hi)[i])
    BY <1>1, <1>2, <1>4
  <2>3. ASSUME NEW i \in MovedClauses(h, from, to)
        PROVE  i \in D /\ home[i] = from /\ to \in Spans(D, lo, hi)[i]
    <3>1. PICK e \in h.upper[from] : e[2] >= to /\ i = e[1]
      BY <2>1
    <3>2. i \in D /\ home[i] = from /\ e[2] = hi[i]
      BY <3>1, EntryOfHalf
    <3> QED BY <3>1, <3>2, <2>2
  <2>4. ASSUME NEW i \in D, home[i] = from, to \in Spans(D, lo, hi)[i]
        PROVE  i \in MovedClauses(h, from, to)
    <3>1. <<i, hi[i]>> \in h.upper[from]
      BY <2>4, EntryOfHalf
    <3>2. hi[i] >= to BY <2>2, <2>4
    <3> QED BY <3>1, <3>2, <2>1
  <2> QED BY <2>3, <2>4
<1> QED BY <1>3, <1>4

\* Moving entries from node to node is moving the clauses' homes.
LEMMA MovedHalf ==
  ASSUME NEW N, NEW D, NEW home \in [D -> N], NEW bound, NEW from \in N, NEW to \in N, from # to,
         NEW ids, NEW home2, home2 = [i \in D |-> IF home[i] = from /\ i \in ids THEN to ELSE home[i]],
         \A i \in ids : i \in D /\ home[i] = from
  PROVE  MovedEntries(Half(N, D, home, bound), ids, from, to) = Half(N, D, home2, bound)
<1> DEFINE half == Half(N, D, home, bound)
           moved == {<<i, bound[i]>> : i \in ids}
<1>1. half = [k \in N |-> {<<i, bound[i]>> : i \in {i \in D : home[i] = k}}]
  BY DEF Half
<1>2. EntriesOf(half[from], ids) = moved
  <2>1. EntriesOf(half[from], ids) = {<<i, bound[i]>> : i \in {i \in D : home[i] = from /\ i \in ids}}
    BY EntriesOfHalf
  <2>2. {i \in D : home[i] = from /\ i \in ids} = ids
    OBVIOUS
  <2> QED BY <2>1, <2>2
<1>3. \A i \in D : home2[i] = IF i \in ids THEN to ELSE home[i]
  OBVIOUS
<1>4. CASE ids = {}
  <2>1. home2 = home BY <1>4
  <2> QED BY <2>1, <1>4 DEF MovedEntries
<1>5. CASE ids # {}
  <2>1. MovedEntries(half, ids, from, to) = [half EXCEPT ![from] = @ \ moved, ![to] = @ \cup moved]
    BY <1>2, <1>5 DEF MovedEntries
  <2>2. ASSUME NEW k \in N
        PROVE  [half EXCEPT ![from] = @ \ moved, ![to] = @ \cup moved][k] = {<<i, bound[i]>> : i \in {i \in D : home2[i] = k}}
    <3>1. half[k] = {<<i, bound[i]>> : i \in {i \in D : home[i] = k}}
      BY <1>1
    <3>2. CASE k = from
      <4>1. [half EXCEPT ![from] = @ \ moved, ![to] = @ \cup moved][k] = half[k] \ moved
        BY <3>2, <1>1
      <4>2. {i \in D : home2[i] = k} = {i \in D : home[i] = k} \ ids
        BY <3>2, <1>3
      <4>3. {<<i, bound[i]>> : i \in {i \in D : home[i] = k}} \ moved = {<<i, bound[i]>> : i \in {i \in D : home[i] = k} \ ids}
        OBVIOUS
      <4> QED BY <4>1, <4>2, <4>3, <3>1
    <3>3. CASE k = to
      <4>1. [half EXCEPT ![from] = @ \ moved, ![to] = @ \cup moved][k] = half[k] \cup moved
        BY <3>3, <1>1
      <4>2. {i \in D : home2[i] = k} = {i \in D : home[i] = k} \cup ids
        BY <3>3, <1>3
      <4>3. {<<i, bound[i]>> : i \in {i \in D : home[i] = k}} \cup moved = {<<i, bound[i]>> : i \in {i \in D : home[i] = k} \cup ids}
        OBVIOUS
      <4> QED BY <4>1, <4>2, <4>3, <3>1
    <3>4. CASE k # from /\ k # to
      <4>1. [half EXCEPT ![from] = @ \ moved, ![to] = @ \cup moved][k] = half[k]
        BY <3>4, <1>1
      <4>2. {i \in D : home2[i] = k} = {i \in D : home[i] = k}
        BY <3>4, <1>3
      <4> QED BY <4>1, <4>2, <3>1
    <3> QED BY <3>2, <3>3, <3>4
  <2>3. [half EXCEPT ![from] = @ \ moved, ![to] = @ \cup moved] = [k \in N |-> {<<i, bound[i]>> : i \in {i \in D : home2[i] = k}}]
    BY <2>2, <1>1
  <2> QED BY <2>1, <2>3 DEF Half
<1> QED BY <1>4, <1>5

\* What Move does to the homes.
MovedHomes(D, home, lo, hi, from, to) ==
  IF from = Null \/ to = 0 THEN home ELSE Rehomed(D, home, Spans(D, lo, hi), from, to)

\* Both halves hold the clauses at their nodes, with their bounds.
HalvesAre(h, N, D, home, lo, hi) == h.lower = Half(N, D, home, lo) /\ h.upper = Half(N, D, home, hi)

\* moveIntervalsOverlappingParentFromChildToParent keeps both halves in step.
LEMMA MoveHalves ==
  ASSUME NEW N, N \subseteq Int, NEW D, NEW home, NEW lo, NEW hi, Housed(N, D, home, lo, hi),
         NEW h, HalvesAre(h, N, D, home, lo, hi),
         NEW from \in N \cup {Null}, NEW to \in N, from # to,
         NEW home2, home2 = MovedHomes(D, home, lo, hi, from, to)
  PROVE  /\ Housed(N, D, home2, lo, hi)
         /\ HalvesAre(Move(h, from, to), N, D, home2, lo, hi)
<1> USE DEF HalvesAre
<1>1. CASE from = Null \/ to = 0
  <2>1. MovedClauses(h, from, to) = {} /\ home2 = home
    BY <1>1 DEF MovedClauses, MovedHomes
  <2>2. Move(h, from, to).lower = h.lower /\ Move(h, from, to).upper = h.upper
    BY <2>1 DEF Move, MovedEntries
  <2> QED BY <2>1, <2>2
<1>2. CASE from # Null /\ to # 0
  <2> DEFINE ids == MovedClauses(h, from, to)
  <2>1. ids = {i \in D : home[i] = from /\ to \in Spans(D, lo, hi)[i]}
    BY <1>2, EntriesThatMove
  <2>2. home2 = [i \in D |-> IF home[i] = from /\ i \in ids THEN to ELSE home[i]]
    BY <2>1, <1>2 DEF MovedHomes, Rehomed
  <2>3. \A i \in ids : i \in D /\ home[i] = from
    BY <2>1
  <2>4. home \in [D -> N] /\ from \in N
    BY <1>2 DEF Housed
  <2>5. /\ MovedEntries(h.lower, ids, from, to) = Half(N, D, home2, lo)
        /\ MovedEntries(h.upper, ids, from, to) = Half(N, D, home2, hi)
    <3> HIDE DEF ids
    <3> QED BY <2>2, <2>3, <2>4, MovedHalf
  <2>6. Housed(N, D, home2, lo, hi)
    <3>1. \A i \in D : /\ lo[i] \in Int /\ hi[i] \in Int /\ to \in Int
                       /\ Spans(D, lo, hi)[i] = lo[i] .. hi[i]
      BY DEF Housed, Spans
    <3>2. \A i \in D : lo[i] <= home2[i] /\ home2[i] <= hi[i] /\ home2[i] \in N
      BY <3>1, <2>1, <2>2 DEF Housed
    <3>3. home2 \in [D -> N]
      BY <3>2, <2>2
    <3> QED BY <3>2, <3>3 DEF Housed
  <2> QED BY <2>5, <2>6 DEF Move
<1> QED BY <1>1, <1>2
-----------------------------------------------------------------------------
(* The invariant of the tree.                                              *)

\* The formula, the plan and the state of the call have their types.
DataOK ==
  /\ FormulaOK
  /\ recorded \subseteq ClauseIds
  /\ phase \in {"Idle", "Build", "Descend", "Rebalance"}
  /\ plan \in Seq(0 .. SizeMax)
  /\ outcome \in {"None", "Building", "Created", "Failed", "Threw"}
  /\ phase \in {"Descend", "Rebalance"} => inserted \in recorded /\ HasLiterals(inserted)

\* The node whose subtree became higher in the call of insertClause.
Grown == IF phase = "Rebalance" THEN at ELSE Null

\* The tree is a finite search tree with all nodes below its root.
TreeShape(sub) ==
  /\ Nodes \subseteq Int /\ IsFiniteSet(Nodes)
  /\ Shape(Nodes, Less, left, right, parent, sub)
  /\ Rooted(Nodes, parent, root, sub)

\* The balancing factors are right, up to the node that has grown.
TreeHeights(g) == HeightsFit(Nodes, left, right, balance, g, Grown)

\* The descent is at the place where the new clause belongs: its midpoint can only be
\* below the node, and the clause spans no node above.
CallOK(sub) ==
  /\ phase = "Descend" => /\ at \in Nodes
                          /\ LeadsTo(Nodes, Less, left, right, sub, at, Midpoint(inserted))
                          /\ Midpoint(inserted) \in Nodes => Midpoint(inserted) \in sub[at]
                          /\ \A j \in Nodes : at \in sub[j] /\ j # at => ~Encloses(inserted, j)
  /\ phase = "Rebalance" => at \in Nodes

\* The clauses that are at a node.
Placed == IF phase = "Descend" THEN recorded \ {inserted} ELSE recorded

\* A bound recorded at the insertion still holds: a clause only loses literals.
BoundsFit(D, lo, hi) ==
  /\ \A i \in D : lo[i] \in Literals /\ hi[i] \in Literals
  /\ \A i \in D \cap DOMAIN clauses : \A y \in clauses[i] : lo[i] <= y /\ y <= hi[i]

\* The halves hold each placed clause once, at a node it spans; unless a node has the
\* key 0, at the highest one.
EntriesFit(sub, home, lo, hi) ==
  /\ Housed(Nodes, Placed, home, lo, hi)
  /\ lower = Half(Nodes, Placed, home, lo)
  /\ upper = Half(Nodes, Placed, home, hi)
  /\ BoundsFit(Placed, lo, hi)
  /\ 0 \notin Nodes => Highest(Nodes, sub, Placed, home, Spans(Placed, lo, hi))

\* What holds of a tree with these subtrees, heights, homes and bounds.
Fits(sub, g, home, lo, hi) ==
  TreeShape(sub) /\ TreeHeights(g) /\ CallOK(sub) /\ EntriesFit(sub, home, lo, hi)

\* There are subtrees, heights, homes and bounds that fit the tree.
TreeFits == \E sub, g, home, lo, hi : Fits(sub, g, home, lo, hi)

\* The invariant of the tree without the one of the plan.
TreeInv == DataOK /\ TreeFits
\* The empty tree has no nodes.
LEMMA NoNodes == DOMAIN <<>> = {}
OBVIOUS

\* A half with one more clause at a node.
LEMMA HalfWithOneMore ==
  ASSUME NEW N, NEW D, NEW home \in [D -> N], NEW bound, DOMAIN bound = D, NEW i, i \notin D, NEW k \in N, NEW v
  PROVE  Half(N, D \cup {i}, With(home, i, k), With(bound, i, v)) = With(Half(N, D, home, bound), k, Half(N, D, home, bound)[k] \cup {<<i, v>>})
<1> DEFINE half == Half(N, D, home, bound)
           home2 == With(home, i, k)
           bound2 == With(bound, i, v)
           with == With(half, k, half[k] \cup {<<i, v>>})
<1>1. half = [n \in N |-> {<<c, bound[c]>> : c \in {c \in D : home[c] = n}}]
  BY DEF Half
<1>2. /\ home2[i] = k /\ bound2[i] = v
      /\ \A c \in D : home2[c] = home[c] /\ bound2[c] = bound[c] /\ c # i
  BY DEF With
<1> HIDE DEF home2, bound2
<1>3. ASSUME NEW n \in N
      PROVE  with[n]
               = {<<c, bound2[c]>> : c \in {c \in D \cup {i} : home2[c] = n}}
  <2>1. {<<c, bound2[c]>> : c \in {c \in D : home[c] = n}} = half[n]
    BY <1>1, <1>2
  <2>2. CASE n = k
    <3>1. {c \in D \cup {i} : home2[c] = n} = {c \in D : home[c] = n} \cup {i}
      BY <2>2, <1>2
    <3>2. {<<c, bound2[c]>> : c \in {c \in D : home[c] = n} \cup {i}}
            = {<<c, bound2[c]>> : c \in {c \in D : home[c] = n}} \cup {<<i, v>>}
      BY <1>2
    <3>3. with[n] = half[n] \cup {<<i, v>>}
      BY <2>2, <1>1 DEF With
    <3> QED BY <3>1, <3>2, <3>3, <2>1
  <2>3. CASE n # k
    <3>1. {c \in D \cup {i} : home2[c] = n} = {c \in D : home[c] = n}
      BY <2>3, <1>2
    <3>2. with[n] = half[n]
      BY <2>3, <1>1 DEF With
    <3> QED BY <3>1, <3>2, <2>1
  <2> QED BY <2>2, <2>3
<1>4. with = [n \in N |-> {<<c, bound2[c]>> : c \in {c \in D \cup {i} : home2[c] = n}}]
  <2>1. with = [n \in N |-> with[n]]
    BY <1>1 DEF With
  <2> QED BY <2>1, <1>3
<1> QED BY <1>4 DEF Half, home2, bound2

\* A half with one more node, without clauses.
LEMMA HalfOfMoreNodes ==
  ASSUME NEW N, NEW D, NEW home \in [D -> N], NEW bound, NEW m, m \notin N
  PROVE  Half(N \cup {m}, D, home, bound) = With(Half(N, D, home, bound), m, {})
<1>1. {<<c, bound[c]>> : c \in {c \in D : home[c] = m}} = {}
  OBVIOUS
<1> QED BY <1>1 DEF Half, With

\* A half with a new node for a new clause.
LEMMA HalfWithNewNode ==
  ASSUME NEW N, NEW D, NEW home \in [D -> N], NEW bound, DOMAIN bound = D, NEW i, i \notin D, NEW m, m \notin N, NEW v
  PROVE  Half(N \cup {m}, D \cup {i}, With(home, i, m), With(bound, i, v)) = With(Half(N, D, home, bound), m, {<<i, v>>})
<1> DEFINE half == Half(N, D, home, bound)
           wide == With(half, m, {})
<1>1. home \in [D -> N \cup {m}]
  OBVIOUS
<1>2. Half(N \cup {m}, D, home, bound) = wide
  BY HalfOfMoreNodes
<1>3. Half(N \cup {m}, D \cup {i}, With(home, i, m), With(bound, i, v)) = With(wide, m, wide[m] \cup {<<i, v>>})
  <2> HIDE DEF half
  <2> DEFINE M == N \cup {m}
  <2>1. m \in M /\ home \in [D -> M] /\ Half(M, D, home, bound) = wide
    BY <1>2
  <2> HIDE DEF M, wide
  <2>2. Half(M, D \cup {i}, With(home, i, m), With(bound, i, v)) = With(wide, m, wide[m] \cup {<<i, v>>})
    BY <2>1, HalfWithOneMore
  <2> QED BY <2>2 DEF M
<1>4. With(wide, m, wide[m] \cup {<<i, v>>}) = With(half, m, {<<i, v>>})
  <2>1. DOMAIN half = N
    BY DEF Half
  <2> HIDE DEF half
  <2> QED BY <2>1 DEF With
<1> QED BY <1>3, <1>4

\* A new clause at a node it spans is housed.
LEMMA HousedWithOneMore ==
  ASSUME NEW N, NEW D, NEW home, NEW lo, NEW hi, Housed(N, D, home, lo, hi),
         NEW i, i \notin D, NEW k, NEW M, N \subseteq M, k \in M, NEW s \in Int, NEW t \in Int, s <= k, k <= t
  PROVE  /\ Housed(M, D \cup {i}, With(home, i, k), With(lo, i, s), With(hi, i, t))
         /\ Spans(D \cup {i}, With(lo, i, s), With(hi, i, t)) = With(Spans(D, lo, hi), i, s .. t)
<1>1. /\ With(home, i, k)[i] = k /\ With(lo, i, s)[i] = s /\ With(hi, i, t)[i] = t
      /\ \A n \in D : n # i /\ With(home, i, k)[n] = home[n] /\ With(lo, i, s)[n] = lo[n] /\ With(hi, i, t)[n] = hi[n]
  BY DEF With, Housed
<1>2. /\ With(home, i, k) \in [D \cup {i} -> M]
      /\ With(lo, i, s) \in [D \cup {i} -> Int] /\ With(hi, i, t) \in [D \cup {i} -> Int]
  BY DEF With, Housed
<1>3. Housed(M, D \cup {i}, With(home, i, k), With(lo, i, s), With(hi, i, t))
  BY <1>1, <1>2 DEF Housed
<1>4. Spans(D \cup {i}, With(lo, i, s), With(hi, i, t)) = [n \in D \cup {i} |-> IF n = i THEN s .. t ELSE lo[n] .. hi[n]]
  BY <1>1 DEF Spans
<1>5. With(Spans(D, lo, hi), i, s .. t) = [n \in D \cup {i} |-> IF n = i THEN s .. t ELSE lo[n] .. hi[n]]
  BY DEF With, Spans
<1> QED BY <1>3, <1>4, <1>5

\* The bounds of a new clause are those of its literals.
LEMMA BoundsFitOneMore ==
  ASSUME FormulaOK, NEW D, NEW lo, NEW hi, BoundsFit(D, lo, hi), DOMAIN lo = D, DOMAIN hi = D, NEW i, i \notin D, HasLiterals(i)
  PROVE  BoundsFit(D \cup {i}, With(lo, i, Smallest(i)), With(hi, i, Largest(i)))
<1>1. /\ With(lo, i, Smallest(i))[i] = Smallest(i) /\ With(hi, i, Largest(i))[i] = Largest(i)
      /\ \A n \in D : n # i /\ With(lo, i, Smallest(i))[n] = lo[n] /\ With(hi, i, Largest(i))[n] = hi[n]
  BY DEF With
<1>2. /\ Smallest(i) \in Literals /\ Largest(i) \in Literals
      /\ \A y \in clauses[i] : Smallest(i) <= y /\ y <= Largest(i)
  BY BoundsOfClause
<1> QED BY <1>1, <1>2 DEF BoundsFit

\* The descent starts at the root.
LEMMA RootLeadsAnywhere ==
  ASSUME NEW N, NEW R, NEW l, NEW r, NEW up, NEW rt, NEW sub, NEW m,
         Shape(N, R, l, r, up, sub), Rooted(N, up, rt, sub), rt # Null
  PROVE  /\ rt \in N
         /\ LeadsTo(N, R, l, r, sub, rt, m)
         /\ m \in N => m \in sub[rt]
         /\ \A j \in N : rt \in sub[j] => j = rt
<1>1. rt \in N /\ up[rt] = Null /\ sub[rt] = N /\ Null \notin N
  BY DEF Rooted, Shape
<1>2. \A j \in N : rt \in sub[j] => j = rt
  BY <1>1 DEF Shape, SubtreesOK
<1>3. \A k \in N : l[k] # rt /\ r[k] # rt /\ l[k] \in N \cup {Null} /\ r[k] \in N \cup {Null}
  BY <1>1 DEF Shape, LinksOK
<1>4. \A k \in N : rt \notin Below(sub, l[k]) /\ rt \notin Below(sub, r[k])
  BY <1>1, <1>2, <1>3 DEF Below
<1> QED BY <1>1, <1>2, <1>4 DEF LeadsTo
-----------------------------------------------------------------------------
(* Insertion of a clause: first insertion, descent, new leaf.              *)

\* The empty tree fits.
LEMMA EmptyTreeFits ==
  ASSUME EmptyTree, phase \in {"Idle", "Build"}
  PROVE  TreeFits
<1>1. /\ Nodes = {} /\ DOMAIN right = {} /\ DOMAIN parent = {} /\ DOMAIN balance = {}
      /\ DOMAIN lower = {} /\ DOMAIN upper = {}
  BY NoNodes DEF EmptyTree, Nodes
<1>2. /\ left = [n \in {} |-> Null] /\ right = [n \in {} |-> Null] /\ parent = [n \in {} |-> Null]
      /\ balance = [n \in {} |-> 0] /\ lower = [n \in {} |-> {}] /\ upper = [n \in {} |-> {}]
  BY <1>1 DEF EmptyTree
<1> DEFINE e == [n \in {} |-> 0]
           s == [n \in {} |-> {}]
<1>3. Null \notin Nodes /\ IsFiniteSet(Nodes)
  BY <1>1, FS_EmptySet
<1>4. TreeShape(s)
  BY <1>1, <1>2, <1>3 DEF TreeShape, Shape, StrictOrderOn, LinksOK, SubtreesOK, SearchOK, Rooted, EmptyTree
<1>5. TreeHeights(e)
  BY <1>1, <1>2, <1>3 DEF TreeHeights, HeightsFit
<1>6. CallOK(s)
  BY DEF CallOK
<1>7. Placed = {}
  BY DEF Placed, EmptyTree
<1>8. EntriesFit(s, e, e, e)
  BY <1>1, <1>2, <1>7 DEF EntriesFit, Housed, Half, BoundsFit, Highest
<1> HIDE DEF e, s
<1> QED BY <1>4, <1>5, <1>6, <1>8 DEF TreeFits, Fits

\* The invariant of the tree holds initially.
LEMMA InitFits == TreeInit => TreeInv
<1> SUFFICES ASSUME TreeInit PROVE TreeInv
  OBVIOUS
<1> USE DEF TreeInit
<1>1. \A i \in DOMAIN clauses : i \in ClauseIds /\ clauses[i] \subseteq Literals
  BY DEF ClauseIds, Literals
<1>2. \A i \in DOMAIN clauses : IsFiniteSet(clauses[i])
  BY TreeAssumption
<1>3. DataOK
  BY <1>1, <1>2 DEF DataOK, FormulaOK, EmptyTree
<1>4. TreeFits
  BY EmptyTreeFits
<1> QED BY <1>3, <1>4 DEF TreeInv

\* The first clause becomes the root.
LEMMA FirstInsertionFits ==
  ASSUME TreeInv, phase \in {"Idle", "Build"}, NEW i, i \notin recorded, HasLiterals(i),
         Insert(i), UNCHANGED clauses, root = Null
  PROVE  TreeFits'
<1>1. PICK sub, g, home, lo, hi : Fits(sub, g, home, lo, hi)
  BY DEF TreeInv, TreeFits
<1>2. PICK m : m = Midpoint(i)
  OBVIOUS
<1>3. PICK s, t : s = Smallest(i) /\ t = Largest(i)
  OBVIOUS
<1>4. m \in Int /\ m # Null /\ s \in Int /\ t \in Int /\ s <= m /\ m <= t
  BY <1>2, <1>3, BoundsOfClause, TreeAssumption DEF TreeInv, DataOK, Encloses
<1>5. Nodes = {} /\ Placed = recorded
  BY <1>1 DEF Fits, TreeShape, Rooted, Placed
<1>6. recorded = {}
  BY <1>1, <1>5 DEF Fits, EntriesFit, Housed
<1>7. /\ DOMAIN left = {} /\ DOMAIN right = {} /\ DOMAIN parent = {} /\ DOMAIN balance = {}
      /\ DOMAIN lower = {} /\ DOMAIN upper = {}
  BY <1>1, <1>5 DEF Fits, TreeShape, TreeHeights, HeightsFit, Shape, LinksOK, EntriesFit, Half
<1>8. /\ left' = [n \in {m} |-> Null] /\ right' = [n \in {m} |-> Null] /\ parent' = [n \in {m} |-> Null]
      /\ balance' = [n \in {m} |-> 0]
      /\ lower' = [n \in {m} |-> {<<i, s>>}] /\ upper' = [n \in {m} |-> {<<i, t>>}]
      /\ root' = m /\ recorded' = {i} /\ phase' \in {"Idle", "Build"}
  BY <1>2, <1>3, <1>6, <1>7 DEF Insert, NewNode, With, Caller
<1>9. Nodes' = {m}
  BY <1>8 DEF Nodes
<1>10. PICK sub2 : sub2 = [n \in {m} |-> {m}]
  OBVIOUS
<1>11. PICK g2 : g2 = [n \in {m} |-> 1]
  OBVIOUS
<1>12. PICK home2, lo2, hi2 : home2 = [n \in {i} |-> m] /\ lo2 = [n \in {i} |-> s] /\ hi2 = [n \in {i} |-> t]
  OBVIOUS
<1>13. TreeShape(sub2)'
  <2>1. StrictOrderOn({m}, Less)
    BY <1>4, LessGreater
  <2>2. IsFiniteSet({m})
    BY FS_Singleton
  <2>3. LinksOK({m}, left', right', parent')
    BY <1>8, <1>4 DEF LinksOK
  <2>4. SubtreesOK({m}, left', right', parent', sub2)
    BY <1>8, <1>4, <1>10 DEF SubtreesOK, Below
  <2>5. SearchOK({m}, Less, left', right', sub2)
    BY <1>8, <1>4, <1>10 DEF SearchOK, Below
  <2>6. Rooted({m}, parent', root', sub2)
    BY <1>8, <1>4, <1>10 DEF Rooted
  <2> QED BY <2>1, <2>2, <2>3, <2>4, <2>5, <2>6, <1>9, <1>4 DEF TreeShape, Shape
<1>14. TreeHeights(g2)'
  <2>1. /\ \A k \in {m} : left'[k] = Null /\ right'[k] = Null /\ balance'[k] = 0 /\ g2[k] = 1
        /\ g2 \in [{m} -> Nat] /\ balance' \in [{m} -> {-1, 0, 1}]
    BY <1>8, <1>11
  <2>2. Grown' = Null
    BY <1>8 DEF Grown
  <2> QED BY <2>1, <2>2, <1>9, <1>4 DEF TreeHeights, HeightsFit, Tall, Higher
<1>15. CallOK(sub2)'
  BY <1>8 DEF CallOK
<1>16. EntriesFit(sub2, home2, lo2, hi2)'
  <2>1. Placed' = {i}
    BY <1>8 DEF Placed
  <2>2. Housed({m}, {i}, home2, lo2, hi2)
    BY <1>12, <1>4 DEF Housed
  <2>3. lower' = Half({m}, {i}, home2, lo2) /\ upper' = Half({m}, {i}, home2, hi2)
    BY <1>12, <1>8 DEF Half
  <2>4. BoundsFit({i}, lo2, hi2)'
    BY <1>12, <1>3, BoundsOfClause DEF TreeInv, DataOK, BoundsFit, Smallest, Largest
  <2>5. Highest({m}, sub2, {i}, home2, Spans({i}, lo2, hi2))
    BY <1>12, <1>4, <1>10 DEF Highest, Spans
  <2> QED BY <2>1, <2>2, <2>3, <2>4, <2>5, <1>9 DEF EntriesFit
<1> QED BY <1>13, <1>14, <1>15, <1>16 DEF TreeFits, Fits

\* A later insertion starts to descend.
LEMMA LaterInsertionFits ==
  ASSUME TreeInv, phase \in {"Idle", "Build"}, NEW i, i \notin recorded, HasLiterals(i),
         Insert(i), UNCHANGED clauses, root # Null
  PROVE  TreeFits'
<1>1. PICK sub, g, home, lo, hi : Fits(sub, g, home, lo, hi)
  BY DEF TreeInv, TreeFits
<1>2. /\ phase' = "Descend" /\ at' = root /\ inserted' = i /\ recorded' = recorded \cup {i}
      /\ UNCHANGED <<root, left, right, parent, balance, lower, upper, clauses>>
  BY DEF Insert, pointers, halves
<1>3. Nodes' = Nodes /\ Placed' = Placed /\ Grown' = Grown
  BY <1>2 DEF Nodes, Placed, Grown
<1>4. PICK m : m = Midpoint(i)
  OBVIOUS
<1>5. m = Midpoint(inserted)'
  BY <1>2, <1>4 DEF Midpoint
<1>6. TreeShape(sub)' /\ TreeHeights(g)'
  BY <1>1, <1>2, <1>3 DEF Fits, TreeShape, TreeHeights
<1>7. /\ root \in Nodes
      /\ LeadsTo(Nodes, Less, left, right, sub, root, m)
      /\ m \in Nodes => m \in sub[root]
      /\ \A j \in Nodes : root \in sub[j] => j = root
  BY <1>1, RootLeadsAnywhere DEF Fits, TreeShape
<1>8. CallOK(sub)'
  BY <1>2, <1>3, <1>5, <1>7 DEF CallOK
<1>9. EntriesFit(sub, home, lo, hi)'
  BY <1>1, <1>2, <1>3 DEF Fits, EntriesFit, BoundsFit
<1> QED BY <1>6, <1>8, <1>9 DEF TreeFits, Fits

\* A clause that spans a node of the path is kept there.
LEMMA KeepHereFits ==
  ASSUME TreeInv, KeepHere
  PROVE  TreeFits'
<1>1. PICK sub, g, home, lo, hi : Fits(sub, g, home, lo, hi)
  BY DEF TreeInv, TreeFits
<1>2. PICK i, k, s, t : i = inserted /\ k = at /\ s = Smallest(i) /\ t = Largest(i)
  OBVIOUS
<1>3. PICK D : D = Placed
  OBVIOUS
<1>4. HasLiterals(i) /\ i \in recorded /\ phase = "Descend" /\ FormulaOK
  BY <1>2 DEF KeepHere, TreeInv, DataOK
<1>5. i \notin D /\ D \cup {i} = recorded
  BY <1>2, <1>3, <1>4 DEF Placed
<1>6. s \in Int /\ t \in Int /\ s <= k /\ k <= t /\ k \in Nodes
  BY <1>1, <1>2, <1>4, BoundsOfClause DEF KeepHere, Encloses, Fits, CallOK
<1>7. \A j \in Nodes : k \in sub[j] /\ j # k => j \notin s .. t
  <2> SUFFICES ASSUME NEW j \in Nodes, k \in sub[j], j # k PROVE j \notin s .. t
    OBVIOUS
  <2>1. ~Encloses(i, j)
    BY <1>1, <1>2, <1>4 DEF Fits, CallOK
  <2> QED BY <2>1, <1>2 DEF Encloses
<1>8. /\ UNCHANGED <<clauses, root, left, right, parent, balance, recorded>>
      /\ lower' = [lower EXCEPT ![k] = @ \cup {<<i, s>>}]
      /\ upper' = [upper EXCEPT ![k] = @ \cup {<<i, t>>}]
      /\ phase' \in {"Idle", "Build"}
  BY <1>2 DEF KeepHere, pointers, Caller
<1>9. Nodes' = Nodes /\ Placed' = D \cup {i} /\ Grown' = Grown
  BY <1>8, <1>4, <1>5 DEF Nodes, Placed, Grown
<1>10. PICK home2, lo2, hi2 : home2 = With(home, i, k) /\ lo2 = With(lo, i, s) /\ hi2 = With(hi, i, t)
  OBVIOUS
<1>11. TreeShape(sub)' /\ TreeHeights(g)'
  BY <1>1, <1>8, <1>9 DEF Fits, TreeShape, TreeHeights
<1>12. CallOK(sub)'
  BY <1>8 DEF CallOK
<1>13. Housed(Nodes, D, home, lo, hi) /\ home \in [D -> Nodes] /\ DOMAIN lo = D /\ DOMAIN hi = D /\ DOMAIN home = D
  BY <1>1, <1>3 DEF Fits, EntriesFit, Housed
<1>14. /\ Housed(Nodes, D \cup {i}, home2, lo2, hi2)
       /\ Spans(D \cup {i}, lo2, hi2) = With(Spans(D, lo, hi), i, s .. t)
  BY <1>13, <1>5, <1>6, <1>10, HousedWithOneMore
<1>15. lower' = Half(Nodes, D \cup {i}, home2, lo2)
  <2>1. lower = Half(Nodes, D, home, lo)
    BY <1>1, <1>3 DEF Fits, EntriesFit
  <2>2. DOMAIN lower = Nodes /\ DOMAIN upper = Nodes
    BY <1>1 DEF Fits, EntriesFit, Half
  <2>3. Half(Nodes, D \cup {i}, With(home, i, k), With(lo, i, s)) = With(Half(Nodes, D, home, lo), k, Half(Nodes, D, home, lo)[k] \cup {<<i, s>>})
    BY <1>13, <1>5, <1>6, HalfWithOneMore
  <2>4. lower' = With(lower, k, lower[k] \cup {<<i, s>>})
    <3>1. DOMAIN lower \cup {k} = Nodes
      BY <2>2, <1>6
    <3> QED BY <2>2, <3>1, <1>8 DEF With
  <2> QED BY <2>1, <2>3, <2>4, <1>10
<1>16. upper' = Half(Nodes, D \cup {i}, home2, hi2)
  <2>1. upper = Half(Nodes, D, home, hi)
    BY <1>1, <1>3 DEF Fits, EntriesFit
  <2>2. DOMAIN lower = Nodes /\ DOMAIN upper = Nodes
    BY <1>1 DEF Fits, EntriesFit, Half
  <2>3. Half(Nodes, D \cup {i}, With(home, i, k), With(hi, i, t)) = With(Half(Nodes, D, home, hi), k, Half(Nodes, D, home, hi)[k] \cup {<<i, t>>})
    BY <1>13, <1>5, <1>6, HalfWithOneMore
  <2>4. upper' = With(upper, k, upper[k] \cup {<<i, t>>})
    <3>1. DOMAIN upper \cup {k} = Nodes
      BY <2>2, <1>6
    <3> QED BY <2>2, <3>1, <1>8 DEF With
  <2> QED BY <2>1, <2>3, <2>4, <1>10
<1>17. BoundsFit(D \cup {i}, lo2, hi2)'
  <2>1. BoundsFit(D, lo, hi)
    BY <1>1, <1>3 DEF Fits, EntriesFit
  <2>2. BoundsFit(D \cup {i}, lo2, hi2)
    BY <2>1, <1>2, <1>4, <1>5, <1>10, <1>13, BoundsFitOneMore
  <2> QED BY <2>2, <1>8 DEF BoundsFit
<1>18. ASSUME 0 \notin Nodes
       PROVE  Highest(Nodes, sub, D \cup {i}, home2, Spans(D \cup {i}, lo2, hi2))
  <2>1. Highest(Nodes, sub, D, home, Spans(D, lo, hi))
    BY <1>1, <1>3, <1>18 DEF Fits, EntriesFit
  <2>2. DOMAIN Spans(D, lo, hi) = D
    BY DEF Spans
  <2>3. k \in s .. t
    BY <1>1, <1>6 DEF Fits, TreeShape
  <2>4. Highest(Nodes, sub, D \cup {i}, home2, With(Spans(D, lo, hi), i, s .. t))
    BY <2>1, <2>2, <2>3, <1>5, <1>6, <1>7, <1>10, <1>13, HomeFound
  <2> QED BY <2>4, <1>14
<1>19. EntriesFit(sub, home2, lo2, hi2)'
  BY <1>9, <1>14, <1>15, <1>16, <1>17, <1>18 DEF EntriesFit
<1> QED BY <1>11, <1>12, <1>19 DEF TreeFits, Fits

\* The descent goes on to the child.
LEMMA DescendFits ==
  ASSUME TreeInv, Descend
  PROVE  TreeFits'
<1>1. PICK sub, g, home, lo, hi : Fits(sub, g, home, lo, hi)
  BY DEF TreeInv, TreeFits
<1>2. PICK m, i, c : m = Midpoint(inserted) /\ i = inserted /\ c = ChildTowards(Midpoint(inserted))
  OBVIOUS
<1>3. /\ phase = "Descend" /\ ~Encloses(i, at) /\ c # Null /\ at' = c
      /\ UNCHANGED <<clauses, root, left, right, parent, balance, lower, upper, recorded, phase, inserted>>
  BY <1>2 DEF Descend, tree, pointers, halves
<1>4. at \in Nodes /\ at \in Int /\ HasLiterals(i) /\ FormulaOK
  BY <1>1, <1>2, <1>3 DEF Fits, CallOK, TreeShape, TreeInv, DataOK
<1>5. m \in Int /\ m # at
  BY <1>2, <1>3, <1>4, BoundsOfClause
<1>6. Nodes' = Nodes /\ Placed' = Placed /\ Grown' = Grown
  BY <1>3 DEF Nodes, Placed, Grown
<1>7. TreeShape(sub)' /\ TreeHeights(g)' /\ EntriesFit(sub, home, lo, hi)'
  BY <1>1, <1>3, <1>6 DEF Fits, TreeShape, TreeHeights, EntriesFit, BoundsFit
<1>8. Shape(Nodes, Less, left, right, parent, sub) /\ Nodes \subseteq Int
  BY <1>1 DEF Fits, TreeShape
<1>9. /\ LeadsTo(Nodes, Less, left, right, sub, at, m)
      /\ m \in Nodes => m \in sub[at]
      /\ \A j \in Nodes : at \in sub[j] /\ j # at => ~Encloses(i, j)
  BY <1>1, <1>2, <1>3 DEF Fits, CallOK
<1>10. /\ c \in Nodes /\ parent[c] = at
       /\ LeadsTo(Nodes, Less, left, right, sub, c, m)
       /\ m \in Nodes => m \in sub[c]
  <2>1. CASE m < at
    <3>1. c = left[at] /\ <<m, at>> \in Less
      BY <2>1, <1>2, <1>4, <1>5 DEF ChildTowards, Less
    <3> QED BY <3>1, <1>3, <1>4, <1>5, <1>8, <1>9, DescentKeepsLeadsTo, ParentsOfNodes
  <2>2. CASE ~(m < at)
    <3>1. c = right[at] /\ <<m, at>> \in Greater
      BY <2>2, <1>2, <1>4, <1>5 DEF ChildTowards, Greater
    <3>2. Inverses(Nodes \cup {m}, Less, Greater) /\ Inverses(Nodes, Less, Greater) /\ Inverses(Nodes \cup {m}, Greater, Less)
      BY <1>5, <1>8, LessGreater
    <3>3. Shape(Nodes, Greater, right, left, parent, sub)
      BY <3>2, <1>8, MirrorShape
    <3>4. LeadsTo(Nodes, Greater, right, left, sub, at, m)
      BY <3>2, <1>9, MirrorLeadsTo
    <3>5. LeadsTo(Nodes, Greater, right, left, sub, c, m) /\ c \in Nodes /\ (m \in Nodes => m \in sub[c])
      BY <3>1, <3>3, <3>4, <1>3, <1>4, <1>5, <1>9, DescentKeepsLeadsTo
    <3>6. LeadsTo(Nodes, Less, left, right, sub, c, m)
      BY <3>2, <3>5, MirrorLeadsTo
    <3> QED BY <3>1, <3>5, <3>6, <1>3, <1>4, <1>8, ParentsOfNodes
  <2> QED BY <2>1, <2>2
<1>11. ASSUME NEW j \in Nodes, c \in sub[j], j # c PROVE ~Encloses(i, j)
  <2>1. at \in sub[j]
    BY <1>8, <1>10, <1>11 DEF Shape, SubtreesOK
  <2> QED BY <2>1, <1>3, <1>9
<1>12. m = Midpoint(inserted)' /\ i = inserted'
  BY <1>2, <1>3 DEF Midpoint
<1>13. \A j \in Nodes : Encloses(i, j)' <=> Encloses(i, j)
  BY <1>3 DEF Encloses, Smallest, Largest
<1>14. CallOK(sub)'
  BY <1>3, <1>6, <1>10, <1>11, <1>12, <1>13 DEF CallOK, Encloses, Smallest, Largest
<1> QED BY <1>7, <1>14 DEF TreeFits, Fits

\* The loop back ends at the root.
LEMMA ReachRootFits ==
  ASSUME TreeInv, ReachRoot
  PROVE  TreeFits'
<1>1. PICK sub, g, home, lo, hi : Fits(sub, g, home, lo, hi)
  BY DEF TreeInv, TreeFits
<1>2. /\ phase = "Rebalance" /\ parent[at] = Null /\ phase' \in {"Idle", "Build"}
      /\ UNCHANGED <<clauses, root, left, right, parent, balance, lower, upper, recorded>>
  BY DEF ReachRoot, Finish, Caller, tree, pointers, halves
<1>3. Nodes' = Nodes /\ Placed' = Placed /\ Grown = at /\ Grown' = Null
  BY <1>2 DEF Nodes, Placed, Grown
<1>4. TreeShape(sub)' /\ EntriesFit(sub, home, lo, hi)'
  BY <1>1, <1>2, <1>3 DEF Fits, TreeShape, EntriesFit, BoundsFit
<1>5. CallOK(sub)'
  BY <1>2 DEF CallOK
<1>6. PICK g2 : g2 = [g EXCEPT ![at] = @ + 1]
  OBVIOUS
<1>7. HeightsFit(Nodes, left, right, balance, g2, Null)
  <2>1. at \in Nodes /\ Null \notin Nodes /\ LinksOK(Nodes, left, right, parent)
    BY <1>1, <1>2 DEF Fits, CallOK, TreeShape, Shape
  <2>2. HeightsFit(Nodes, left, right, balance, g, at)
    BY <1>1, <1>3 DEF Fits, TreeHeights
  <2> QED BY <2>1, <2>2, <1>2, <1>6, GrowingKeepsHeights
<1>8. TreeHeights(g2)'
  BY <1>2, <1>3, <1>7 DEF TreeHeights
<1> QED BY <1>4, <1>5, <1>8 DEF TreeFits, Fits

\* The loop back changes the balancing factor of a parent.
LEMMA LeanTowardsFits ==
  ASSUME TreeInv, LeanTowards
  PROVE  TreeFits'
<1>1. PICK sub, g, home, lo, hi : Fits(sub, g, home, lo, hi)
  BY DEF TreeInv, TreeFits
<1>2. PICK p, y, b : p = parent[at] /\ y = at /\ b = balance
  OBVIOUS
<1>3. /\ phase = "Rebalance" /\ p # Null /\ b[p] # Side
      /\ balance' = [b EXCEPT ![p] = @ + Side]
      /\ UNCHANGED <<clauses, root, left, right, parent, lower, upper, recorded>>
  BY <1>2 DEF LeanTowards, pointers, halves
<1>4. Nodes' = Nodes /\ Placed' = recorded /\ Placed = recorded /\ Grown = y
  <2>1. phase' # "Descend"
    BY <1>3 DEF LeanTowards, Finish, Caller
  <2> QED BY <2>1, <1>2, <1>3 DEF Nodes, Placed, Grown
<1>5. Shape(Nodes, Less, left, right, parent, sub) /\ Nodes \subseteq Int /\ y \in Nodes
      /\ HeightsFit(Nodes, left, right, b, g, y)
  BY <1>1, <1>2, <1>3, <1>4 DEF Fits, CallOK, TreeShape, TreeHeights
<1>6. p \in Nodes /\ (left[p] = y \/ right[p] = y) /\ y # Null
  BY <1>2, <1>3, <1>5 DEF Shape, LinksOK
<1>7. /\ Grown' = IF b[p] = 0 THEN p ELSE Null
      /\ phase' = "Rebalance" => at' = p
  BY <1>2, <1>3, <1>6 DEF LeanTowards, GoesOn, Grown, Finish, Caller
<1>8. TreeShape(sub)' /\ EntriesFit(sub, home, lo, hi)'
  BY <1>1, <1>3, <1>4 DEF Fits, TreeShape, EntriesFit, BoundsFit
<1>9. CallOK(sub)'
  <2>1. phase' # "Descend"
    BY <1>3 DEF LeanTowards, Finish, Caller
  <2> QED BY <2>1, <1>4, <1>6, <1>7 DEF CallOK
<1>10. PICK g2 : g2 = [g EXCEPT ![y] = @ + 1]
  OBVIOUS
<1>11. HeightsFit(Nodes, left, right, balance', g2, IF b[p] = 0 THEN p ELSE Null)
  <2>1. CASE right[p] = y /\ left[p] # y
    <3>1. Side = 1
      BY <2>1, <1>2 DEF Side
    <3> QED BY <3>1, <2>1, <1>3, <1>5, <1>6, <1>10, LeaningKeepsHeights
  <2>2. CASE left[p] = y
    <3>1. Side = -1
      BY <2>2, <1>2 DEF Side
    <3>2. /\ left \in [Nodes -> Nodes \cup {Null}] /\ right \in [Nodes -> Nodes \cup {Null}]
          /\ b \in [Nodes -> {-1, 0, 1}]
      BY <1>5 DEF Shape, LinksOK, HeightsFit
    <3>3. PICK nb : nb = Negated(Nodes, b)
      OBVIOUS
    <3>4. HeightsFit(Nodes, right, left, nb, g, y)
      BY <3>2, <3>3, <1>5, MirrorHeights
    <3>5. Shape(Nodes, Greater, right, left, parent, sub)
      BY <1>5, LessGreater, MirrorShape
    <3>6. nb[p] = - b[p] /\ nb \in [Nodes -> {-1, 0, 1}]
      BY <3>2, <3>3, <1>6 DEF Negated
    <3>7. b[p] \in {-1, 0, 1} /\ b[p] # -1
      BY <3>1, <3>2, <1>3, <1>6
    <3>8. nb[p] # 1 /\ (nb[p] = 0 <=> b[p] = 0)
      BY <3>6, <3>7
    <3>9. PICK nb2 : nb2 = [nb EXCEPT ![p] = @ + 1]
      OBVIOUS
    <3>10. HeightsFit(Nodes, right, left, nb2, g2, IF b[p] = 0 THEN p ELSE Null)
      BY <3>4, <3>5, <3>8, <3>9, <1>6, <1>10, <2>2, LeaningKeepsHeights
    <3>11. HeightsFit(Nodes, left, right, Negated(Nodes, nb2), g2, IF b[p] = 0 THEN p ELSE Null)
      BY <3>2, <3>10, MirrorHeights
    <3>12. Negated(Nodes, nb2) = balance'
      <4>1. ASSUME NEW n \in Nodes PROVE - nb2[n] = balance'[n]
        <5>1. b[n] \in Int /\ nb[n] = - b[n]
          BY <3>2, <3>3 DEF Negated
        <5>2. CASE n = p
          <6>1. nb2[n] = nb[n] + 1 /\ balance'[n] = b[n] + (-1)
            BY <5>2, <3>1, <3>2, <3>6, <3>9, <1>3
          <6> QED BY <6>1, <5>1
        <5>3. CASE n # p
          <6>1. nb2[n] = nb[n] /\ balance'[n] = b[n]
            BY <5>3, <3>1, <3>2, <3>6, <3>9, <1>3
          <6> QED BY <6>1, <5>1
        <5> QED BY <5>2, <5>3
      <4>2. DOMAIN balance' = Nodes /\ balance' = [n \in Nodes |-> balance'[n]]
        BY <3>2, <1>3
      <4> QED BY <4>1, <4>2 DEF Negated
    <3> QED BY <3>11, <3>12
  <2> QED BY <2>1, <2>2, <1>6
<1>12. TreeHeights(g2)'
  BY <1>3, <1>4, <1>7, <1>11 DEF TreeHeights
<1> QED BY <1>8, <1>9, <1>12 DEF TreeFits, Fits

\* A new right leaf has grown from nothing.
LEMMA AttachHeightsRight ==
  ASSUME NEW N, NEW l, NEW r, NEW up, NEW b, NEW g, NEW a \in N, NEW m, m \notin N, m # Null, Null \notin N,
         LinksOK(N, l, r, up), HeightsFit(N, l, r, b, g, Null), r[a] = Null
  PROVE  HeightsFit(N \cup {m}, With(l, m, Null), With(With(r, a, m), m, Null), With(b, m, 0), With(g, m, 0), m)
<1>1. /\ l \in [N -> N \cup {Null}] /\ r \in [N -> N \cup {Null}] /\ b \in [N -> {-1, 0, 1}]
  BY DEF LinksOK, HeightsFit
<1>2. LinksOK(N, r, l, up)
  BY DEF LinksOK
<1>3. PICK nb : nb = Negated(N, b)
  OBVIOUS
<1>4. HeightsFit(N, r, l, nb, g, Null)
  BY <1>1, <1>3, MirrorHeights
<1>5. PICK M, l2, r2, nb2, g2 :
        /\ M = N \cup {m} /\ l2 = With(l, m, Null) /\ r2 = With(With(r, a, m), m, Null)
        /\ nb2 = With(nb, m, 0) /\ g2 = With(g, m, 0)
  OBVIOUS
<1>6. HeightsFit(M, r2, l2, nb2, g2, m)
  BY <1>2, <1>4, <1>5, AttachKeepsHeights
<1>7. l2 \in [M -> M \cup {Null}] /\ r2 \in [M -> M \cup {Null}]
  BY <1>1, <1>5 DEF With
<1>8. HeightsFit(M, l2, r2, Negated(M, nb2), g2, m)
  BY <1>6, <1>7, MirrorHeights
<1>9. Negated(M, nb2) = With(b, m, 0)
  <2>1. \A n \in N : b[n] \in {-1, 0, 1} /\ nb[n] = - b[n]
    BY <1>1, <1>3 DEF Negated
  <2>2. \A n \in N : - (- b[n]) = b[n]
    BY <2>1
  <2>3. \A n \in M : nb2[n] = IF n = m THEN 0 ELSE nb[n]
    BY <1>3, <1>5 DEF With, Negated
  <2>4. \A n \in M : - nb2[n] = IF n = m THEN 0 ELSE b[n]
    <3> SUFFICES ASSUME NEW n \in M PROVE - nb2[n] = IF n = m THEN 0 ELSE b[n]
      OBVIOUS
    <3>1. CASE n = m
      BY <3>1, <2>3
    <3>2. CASE n # m
      BY <3>2, <2>1, <2>2, <2>3, <1>5
    <3> QED BY <3>1, <3>2
  <2>5. DOMAIN b = N
    BY <1>1
  <2> QED BY <2>4, <2>5, <1>5 DEF Negated, With
<1> QED BY <1>5, <1>8, <1>9

\* The place where a clause goes that is not kept on its way down.
LEMMA NewNodeIsNew ==
  ASSUME NEW N, N \subseteq Int, NEW l, NEW r, NEW up, NEW sub, Shape(N, Less, l, r, up, sub),
         NEW a \in N, NEW m \in Int, m # a, m \in N => m \in sub[a],
         (IF m < a THEN l[a] ELSE r[a]) = Null
  PROVE  m \notin N
<1> SUFFICES ASSUME m \in N PROVE FALSE
  OBVIOUS
<1>1. m \in Below(sub, l[a]) \/ m \in Below(sub, r[a])
  BY DEF Shape, SubtreesOK
<1>2. CASE m < a
  <2>1. <<a, m>> \in Less
    BY <1>1, <1>2 DEF Below, Shape, SearchOK
  <2> QED BY <2>1, <1>2 DEF Less
<1>3. CASE ~(m < a)
  <2>1. <<m, a>> \in Less
    BY <1>1, <1>3 DEF Below, Shape, SearchOK
  <2> QED BY <2>1, <1>3 DEF Less
<1> QED BY <1>2, <1>3

\* The descent ends with a new leaf.
LEMMA AttachFits ==
  ASSUME TreeInv, Attach
  PROVE  TreeFits'
<1>1. PICK sub, g, home, lo, hi : Fits(sub, g, home, lo, hi)
  BY DEF TreeInv, TreeFits
<1>2. PICK N, D, a, m, i, s, t :
        /\ N = Nodes /\ D = Placed /\ a = at /\ m = Midpoint(inserted) /\ i = inserted
        /\ s = Smallest(inserted) /\ t = Largest(inserted)
  OBVIOUS
<1>3. /\ phase = "Descend" /\ ~Encloses(i, a) /\ (IF m < a THEN left[a] ELSE right[a]) = Null
      /\ left' = With(IF m < a THEN With(left, a, m) ELSE left, m, Null)
      /\ right' = With(IF m < a THEN right ELSE With(right, a, m), m, Null)
      /\ parent' = With(parent, m, a)
      /\ balance' = With(balance, m, 0)
      /\ lower' = With(lower, m, {<<i, s>>})
      /\ upper' = With(upper, m, {<<i, t>>})
      /\ phase' = "Rebalance" /\ at' = m
      /\ UNCHANGED <<clauses, root, recorded, inserted>>
  BY <1>2 DEF Attach, ChildTowards, NewNode
<1>4. HasLiterals(i) /\ FormulaOK /\ i \in recorded
  BY <1>2, <1>3 DEF TreeInv, DataOK
<1>5. /\ m \in Int /\ s \in Int /\ t \in Int /\ s <= m /\ m <= t /\ Encloses(i, m)
  BY <1>2, <1>4, BoundsOfClause DEF Encloses
<1>6. /\ a \in N /\ LeadsTo(N, Less, left, right, sub, a, m)
      /\ m \in N => m \in sub[a]
      /\ \A j \in N : a \in sub[j] /\ j # a => ~Encloses(i, j)
  BY <1>1, <1>2, <1>3 DEF Fits, CallOK
<1>7. /\ N \subseteq Int /\ Shape(N, Less, left, right, parent, sub) /\ IsFiniteSet(N)
      /\ Rooted(N, parent, root, sub) /\ Null \notin N
      /\ LinksOK(N, left, right, parent) /\ sub \in [N -> SUBSET N]
  BY <1>1, <1>2 DEF Fits, TreeShape, Shape, SubtreesOK
<1>8. m # a /\ m # Null
  BY <1>3, <1>5, TreeAssumption
<1>9. m \notin N
  BY <1>3, <1>5, <1>6, <1>7, <1>8, NewNodeIsNew
<1>10. PICK M : M = N \cup {m}
  OBVIOUS
<1>11. Nodes' = M /\ D = recorded \ {i} /\ Placed' = D \cup {i} /\ i \notin D /\ Grown' = m /\ Grown = Null
  <2>1. DOMAIN left = N
    BY <1>2 DEF Nodes
  <2>2. Nodes' = M
    BY <2>1, <1>3, <1>6, <1>10 DEF Nodes, With
  <2> QED BY <2>2, <1>2, <1>3, <1>4 DEF Placed, Grown
<1>12. PICK sub2 : sub2 = SubWith(N, sub, a, m)
  OBVIOUS
<1>13. M \subseteq Int /\ IsFiniteSet(M) /\ Inverses(M, Less, Greater) /\ Inverses(M, Greater, Less)
       /\ StrictOrderOn(M, Less) /\ StrictOrderOn(M, Greater)
  BY <1>5, <1>7, <1>10, LessGreater, FS_AddElement
<1>14. Shape(M, Less, left', right', parent', sub2)
  <2>1. CASE m < a
    <3>1. <<m, a>> \in Less /\ left[a] = Null
      BY <2>1, <1>3, <1>5, <1>6, <1>7 DEF Less
    <3>2. left' = With(With(left, a, m), m, Null) /\ right' = With(right, m, Null) /\ parent' = With(parent, m, a)
      BY <2>1, <1>3
    <3>3. Shape(N \cup {m}, Less, With(With(left, a, m), m, Null), With(right, m, Null), With(parent, m, a), SubWith(N, sub, a, m))
      BY <3>1, <1>6, <1>7, <1>8, <1>9, <1>10, <1>13, AttachKeepsShape
    <3> QED BY <3>2, <3>3, <1>10, <1>12
  <2>2. CASE ~(m < a)
    <3>1. <<m, a>> \in Greater /\ right[a] = Null
      BY <2>2, <1>3, <1>5, <1>6, <1>7, <1>8 DEF Greater
    <3>2. right' = With(With(right, a, m), m, Null) /\ left' = With(left, m, Null)
      BY <2>2, <1>3
    <3>3. Inverses(N, Less, Greater)
      BY <1>7, LessGreater
    <3>4. Shape(N, Greater, right, left, parent, sub)
      BY <3>3, <1>7, MirrorShape
    <3>5. LeadsTo(N, Greater, right, left, sub, a, m)
      BY <1>6, <1>10, <1>13, MirrorLeadsTo
    <3>6. Shape(M, Greater, right', left', parent', sub2)
      BY <3>1, <3>2, <3>4, <3>5, <1>3, <1>6, <1>8, <1>9, <1>10, <1>12, <1>13, AttachKeepsShape
    <3> QED BY <3>6, <1>13, MirrorShape
  <2> QED BY <2>1, <2>2
<1>15. TreeShape(sub2)'
  <2>1. root \in N /\ parent[root] = Null /\ sub[root] = N
    BY <1>6, <1>7 DEF Rooted
  <2>2. DOMAIN parent = N
    BY <1>7 DEF LinksOK
  <2>3. Rooted(M, parent', root, sub2)
    BY <2>1, <2>2, <1>3, <1>6, <1>7, <1>9, <1>10, <1>12 DEF Rooted, With, SubWith
  <2> QED BY <2>3, <1>3, <1>11, <1>13, <1>14 DEF TreeShape
<1>16. PICK g2 : g2 = With(g, m, 0)
  OBVIOUS
<1>17. TreeHeights(g2)'
  <2>1. HeightsFit(N, left, right, balance, g, Null)
    BY <1>1, <1>2, <1>11 DEF Fits, TreeHeights
  <2>2. HeightsFit(M, left', right', balance', g2, m)
    <3>1. CASE m < a
      <4>1. left[a] = Null /\ left' = With(With(left, a, m), m, Null) /\ right' = With(right, m, Null) /\ balance' = With(balance, m, 0)
        BY <3>1, <1>3
      <4> QED BY <4>1, <2>1, <1>6, <1>7, <1>8, <1>9, <1>10, <1>16, AttachKeepsHeights
    <3>2. CASE ~(m < a)
      <4>1. right[a] = Null /\ right' = With(With(right, a, m), m, Null) /\ left' = With(left, m, Null) /\ balance' = With(balance, m, 0)
        BY <3>2, <1>3
      <4> QED BY <4>1, <2>1, <1>6, <1>7, <1>8, <1>9, <1>10, <1>16, AttachHeightsRight
    <3> QED BY <3>1, <3>2
  <2> QED BY <2>2, <1>11 DEF TreeHeights
<1>18. CallOK(sub2)'
  BY <1>3, <1>10, <1>11 DEF CallOK
<1>19. PICK home2, lo2, hi2 : home2 = With(home, i, m) /\ lo2 = With(lo, i, s) /\ hi2 = With(hi, i, t)
  OBVIOUS
<1>20. Housed(N, D, home, lo, hi) /\ home \in [D -> N] /\ DOMAIN lo = D /\ DOMAIN hi = D /\ DOMAIN home = D
  BY <1>1, <1>2 DEF Fits, EntriesFit, Housed
<1>21. /\ Housed(M, D \cup {i}, home2, lo2, hi2)
       /\ Spans(D \cup {i}, lo2, hi2) = With(Spans(D, lo, hi), i, s .. t)
  BY <1>20, <1>5, <1>10, <1>11, <1>19, HousedWithOneMore
<1>22. lower' = Half(M, D \cup {i}, home2, lo2) /\ upper' = Half(M, D \cup {i}, home2, hi2)
  <2>1. lower = Half(N, D, home, lo) /\ upper = Half(N, D, home, hi)
    BY <1>1, <1>2 DEF Fits, EntriesFit
  <2>2. Half(M, D \cup {i}, home2, lo2) = With(Half(N, D, home, lo), m, {<<i, s>>})
    BY <1>9, <1>10, <1>11, <1>19, <1>20, HalfWithNewNode
  <2>3. Half(M, D \cup {i}, home2, hi2) = With(Half(N, D, home, hi), m, {<<i, t>>})
    BY <1>9, <1>10, <1>11, <1>19, <1>20, HalfWithNewNode
  <2> QED BY <2>1, <2>2, <2>3, <1>3
<1>23. BoundsFit(D \cup {i}, lo2, hi2)'
  <2>1. BoundsFit(D, lo, hi)
    BY <1>1, <1>2 DEF Fits, EntriesFit
  <2>2. BoundsFit(D \cup {i}, lo2, hi2)
    BY <2>1, <1>2, <1>4, <1>11, <1>19, <1>20, BoundsFitOneMore
  <2> QED BY <2>2, <1>3 DEF BoundsFit
<1>24. ASSUME 0 \notin M
       PROVE  Highest(M, sub2, D \cup {i}, home2, Spans(D \cup {i}, lo2, hi2))
  <2>1. Highest(N, sub, D, home, Spans(D, lo, hi))
    BY <1>1, <1>2, <1>10, <1>24 DEF Fits, EntriesFit
  <2>2. Highest(M, sub2, D, home, Spans(D, lo, hi))
    BY <2>1, <1>6, <1>7, <1>9, <1>10, <1>12, AttachKeepsHighest
  <2>3. DOMAIN Spans(D, lo, hi) = D
    BY DEF Spans
  <2>4. m \in s .. t
    BY <1>5
  <2>5. \A j \in M : m \in sub2[j] /\ j # m => j \notin s .. t
    <3> SUFFICES ASSUME NEW j \in M, m \in sub2[j], j # m PROVE j \notin s .. t
      OBVIOUS
    <3>1. j \in N /\ a \in sub[j]
      BY <1>7, <1>9, <1>10, <1>12 DEF SubWith
    <3>2. ~Encloses(i, j)
      BY <3>1, <1>3, <1>6
    <3> QED BY <3>2, <1>2 DEF Encloses
  <2>6. Highest(M, sub2, D \cup {i}, home2, With(Spans(D, lo, hi), i, s .. t))
    BY <2>2, <2>3, <2>4, <2>5, <1>10, <1>11, <1>19, <1>20, HomeFound
  <2> QED BY <2>6, <1>21
<1>25. EntriesFit(sub2, home2, lo2, hi2)'
  BY <1>11, <1>21, <1>22, <1>23, <1>24 DEF EntriesFit
<1> QED BY <1>15, <1>17, <1>18, <1>25 DEF TreeFits, Fits
-----------------------------------------------------------------------------
(* The loop back to the root: rotations.                                   *)

\* Spans hold with two keys all keys between them.
LEMMA SpansAreConvex ==
  ASSUME NEW N, N \subseteq Int, NEW D, NEW lo, NEW hi, lo \in [D -> Int], hi \in [D -> Int]
  PROVE  Convex(N, Less, D, Spans(D, lo, hi)) /\ Convex(N, Greater, D, Spans(D, lo, hi))
<1> SUFFICES ASSUME NEW i \in D, NEW a \in N, NEW b \in N, NEW c \in N,
                    a \in Spans(D, lo, hi)[i], c \in Spans(D, lo, hi)[i],
                    (<<a, b>> \in Less /\ <<b, c>> \in Less) \/ (<<a, b>> \in Greater /\ <<b, c>> \in Greater)
             PROVE  b \in Spans(D, lo, hi)[i]
  BY DEF Convex
<1>1. lo[i] \in Int /\ hi[i] \in Int /\ a \in Int /\ b \in Int /\ c \in Int
  OBVIOUS
<1>2. Spans(D, lo, hi)[i] = lo[i] .. hi[i]
  BY DEF Spans
<1>3. (a < b /\ b < c) \/ (a > b /\ b > c)
  BY DEF Less, Greater
<1> QED BY <1>1, <1>2, <1>3

\* Four moves one after the other keep both halves in step.
LEMMA FourMoves ==
  ASSUME NEW N, N \subseteq Int, NEW D, NEW lo, NEW hi, NEW home, Housed(N, D, home, lo, hi),
         NEW h, HalvesAre(h, N, D, home, lo, hi),
         NEW p \in N, NEW x \in N, NEW z \in N, NEW a \in N \cup {Null}, NEW c \in N \cup {Null},
         x # z, p # z, a # p, c # p,
         NEW home1, home1 = MovedHomes(D, home, lo, hi, x, z),
         NEW home2, home2 = MovedHomes(D, home1, lo, hi, a, p),
         NEW home3, home3 = MovedHomes(D, home2, lo, hi, p, z),
         NEW home4, home4 = MovedHomes(D, home3, lo, hi, c, p)
  PROVE  /\ Housed(N, D, home4, lo, hi)
         /\ HalvesAre(Move(Move(Move(Move(h, x, z), a, p), p, z), c, p), N, D, home4, lo, hi)
<1>1. PICK h1 : h1 = Move(h, x, z)
  OBVIOUS
<1>2. Housed(N, D, home1, lo, hi) /\ HalvesAre(h1, N, D, home1, lo, hi)
  BY <1>1, MoveHalves
<1>3. PICK h2 : h2 = Move(h1, a, p)
  OBVIOUS
<1>4. Housed(N, D, home2, lo, hi) /\ HalvesAre(h2, N, D, home2, lo, hi)
  BY <1>2, <1>3, MoveHalves
<1>5. PICK h3 : h3 = Move(h2, p, z)
  OBVIOUS
<1>6. Housed(N, D, home3, lo, hi) /\ HalvesAre(h3, N, D, home3, lo, hi)
  BY <1>4, <1>5, MoveHalves
<1>7. Housed(N, D, home4, lo, hi) /\ HalvesAre(Move(h3, c, p), N, D, home4, lo, hi)
  BY <1>6, MoveHalves
<1> QED BY <1>1, <1>3, <1>5, <1>7

\* What a rotation starts from, and what is left to show of it.
LEMMA RotationStarts ==
  ASSUME TreeInv, NEW side \in {-1, 1}, NEW bs, TooHeavy(side, bs), NEW p, NEW y, p = parent[at], y = at
  PROVE  /\ \E sub, g, home, lo, hi :
              /\ TreeShape(sub) /\ HeightsFit(Nodes, left, right, balance, g, y)
              /\ EntriesFit(sub, home, lo, hi)
         /\ p \in Nodes /\ y \in Nodes /\ p # Null /\ y # Null
         /\ (IF side = 1 THEN right[p] ELSE left[p]) = y
         /\ balance[p] = side /\ balance[y] \in bs
         /\ Placed = recorded /\ recorded' = recorded /\ clauses' = clauses
         /\ phase' \in {"Idle", "Build"}
<1>1. PICK sub, g, home, lo, hi : Fits(sub, g, home, lo, hi)
  BY DEF TreeInv, TreeFits
<1>2. /\ phase = "Rebalance" /\ p # Null /\ Side = side /\ balance[p] = side /\ balance[y] \in bs
      /\ phase' \in {"Idle", "Build"} /\ recorded' = recorded /\ clauses' = clauses
  BY DEF TooHeavy, Finish, Caller
<1>3. y \in Nodes /\ Grown = y /\ Placed = recorded
  BY <1>1, <1>2 DEF Fits, CallOK, Grown, Placed
<1>4. Shape(Nodes, Less, left, right, parent, sub)
  BY <1>1 DEF Fits, TreeShape
<1>5. p \in Nodes /\ (left[p] = y \/ right[p] = y) /\ y # Null
  BY <1>2, <1>3, <1>4 DEF Shape, LinksOK
<1>6. (IF side = 1 THEN right[p] ELSE left[p]) = y
  BY <1>2, <1>5 DEF Side
<1>7. TreeShape(sub) /\ HeightsFit(Nodes, left, right, balance, g, y) /\ EntriesFit(sub, home, lo, hi)
  BY <1>1, <1>3 DEF Fits, TreeHeights
<1> QED BY <1>2, <1>3, <1>5, <1>6, <1>7

\* What has to hold where a rotation ends.
LEMMA RotationEnds ==
  ASSUME NEW sub, NEW g, NEW home, NEW lo, NEW hi, NEW N, NEW D, N = Nodes, D = recorded,
         N \subseteq Int, IsFiniteSet(N),
         Placed = recorded, recorded' = recorded, clauses' = clauses, phase' \in {"Idle", "Build"},
         BoundsFit(D, lo, hi),
         Shape(N, Less, left', right', parent', sub), Rooted(N, parent', root', sub),
         HeightsFit(N, left', right', balance', g, Null),
         Housed(N, D, home, lo, hi),
         lower' = Half(N, D, home, lo), upper' = Half(N, D, home, hi),
         0 \notin N => Highest(N, sub, D, home, Spans(D, lo, hi))
  PROVE  TreeFits'
<1>1. Nodes' = N
  BY DEF Shape, LinksOK, Nodes
<1>2. Placed' = D /\ Grown' = Null
  BY DEF Placed, Grown
<1>3. TreeShape(sub)' /\ TreeHeights(g)'
  BY <1>1, <1>2 DEF TreeShape, TreeHeights
<1>4. CallOK(sub)'
  BY DEF CallOK
<1>5. BoundsFit(D, lo, hi)'
  BY DEF BoundsFit
<1>6. EntriesFit(sub, home, lo, hi)'
  BY <1>1, <1>2, <1>5 DEF EntriesFit
<1> QED BY <1>3, <1>4, <1>6 DEF TreeFits, Fits

\* rotateLeft keeps the invariant of the tree.
LEMMA RotateLeftFits ==
  ASSUME TreeInv, TooHeavy(1, {0, 1}), RotateLeft(parent[at], at)
  PROVE  TreeFits'
<1>1. PICK N, D, p, y : N = Nodes /\ D = recorded /\ p = parent[at] /\ y = at
  OBVIOUS
<1>2. PICK sub, g, home, lo, hi :
        /\ TreeShape(sub) /\ HeightsFit(N, left, right, balance, g, y)
        /\ EntriesFit(sub, home, lo, hi)
  BY <1>1, RotationStarts
<1>3. /\ p \in N /\ y \in N /\ p # Null /\ y # Null /\ right[p] = y
      /\ balance[p] = 1 /\ balance[y] \in {0, 1}
      /\ Placed = recorded /\ recorded' = recorded /\ clauses' = clauses /\ phase' \in {"Idle", "Build"}
  BY <1>1, RotationStarts
<1>4. /\ N \subseteq Int /\ IsFiniteSet(N) /\ Shape(N, Less, left, right, parent, sub) /\ Rooted(N, parent, root, sub)
  BY <1>1, <1>2 DEF TreeShape
<1>5. RotateLeft(p, y)
  BY <1>1
<1>6. /\ left' = LeftOf(N, left, p, y) /\ right' = RightOf(N, left, right, p, y)
      /\ parent' = UpOf(N, left, parent, p, y) /\ root' = RootOf(parent, root, p, y)
  BY <1>1, <1>3, <1>4, <1>5, RotateLeftLinks
<1>7. PICK sub2 : sub2 = SubOf(N, left, sub, p, y)
  OBVIOUS
<1>8. Shape(N, Less, left', right', parent', sub2) /\ Rooted(N, parent', root', sub2)
  BY <1>3, <1>4, <1>6, <1>7, RotationKeepsShape, RotationKeepsRoot
<1>9. PICK g2 : g2 = [g EXCEPT ![p] = g[p] - 1, ![y] = g[p]]
  OBVIOUS
<1>10. HeightsFit(N, left', right', balance', g2, Null)
  <2>1. balance' = [balance EXCEPT ![p] = 0, ![y] = 0]
    BY <1>5 DEF RotateLeft
  <2> QED BY <2>1, <1>2, <1>3, <1>4, <1>6, <1>9, RotationKeepsHeights
<1>11. PICK home2 : home2 = MovedHomes(D, home, lo, hi, p, y)
  OBVIOUS
<1>12. p # y
  BY <1>3, <1>4, ParentsOfNodes
<1>13. Housed(N, D, home2, lo, hi) /\ lower' = Half(N, D, home2, lo) /\ upper' = Half(N, D, home2, hi)
  <2>1. Housed(N, D, home, lo, hi) /\ HalvesAre(BothHalves, N, D, home, lo, hi)
    BY <1>1, <1>2, <1>3 DEF EntriesFit, HalvesAre, BothHalves
  <2>2. HalvesBecome(Move(BothHalves, p, y))
    BY <1>5 DEF RotateLeft
  <2>3. Housed(N, D, home2, lo, hi) /\ HalvesAre(Move(BothHalves, p, y), N, D, home2, lo, hi)
    BY <2>1, <1>3, <1>4, <1>11, <1>12, MoveHalves
  <2> QED BY <2>2, <2>3 DEF HalvesBecome, HalvesAre
<1>14. BoundsFit(D, lo, hi) /\ lo \in [D -> Int] /\ hi \in [D -> Int]
  BY <1>1, <1>2, <1>3 DEF EntriesFit, Housed
<1>15. 0 \notin N => Highest(N, sub2, D, home2, Spans(D, lo, hi))
  <2> SUFFICES ASSUME 0 \notin N PROVE Highest(N, sub2, D, home2, Spans(D, lo, hi))
    OBVIOUS
  <2>1. Highest(N, sub, D, home, Spans(D, lo, hi))
    BY <1>1, <1>2, <1>3 DEF EntriesFit
  <2>2. Convex(N, Less, D, Spans(D, lo, hi))
    BY <1>4, <1>14, SpansAreConvex
  <2>3. home2 = Rehomed(D, home, Spans(D, lo, hi), p, y)
    BY <1>3, <1>11 DEF MovedHomes
  <2> QED BY <2>1, <2>2, <2>3, <1>3, <1>4, <1>7, RotationKeepsHighest
<1> QED BY <1>1, <1>3, <1>4, <1>8, <1>10, <1>13, <1>14, <1>15, RotationEnds

\* The negation of an integer is a difference.
LEMMA MinusIsDifference == \A n \in Int : -n = 0 - n
OBVIOUS

\* The balancing factors rotateRight writes are right for the heights.
LEMMA RotateRightHeights ==
  ASSUME NEW N, NEW R, NEW l, NEW r, NEW up, NEW sub, NEW b, NEW g, NEW p \in N, NEW y,
         Shape(N, R, l, r, up, sub), y = r[p], y # Null, HeightsFit(N, r, l, b, g, y),
         b[p] = -1, b[y] \in {-1, 0}
  PROVE  HeightsFit(N, RightOf(N, l, r, p, y), LeftOf(N, l, p, y), [b EXCEPT ![p] = 0, ![y] = 0],
                    [g EXCEPT ![p] = g[p] - 1, ![y] = g[p]], Null)
<1>1. l \in [N -> N \cup {Null}] /\ r \in [N -> N \cup {Null}] /\ y \in N /\ b \in [N -> {-1, 0, 1}]
  BY DEF Shape, LinksOK, HeightsFit
<1>0. PICK nb : nb = Negated(N, b)
  OBVIOUS
<1>2. PICK l2, r2, g2 : /\ l2 = LeftOf(N, l, p, y) /\ r2 = RightOf(N, l, r, p, y)
                        /\ g2 = [g EXCEPT ![p] = g[p] - 1, ![y] = g[p]]
  OBVIOUS
<1>3. HeightsFit(N, l, r, nb, g, y)
  BY <1>0, <1>1, MirrorHeights
<1>4. nb[p] = 1 /\ nb[y] \in {0, 1} /\ nb \in [N -> {-1, 0, 1}]
  <2>1. nb[p] = - b[p] /\ nb[y] = - b[y]
    BY <1>0, <1>1 DEF Negated
  <2>2. nb[p] = 1 /\ nb[y] \in {0, 1}
    <3>1. b[p] \in Int /\ b[y] \in Int
      BY <1>1
    <3>2. nb[p] = 0 - b[p] /\ nb[y] = 0 - b[y]
      BY <2>1, <3>1, MinusIsDifference
    <3> QED BY <3>1, <3>2
  <2>3. \A n \in N : - b[n] \in {-1, 0, 1}
    BY <1>1
  <2> QED BY <2>2, <2>3, <1>0 DEF Negated
<1>5. PICK nb2 : nb2 = [nb EXCEPT ![p] = 0, ![y] = 0]
  OBVIOUS
<1>6. HeightsFit(N, l2, r2, nb2, g2, Null)
  BY <1>2, <1>3, <1>4, <1>5, RotationKeepsHeights
<1>7. l2 \in [N -> N \cup {Null}] /\ r2 \in [N -> N \cup {Null}]
  BY <1>1, <1>2 DEF LeftOf, RightOf
<1>8. HeightsFit(N, r2, l2, Negated(N, nb2), g2, Null)
  BY <1>6, <1>7, MirrorHeights
<1>9. Negated(N, nb2) = [b EXCEPT ![p] = 0, ![y] = 0]
  <2>1. ASSUME NEW n \in N PROVE - nb2[n] = IF n = p \/ n = y THEN 0 ELSE b[n]
    <3>1. b[n] \in {-1, 0, 1} /\ nb[n] = - b[n]
      BY <1>0, <1>1 DEF Negated
    <3>2. CASE n = p \/ n = y
      <4>1. nb2[n] = 0
        <5>1. DOMAIN nb = N
          BY <1>4
        <5> QED BY <3>2, <5>1, <1>5
      <4>2. nb2[n] \in Int
        BY <4>1
      <4>3. - nb2[n] = 0 - nb2[n]
        BY <4>2, MinusIsDifference
      <4>4. 0 - nb2[n] = 0
        BY <4>1
      <4> QED BY <3>2, <4>3, <4>4
    <3>3. CASE ~(n = p \/ n = y)
      <4>1. nb2[n] = nb[n]
        BY <3>3, <1>1, <1>4, <1>5
      <4> QED BY <3>1, <3>3, <4>1
    <3> QED BY <3>2, <3>3
  <2>2. [b EXCEPT ![p] = 0, ![y] = 0] = [n \in N |-> IF n = p \/ n = y THEN 0 ELSE b[n]]
    BY <1>1
  <2> QED BY <2>1, <2>2 DEF Negated
<1> QED BY <1>2, <1>8, <1>9

\* rotateRight keeps the invariant of the tree.
LEMMA RotateRightFits ==
  ASSUME TreeInv, TooHeavy(-1, {-1, 0}), RotateRight(parent[at], at)
  PROVE  TreeFits'
<1>1. PICK N, D, p, x : N = Nodes /\ D = recorded /\ p = parent[at] /\ x = at
  OBVIOUS
<1>2. PICK sub, g, home, lo, hi :
        /\ TreeShape(sub) /\ HeightsFit(N, left, right, balance, g, x)
        /\ EntriesFit(sub, home, lo, hi)
  BY <1>1, RotationStarts
<1>3. /\ p \in N /\ x \in N /\ p # Null /\ x # Null /\ left[p] = x
      /\ balance[p] = -1 /\ balance[x] \in {-1, 0}
      /\ Placed = recorded /\ recorded' = recorded /\ clauses' = clauses /\ phase' \in {"Idle", "Build"}
  BY <1>1, RotationStarts
<1>4. /\ N \subseteq Int /\ IsFiniteSet(N) /\ Shape(N, Less, left, right, parent, sub) /\ Rooted(N, parent, root, sub)
  BY <1>1, <1>2 DEF TreeShape
<1>5. RotateRight(p, x)
  BY <1>1
<1>6. Inverses(N, Less, Greater) /\ Inverses(N, Greater, Less)
  BY <1>4, LessGreater
<1>7. Shape(N, Greater, right, left, parent, sub)
  BY <1>4, <1>6, MirrorShape
<1>8. /\ right' = LeftOf(N, right, p, x) /\ left' = RightOf(N, right, left, p, x)
      /\ parent' = UpOf(N, right, parent, p, x) /\ root' = RootOf(parent, root, p, x)
  BY <1>1, <1>3, <1>4, <1>5, RotateRightLinks
<1>9. PICK sub2 : sub2 = SubOf(N, right, sub, p, x)
  OBVIOUS
<1>10. Shape(N, Greater, right', left', parent', sub2) /\ Rooted(N, parent', root', sub2)
  BY <1>3, <1>4, <1>7, <1>8, <1>9, RotationKeepsShape, RotationKeepsRoot
<1>11. Shape(N, Less, left', right', parent', sub2)
  BY <1>6, <1>10, MirrorShape
<1>12. PICK g2 : g2 = [g EXCEPT ![p] = g[p] - 1, ![x] = g[p]]
  OBVIOUS
<1>13. HeightsFit(N, left', right', balance', g2, Null)
  <2>1. balance' = [balance EXCEPT ![p] = 0, ![x] = 0]
    BY <1>5 DEF RotateRight
  <2> QED BY <2>1, <1>2, <1>3, <1>7, <1>8, <1>12, RotateRightHeights
<1>14. PICK home2 : home2 = MovedHomes(D, home, lo, hi, p, x)
  OBVIOUS
<1>15. p # x
  BY <1>3, <1>4, ParentsOfNodes
<1>16. Housed(N, D, home2, lo, hi) /\ lower' = Half(N, D, home2, lo) /\ upper' = Half(N, D, home2, hi)
  <2>1. Housed(N, D, home, lo, hi) /\ HalvesAre(BothHalves, N, D, home, lo, hi)
    BY <1>1, <1>2, <1>3 DEF EntriesFit, HalvesAre, BothHalves
  <2>2. HalvesBecome(Move(BothHalves, p, x))
    BY <1>5 DEF RotateRight
  <2>3. Housed(N, D, home2, lo, hi) /\ HalvesAre(Move(BothHalves, p, x), N, D, home2, lo, hi)
    BY <2>1, <1>3, <1>4, <1>14, <1>15, MoveHalves
  <2> QED BY <2>2, <2>3 DEF HalvesBecome, HalvesAre
<1>17. BoundsFit(D, lo, hi) /\ lo \in [D -> Int] /\ hi \in [D -> Int]
  BY <1>1, <1>2, <1>3 DEF EntriesFit, Housed
<1>18. 0 \notin N => Highest(N, sub2, D, home2, Spans(D, lo, hi))
  <2> SUFFICES ASSUME 0 \notin N PROVE Highest(N, sub2, D, home2, Spans(D, lo, hi))
    OBVIOUS
  <2>1. Highest(N, sub, D, home, Spans(D, lo, hi))
    BY <1>1, <1>2, <1>3 DEF EntriesFit
  <2>2. Convex(N, Greater, D, Spans(D, lo, hi))
    BY <1>4, <1>17, SpansAreConvex
  <2>3. home2 = Rehomed(D, home, Spans(D, lo, hi), p, x)
    BY <1>3, <1>14 DEF MovedHomes
  <2> QED BY <2>1, <2>2, <2>3, <1>3, <1>7, <1>9, RotationKeepsHighest
<1> QED BY <1>1, <1>3, <1>4, <1>10, <1>11, <1>13, <1>16, <1>17, <1>18, RotationEnds

\* The four moves of a double rotation keep each clause at the highest node it spans,
\* unless a node has the key 0.
LEMMA DoubleRotationEntries ==
  ASSUME NEW N, N \subseteq Int, Null \notin N, NEW R, NEW Q, Inverses(N, R, Q), Inverses(N, Q, R),
         NEW l, NEW r, NEW up, NEW sub, NEW p \in N, NEW x, NEW z,
         Shape(N, R, l, r, up, sub), x = l[p], x # Null, z = r[x], z # Null,
         NEW D, NEW home, NEW lo, NEW hi, Housed(N, D, home, lo, hi),
         Convex(N, R, D, Spans(D, lo, hi)),
         0 \notin N => Highest(N, sub, D, home, Spans(D, lo, hi)),
         NEW h, HalvesAre(h, N, D, home, lo, hi)
  PROVE  \E home2 : /\ Housed(N, D, home2, lo, hi)
                    /\ HalvesAre(Move(Move(Move(Move(h, x, z), l[z], p), p, z), r[z], p), N, D, home2, lo, hi)
                    /\ 0 \notin N => Highest(N, DoubleSub(N, l, r, sub, p, x, z), D, home2, Spans(D, lo, hi))
<1>1. PICK a, c : a = l[z] /\ c = r[z]
  OBVIOUS
<1>2. /\ x \in N /\ z \in N /\ p # x /\ p # z /\ x # z /\ a # p /\ c # p
  BY <1>1, NodesOfDoubleRotation
<1>3. a \in N \cup {Null} /\ c \in N \cup {Null}
  BY <1>1, <1>2 DEF Shape, LinksOK
<1>4. PICK home1 : home1 = MovedHomes(D, home, lo, hi, x, z)
  OBVIOUS
<1>5. PICK home2 : home2 = MovedHomes(D, home1, lo, hi, a, p)
  OBVIOUS
<1>6. PICK home3 : home3 = MovedHomes(D, home2, lo, hi, p, z)
  OBVIOUS
<1>7. PICK home4 : home4 = MovedHomes(D, home3, lo, hi, c, p)
  OBVIOUS
<1>8. /\ Housed(N, D, home4, lo, hi)
      /\ HalvesAre(Move(Move(Move(Move(h, x, z), a, p), p, z), c, p), N, D, home4, lo, hi)
  BY <1>2, <1>3, <1>4, <1>5, <1>6, <1>7, FourMoves
<1>9. ASSUME 0 \notin N
      PROVE  Highest(N, DoubleSub(N, l, r, sub, p, x, z), D, home4, Spans(D, lo, hi))
  <2>1. p # 0 /\ z # 0 /\ x # Null /\ p # Null
    BY <1>2, <1>9
  <2>2. PICK span : span = Spans(D, lo, hi)
    OBVIOUS
  <2>3. /\ home1 = Rehomed(D, home, span, x, z)
        /\ home2 = IF l[z] = Null THEN home1 ELSE Rehomed(D, home1, span, l[z], p)
        /\ home3 = Rehomed(D, home2, span, p, z)
        /\ home4 = IF r[z] = Null THEN home3 ELSE Rehomed(D, home3, span, r[z], p)
    BY <2>1, <2>2, <1>1, <1>4, <1>5, <1>6, <1>7 DEF MovedHomes
  <2>4. Highest(N, sub, D, home, span) /\ Convex(N, R, D, span)
    BY <1>9, <2>2
  <2>5. Highest(N, DoubleSub(N, l, r, sub, p, x, z), D, home4, span)
    BY <2>3, <2>4, DoubleRotationKeepsHighest
  <2> QED BY <2>2, <2>5
<1> QED BY <1>1, <1>8, <1>9

\* The balancing factors of the mirrored double rotation.
LEMMA DoubleHeightsMirrored ==
  ASSUME NEW N, NEW R, NEW l, NEW r, NEW up, NEW sub, NEW b, NEW g, NEW p \in N, NEW x, NEW z,
         Shape(N, R, l, r, up, sub), x = l[p], x # Null, z = r[x], z # Null,
         HeightsFit(N, r, l, b, g, x), b[p] = 1, b[x] = -1,
         NEW b2, b2 = [b EXCEPT ![p] = IF b[z] = 1 THEN -1 ELSE 0,
                                ![x] = IF b[z] = -1 THEN 1 ELSE 0,
                                ![z] = 0],
         NEW g3, g3 = [g EXCEPT ![p] = g[p] - 1, ![z] = g[p]]
  PROVE  HeightsFit(N, DoubleRight(N, l, r, p, x, z), DoubleLeft(N, l, r, p, x, z), b2, g3, Null)
<1>1. l \in [N -> N \cup {Null}] /\ r \in [N -> N \cup {Null}] /\ b \in [N -> {-1, 0, 1}]
  BY DEF Shape, LinksOK, HeightsFit
<1>2. x \in N /\ z \in N /\ p # x /\ p # z /\ x # z
  BY NodesOfDoubleRotation
<1>3. PICK nb : nb = Negated(N, b)
  OBVIOUS
<1>4. PICK l2, r2, g2 : /\ l2 = DoubleLeft(N, l, r, p, x, z) /\ r2 = DoubleRight(N, l, r, p, x, z)
                        /\ g2 = [g EXCEPT ![p] = g[p] - 1, ![z] = g[p]]
  OBVIOUS
<1>5. HeightsFit(N, l, r, nb, g, x)
  BY <1>1, <1>3, MirrorHeights
<1>6. \A n \in N : /\ b[n] \in {-1, 0, 1} /\ nb[n] = 0 - b[n]
  <2>1. \A n \in N : b[n] \in Int /\ b[n] \in {-1, 0, 1} /\ nb[n] = - b[n]
    BY <1>1, <1>3 DEF Negated
  <2> QED BY <2>1, MinusIsDifference
<1>7. nb[p] = -1 /\ nb[x] = 1 /\ DOMAIN nb = N
  <2>1. nb[p] = 0 - b[p] /\ nb[x] = 0 - b[x]
    BY <1>2, <1>6
  <2>2. nb[p] = -1 /\ nb[x] = 1
    BY <2>1
  <2> QED BY <2>2, <1>3 DEF Negated
<1>8. PICK v, w : v = (IF nb[z] = -1 THEN 1 ELSE 0) /\ w = (IF nb[z] = 1 THEN -1 ELSE 0)
  OBVIOUS
<1>9. PICK nb2 : nb2 = [nb EXCEPT ![p] = v, ![x] = w, ![z] = 0]
  OBVIOUS
<1>10. HeightsFit(N, l2, r2, nb2, g2, Null)
  BY <1>4, <1>5, <1>7, <1>8, <1>9, DoubleRotationKeepsHeights
<1>11. l2 \in [N -> N \cup {Null}] /\ r2 \in [N -> N \cup {Null}]
  BY <1>1, <1>2, <1>4 DEF DoubleLeft, DoubleRight
<1>12. HeightsFit(N, r2, l2, Negated(N, nb2), g2, Null)
  BY <1>10, <1>11, MirrorHeights
<1>13. PICK v2, w2 : v2 = (IF b[z] = 1 THEN -1 ELSE 0) /\ w2 = (IF b[z] = -1 THEN 1 ELSE 0)
  OBVIOUS
<1>14. v \in Int /\ w \in Int /\ 0 - v = v2 /\ 0 - w = w2
  <2>1. nb[z] = 0 - b[z] /\ b[z] \in {-1, 0, 1}
    BY <1>2, <1>6
  <2> QED BY <2>1, <1>8, <1>13
<1>15. \A n \in N : nb2[n] = IF n = z THEN 0 ELSE IF n = x THEN w ELSE IF n = p THEN v ELSE nb[n]
  BY <1>2, <1>7, <1>9
<1>16. ASSUME NEW n \in N
       PROVE  - nb2[n] = IF n = z THEN 0 ELSE IF n = x THEN w2 ELSE IF n = p THEN v2 ELSE b[n]
  <2>1. nb2[n] \in Int /\ 0 - nb2[n] = IF n = z THEN 0 ELSE IF n = x THEN w2 ELSE IF n = p THEN v2 ELSE b[n]
    <3>1. CASE n = z
      BY <3>1, <1>15
    <3>2. CASE n # z /\ n = x
      <4>1. nb2[n] = w
        BY <3>2, <1>15
      <4> QED BY <3>2, <4>1, <1>14
    <3>3. CASE n # z /\ n # x /\ n = p
      <4>1. nb2[n] = v
        BY <3>3, <1>15
      <4> QED BY <3>3, <4>1, <1>14
    <3>4. CASE n # z /\ n # x /\ n # p
      <4>1. nb2[n] = nb[n] /\ nb[n] = 0 - b[n] /\ b[n] \in {-1, 0, 1}
        BY <3>4, <1>6, <1>15
      <4> QED BY <3>4, <4>1
    <3> QED BY <3>1, <3>2, <3>3, <3>4
  <2> QED BY <2>1, MinusIsDifference
<1>17. Negated(N, nb2) = [b EXCEPT ![p] = v2, ![x] = w2, ![z] = 0]
  <2>1. [b EXCEPT ![p] = v2, ![x] = w2, ![z] = 0]
          = [n \in N |-> IF n = z THEN 0 ELSE IF n = x THEN w2 ELSE IF n = p THEN v2 ELSE b[n]]
    BY <1>1, <1>2
  <2> QED BY <2>1, <1>16 DEF Negated
<1> QED BY <1>4, <1>12, <1>13, <1>17

\* rotateLeftRight keeps the invariant of the tree.
LEMMA RotateLeftRightFits ==
  ASSUME TreeInv, TooHeavy(-1, {1}), RotateLeftRight(parent[at], at)
  PROVE  TreeFits'
<1>1. PICK N, D, p, x, z : N = Nodes /\ D = recorded /\ p = parent[at] /\ x = at /\ z = right[at]
  OBVIOUS
<1>2. PICK sub, g, home, lo, hi :
        /\ TreeShape(sub) /\ HeightsFit(N, left, right, balance, g, x)
        /\ EntriesFit(sub, home, lo, hi)
  BY <1>1, RotationStarts
<1>3. /\ p \in N /\ x \in N /\ p # Null /\ x # Null /\ left[p] = x
      /\ balance[p] = -1 /\ balance[x] = 1
      /\ Placed = recorded /\ recorded' = recorded /\ clauses' = clauses /\ phase' \in {"Idle", "Build"}
  BY <1>1, RotationStarts
<1>4. /\ N \subseteq Int /\ IsFiniteSet(N) /\ Shape(N, Less, left, right, parent, sub) /\ Rooted(N, parent, root, sub)
      /\ Null \notin N /\ left \in [N -> N \cup {Null}] /\ right \in [N -> N \cup {Null}]
  BY <1>1, <1>2 DEF TreeShape, Shape, LinksOK
<1>5. RotateLeftRight(p, x)
  BY <1>1
<1>6. Inverses(N, Less, Greater) /\ Inverses(N, Greater, Less)
  BY <1>4, LessGreater
<1>7. z = right[x] /\ z # Null
  BY <1>1, <1>2, <1>3, <1>4, HeavyChildHasChild
<1>8. /\ left' = DoubleLeft(N, left, right, p, x, z) /\ right' = DoubleRight(N, left, right, p, x, z)
      /\ parent' = DoubleUp(N, left, right, parent, p, x, z) /\ root' = RootOf(parent, root, p, z)
  BY <1>1, <1>3, <1>4, <1>5, <1>7, RotateLeftRightLinks
<1>9. PICK sub2 : sub2 = DoubleSub(N, left, right, sub, p, x, z)
  OBVIOUS
<1>10. Shape(N, Less, left', right', parent', sub2) /\ Rooted(N, parent', root', sub2)
  BY <1>3, <1>4, <1>6, <1>7, <1>8, <1>9, DoubleRotationKeepsShape
<1>11. PICK g2 : g2 = [g EXCEPT ![p] = g[p] - 1, ![z] = g[p]]
  OBVIOUS
<1>12. HeightsFit(N, left', right', balance', g2, Null)
  <2>1. balance' = [balance EXCEPT ![p] = IF balance[z] = -1 THEN 1 ELSE 0,
                                   ![x] = IF balance[z] = 1 THEN -1 ELSE 0,
                                   ![z] = 0]
    BY <1>5, <1>7 DEF RotateLeftRight
  <2>2. Shape(N, Less, left, right, parent, sub)
    BY <1>4
  <2> QED BY <2>1, <2>2, <1>2, <1>3, <1>7, <1>8, <1>11, DoubleRotationKeepsHeights
<1>13. BoundsFit(D, lo, hi) /\ lo \in [D -> Int] /\ hi \in [D -> Int]
  BY <1>1, <1>2, <1>3 DEF EntriesFit, Housed
<1>14. PICK home2 : /\ Housed(N, D, home2, lo, hi)
                    /\ HalvesAre(Move(Move(Move(Move(BothHalves, x, z), left[z], p), p, z), right[z], p), N, D, home2, lo, hi)
                    /\ 0 \notin N => Highest(N, sub2, D, home2, Spans(D, lo, hi))
  <2>1. Housed(N, D, home, lo, hi) /\ HalvesAre(BothHalves, N, D, home, lo, hi)
    BY <1>1, <1>2, <1>3 DEF EntriesFit, HalvesAre, BothHalves
  <2>2. 0 \notin N => Highest(N, sub, D, home, Spans(D, lo, hi))
    BY <1>1, <1>2, <1>3 DEF EntriesFit
  <2>3. Convex(N, Less, D, Spans(D, lo, hi))
    BY <1>4, <1>13, SpansAreConvex
  <2> QED BY <2>1, <2>2, <2>3, <1>3, <1>4, <1>6, <1>7, <1>9, DoubleRotationEntries
<1>15. lower' = Half(N, D, home2, lo) /\ upper' = Half(N, D, home2, hi)
  <2>1. HalvesBecome(Move(Move(Move(Move(BothHalves, x, z), left[z], p), p, z), right[z], p))
    BY <1>5, <1>7 DEF RotateLeftRight
  <2> QED BY <2>1, <1>14 DEF HalvesBecome, HalvesAre
<1> QED BY <1>1, <1>3, <1>4, <1>10, <1>12, <1>13, <1>14, <1>15, RotationEnds

\* rotateRightLeft keeps the invariant of the tree.
LEMMA RotateRightLeftFits ==
  ASSUME TreeInv, TooHeavy(1, {-1}), RotateRightLeft(parent[at], at)
  PROVE  TreeFits'
<1>1. PICK N, D, p, y, z : N = Nodes /\ D = recorded /\ p = parent[at] /\ y = at /\ z = left[at]
  OBVIOUS
<1>2. PICK sub, g, home, lo, hi :
        /\ TreeShape(sub) /\ HeightsFit(N, left, right, balance, g, y)
        /\ EntriesFit(sub, home, lo, hi)
  BY <1>1, RotationStarts
<1>3. /\ p \in N /\ y \in N /\ p # Null /\ y # Null /\ right[p] = y
      /\ balance[p] = 1 /\ balance[y] = -1
      /\ Placed = recorded /\ recorded' = recorded /\ clauses' = clauses /\ phase' \in {"Idle", "Build"}
  BY <1>1, RotationStarts
<1>4. /\ N \subseteq Int /\ IsFiniteSet(N) /\ Shape(N, Less, left, right, parent, sub) /\ Rooted(N, parent, root, sub)
      /\ Null \notin N /\ left \in [N -> N \cup {Null}] /\ right \in [N -> N \cup {Null}]
      /\ balance \in [N -> {-1, 0, 1}]
  BY <1>1, <1>2 DEF TreeShape, Shape, LinksOK, HeightsFit
<1>5. RotateRightLeft(p, y)
  BY <1>1
<1>6. Inverses(N, Less, Greater) /\ Inverses(N, Greater, Less)
  BY <1>4, LessGreater
<1>7. Shape(N, Greater, right, left, parent, sub)
  BY <1>4, <1>6, MirrorShape
<1>8. z = left[y] /\ z # Null
  <2>1. PICK nb : nb = Negated(N, balance)
    OBVIOUS
  <2>2. HeightsFit(N, right, left, nb, g, y)
    BY <2>1, <1>2, <1>4, MirrorHeights
  <2>3. nb[y] = 1
    <3>1. nb[y] = - balance[y] /\ balance[y] \in Int
      BY <2>1, <1>3 DEF Negated
    <3>2. nb[y] = 0 - balance[y]
      BY <3>1, MinusIsDifference
    <3> QED BY <3>2, <1>3
  <2>4. left[y] # Null
    BY <2>2, <2>3, <1>3, <1>4, HeavyChildHasChild
  <2> QED BY <2>4, <1>1
<1>9. /\ right' = DoubleLeft(N, right, left, p, y, z) /\ left' = DoubleRight(N, right, left, p, y, z)
      /\ parent' = DoubleUp(N, right, left, parent, p, y, z) /\ root' = RootOf(parent, root, p, z)
  BY <1>1, <1>3, <1>4, <1>5, <1>8, RotateRightLeftLinks
<1>10. PICK sub2 : sub2 = DoubleSub(N, right, left, sub, p, y, z)
  OBVIOUS
<1>11. Shape(N, Greater, right', left', parent', sub2) /\ Rooted(N, parent', root', sub2)
  BY <1>3, <1>4, <1>6, <1>7, <1>8, <1>9, <1>10, DoubleRotationKeepsShape
<1>12. Shape(N, Less, left', right', parent', sub2)
  BY <1>6, <1>11, MirrorShape
<1>13. PICK g2 : g2 = [g EXCEPT ![p] = g[p] - 1, ![z] = g[p]]
  OBVIOUS
<1>14. HeightsFit(N, left', right', balance', g2, Null)
  <2>1. balance' = [balance EXCEPT ![p] = IF balance[z] = 1 THEN -1 ELSE 0,
                                   ![y] = IF balance[z] = -1 THEN 1 ELSE 0,
                                   ![z] = 0]
    BY <1>5, <1>8 DEF RotateRightLeft
  <2> QED BY <2>1, <1>2, <1>3, <1>7, <1>8, <1>9, <1>13, DoubleHeightsMirrored
<1>15. BoundsFit(D, lo, hi) /\ lo \in [D -> Int] /\ hi \in [D -> Int]
  BY <1>1, <1>2, <1>3 DEF EntriesFit, Housed
<1>16. PICK home2 : /\ Housed(N, D, home2, lo, hi)
                    /\ HalvesAre(Move(Move(Move(Move(BothHalves, y, z), right[z], p), p, z), left[z], p), N, D, home2, lo, hi)
                    /\ 0 \notin N => Highest(N, sub2, D, home2, Spans(D, lo, hi))
  <2>1. Housed(N, D, home, lo, hi) /\ HalvesAre(BothHalves, N, D, home, lo, hi)
    BY <1>1, <1>2, <1>3 DEF EntriesFit, HalvesAre, BothHalves
  <2>2. 0 \notin N => Highest(N, sub, D, home, Spans(D, lo, hi))
    BY <1>1, <1>2, <1>3 DEF EntriesFit
  <2>3. Convex(N, Greater, D, Spans(D, lo, hi))
    BY <1>4, <1>15, SpansAreConvex
  <2> QED BY <2>1, <2>2, <2>3, <1>3, <1>4, <1>6, <1>7, <1>8, <1>10, DoubleRotationEntries
<1>17. lower' = Half(N, D, home2, lo) /\ upper' = Half(N, D, home2, hi)
  <2>1. HalvesBecome(Move(Move(Move(Move(BothHalves, y, z), right[z], p), p, z), left[z], p))
    BY <1>5, <1>8 DEF RotateRightLeft
  <2> QED BY <2>1, <1>16 DEF HalvesBecome, HalvesAre
<1> QED BY <1>1, <1>3, <1>4, <1>11, <1>12, <1>14, <1>15, <1>16, <1>17, RotationEnds
-----------------------------------------------------------------------------
(* The order in which createFromCnfFormula inserts the clauses.            *)

\* The number of elements that come before an element.
RankIn(S, B) == [i \in S |-> Cardinality({j \in S : <<j, i>> \in B})]

\* In a total order of n elements each of them has a position of its own.
LEMMA RanksAreAPermutation ==
  ASSUME NEW n \in Nat, NEW S, S = 0 .. n - 1, NEW B, StrictOrderOn(S, B),
         \A i, j \in S : i # j => <<i, j>> \in B \/ <<j, i>> \in B,
         NEW rank, rank = RankIn(S, B)
  PROVE  /\ rank \in [S -> S]
         /\ \A i, j \in S : rank[i] = rank[j] => i = j
         /\ \A p \in S : \E i \in S : rank[i] = p
<1>1. IsFiniteSet(S) /\ Cardinality(S) = n
  BY FS_Interval
<1>2. PICK below : below = [i \in S |-> {j \in S : <<j, i>> \in B}]
  OBVIOUS
<1>3. \A i \in S : /\ below[i] \subseteq S /\ i \notin below[i] /\ rank[i] = Cardinality(below[i])
  BY <1>2 DEF StrictOrderOn, RankIn
<1>4. \A i \in S : IsFiniteSet(below[i]) /\ rank[i] \in Nat
  BY <1>1, <1>3, FS_Subset, FS_CardinalityType
<1>5. \A i \in S : rank[i] < n
  <2> SUFFICES ASSUME NEW i \in S PROVE rank[i] < n
    OBVIOUS
  <2>1. Cardinality(below[i]) <= Cardinality(S) /\ (Cardinality(S) = Cardinality(below[i]) => S = below[i])
    BY <1>1, <1>3, FS_Subset
  <2>2. rank[i] <= n /\ rank[i] # n
    BY <2>1, <1>1, <1>3
  <2> QED BY <2>2, <1>4
<1>6. rank \in [S -> S]
  <2>1. \A i \in S : rank[i] \in S
    BY <1>4, <1>5
  <2> QED BY <2>1 DEF RankIn
<1>7. \A i, j \in S : <<i, j>> \in B => rank[i] < rank[j]
  <2> SUFFICES ASSUME NEW i \in S, NEW j \in S, <<i, j>> \in B PROVE rank[i] < rank[j]
    OBVIOUS
  <2>1. below[i] \subseteq below[j] /\ i \in below[j] /\ i \notin below[i]
    BY <1>2 DEF StrictOrderOn
  <2>2. Cardinality(below[i]) <= Cardinality(below[j]) /\ (Cardinality(below[j]) = Cardinality(below[i]) => below[j] = below[i])
    BY <2>1, <1>4, FS_Subset
  <2>3. rank[i] <= rank[j] /\ rank[i] # rank[j]
    BY <2>1, <2>2, <1>3
  <2> QED BY <2>3, <1>4
<1>8. \A i, j \in S : rank[i] = rank[j] => i = j
  <2> SUFFICES ASSUME NEW i \in S, NEW j \in S, rank[i] = rank[j], i # j PROVE FALSE
    OBVIOUS
  <2>1. rank[i] < rank[j] \/ rank[j] < rank[i]
    BY <1>7
  <2> QED BY <2>1, <1>4
<1>9. rank \in Injection(S, S)
  BY <1>6, <1>8 DEF Injection, IsInjective
<1>10. rank \in Surjection(S, S)
  BY <1>1, <1>9, FS_Injection
<1>11. \A p \in S : \E i \in S : rank[i] = p
  BY <1>10 DEF Surjection
<1> QED BY <1>6, <1>8, <1>11

\* Formulas whose clauses have a midpoint, as far as they are sorted.
SortableFormula(f) ==
  /\ SizeOf(f) \in Nat
  /\ \A i \in DOMAIN f \cap 0 .. SizeOf(f) - 1 : MidpointOf(f[i]) \in Int

\* The order of the clauses as a set of pairs.
BeforeIn(f, S) == {e \in S \X S : Before(f, e[1], e[2])}

\* The order of the clauses by their midpoints is total.
LEMMA BeforeIsAnOrder ==
  ASSUME NEW f, SortableFormula(f), NEW S, S = 0 .. SizeOf(f) - 1,
         NEW B, B = BeforeIn(f, S)
  PROVE  /\ StrictOrderOn(S, B)
         /\ \A i, j \in S : i # j => <<i, j>> \in B \/ <<j, i>> \in B
<1>1. PICK D, mid : D = DOMAIN f \cap S /\ mid = [i \in D |-> MidpointOf(f[i])]
  OBVIOUS
<1>2. \A i \in D : mid[i] \in Int
  BY <1>1 DEF SortableFormula
<1>3. \A i, j \in S : <<i, j>> \in B <=> IF i \in D /\ j \in D THEN mid[i] < mid[j] \/ (mid[i] = mid[j] /\ i < j)
                                         ELSE i \in D \/ (j \notin D /\ i < j)
  BY <1>1 DEF Before, BeforeIn
<1>4. \A i \in S : i \in Int
  OBVIOUS
<1>5. \A i \in S : <<i, i>> \notin B
  BY <1>2, <1>3, <1>4
<1>6. \A i, j \in S : i # j => <<i, j>> \in B \/ <<j, i>> \in B
  BY <1>2, <1>3, <1>4
<1>7. ASSUME NEW i \in S, NEW j \in S, NEW k \in S, <<i, j>> \in B, <<j, k>> \in B
      PROVE  <<i, k>> \in B
  <2>1. CASE k \in D
    <3>1. j \in D /\ i \in D
      BY <2>1, <1>3, <1>7
    <3> QED BY <3>1, <2>1, <1>2, <1>3, <1>4, <1>7
  <2>2. CASE k \notin D
    BY <2>2, <1>3, <1>4, <1>7
  <2> QED BY <2>1, <2>2
<1> QED BY <1>5, <1>6, <1>7 DEF StrictOrderOn

\* Each position has a clause of its own.
LEMMA ClausesHaveTheirPositions ==
  ASSUME NEW f, SortableFormula(f)
  PROVE  /\ \A p \in 0 .. SizeOf(f) - 1 : ClauseAt(f, p) \in 0 .. SizeOf(f) - 1
         /\ \A p, q \in 0 .. SizeOf(f) - 1 : ClauseAt(f, p) = ClauseAt(f, q) => p = q
<1> DEFINE S == 0 .. SizeOf(f) - 1
<1>0. \A p : ClauseAt(f, p) = CHOOSE i \in S : Cardinality({j \in S : Before(f, j, i)}) = p
  BY DEF ClauseAt
<1>S. S = 0 .. SizeOf(f) - 1
  OBVIOUS
<1> HIDE DEF S
<1>1. PICK B : B = BeforeIn(f, S)
  OBVIOUS
<1>2. PICK rank : rank = RankIn(S, B)
  OBVIOUS
<1>3. \A p \in S : \E i \in S : rank[i] = p
  <2>1. StrictOrderOn(S, B) /\ (\A i, j \in S : i # j => <<i, j>> \in B \/ <<j, i>> \in B)
    <3>1. SortableFormula(f)
      OBVIOUS
    <3>2. \A T, Q : T = 0 .. SizeOf(f) - 1 /\ Q = BeforeIn(f, T) =>
            StrictOrderOn(T, Q) /\ (\A i, j \in T : i # j => <<i, j>> \in Q \/ <<j, i>> \in Q)
      BY <3>1, BeforeIsAnOrder
    <3> QED BY <3>2, <1>1, <1>S
  <2>2. PICK n \in Nat : S = 0 .. n - 1
    BY <1>S DEF SortableFormula
  <2> QED BY <2>1, <2>2, <1>2, RanksAreAPermutation
<1>4. \A i \in S : {j \in S : <<j, i>> \in B} = {j \in S : Before(f, j, i)}
  BY <1>1 DEF BeforeIn
<1>5. \A i \in S : rank[i] = Cardinality({j \in S : Before(f, j, i)})
  BY <1>2, <1>4 DEF RankIn
<1>7. \A p \in S : ClauseAt(f, p) \in S /\ rank[ClauseAt(f, p)] = p
  <2> SUFFICES ASSUME NEW p \in S PROVE ClauseAt(f, p) \in S /\ rank[ClauseAt(f, p)] = p
    OBVIOUS
  <2>1. PICK i \in S : Cardinality({j \in S : Before(f, j, i)}) = p
    BY <1>3, <1>5
  <2>2. LET c == CHOOSE c \in S : Cardinality({j \in S : Before(f, j, c)}) = p
        IN  c \in S /\ Cardinality({j \in S : Before(f, j, c)}) = p
    BY <2>1
  <2> QED BY <2>2, <1>5, <1>0
<1>8. \A p \in S : ClauseAt(f, p) \in S
  BY <1>7
<1>9. \A p, q \in S : ClauseAt(f, p) = ClauseAt(f, q) => p = q
  BY <1>7
<1> QED BY <1>8, <1>9, <1>S

\* The insertion order for four clauses or more, position by position.
LongOrder(n, mid, l) ==
  [a \in 1 .. 4 * l + (n % 2) |->
     IF a = 1 THEN mid ELSE IF a = 2 THEN l ELSE IF a = 3 THEN mid + l
     ELSE IF a = 4 * l THEN 0 ELSE IF a = 4 * l + 1 THEN mid + 2 * l
     ELSE LET i == ((a - 4) \div 4) + 1 IN
          IF (a - 4) % 4 = 0 THEN l - i ELSE IF (a - 4) % 4 = 1 THEN mid + l + i
          ELSE IF (a - 4) % 4 = 2 THEN l + i ELSE mid + l - i]

\* The rounds of the loop in the order of insertion, and the whole order.
Rounds(mid, l) ==
  LET r == mid + l
      Round(i) == <<l - i, r + i, l + i, r - i>>
  IN  [k \in 1 .. 4 * (l - 1) |-> Round(((k - 1) \div 4) + 1)[((k - 1) % 4) + 1]]

Joined(n, mid, l) ==
  (<<mid, l, mid + l>> \o Rounds(mid, l)) \o (IF n % 2 = 0 THEN <<0>> ELSE <<0, (mid + l) + l>>)

\* The order of insertion for four clauses or more, in its three parts.
LEMMA PositionsJoined ==
  ASSUME NEW n \in Nat, n >= 4
  PROVE  Positions(n) = Joined(n, n \div 2, (n \div 2) \div 2)
<1>1. n # 0 /\ n # 1 /\ n # 2 /\ n # 3
  OBVIOUS
<1> QED BY <1>1 DEF Positions, Joined, Rounds

\* The three parts as one function.
LEMMA RoundsAreLong ==
  ASSUME NEW n \in Nat, NEW mid \in Nat, NEW l \in Nat, l >= 1, n % 2 \in {0, 1}
  PROVE  Joined(n, mid, l) = LongOrder(n, mid, l)
<1> DEFINE r == mid + l
           Round(i) == <<l - i, r + i, l + i, r - i>>
           rounds == Rounds(mid, l)
           first == <<mid, l, r>>
           last == IF n % 2 = 0 THEN <<0>> ELSE <<0, r + l>>
<1>3. PICK m : m = 4 * (l - 1) /\ m \in Nat
  OBVIOUS
<1>4. \A k \in 1 .. m : /\ (k - 1) % 4 \in {0, 1, 2, 3} /\ (k - 1) \div 4 \in Nat /\ k \in Int
  BY <1>3
<1>5. \A k \in 1 .. m : rounds[k] = LET i == ((k - 1) \div 4) + 1 IN
                                    IF (k - 1) % 4 = 0 THEN l - i ELSE IF (k - 1) % 4 = 1 THEN r + i
                                    ELSE IF (k - 1) % 4 = 2 THEN l + i ELSE r - i
  <2> SUFFICES ASSUME NEW k \in 1 .. m
               PROVE  rounds[k] = LET i == ((k - 1) \div 4) + 1 IN
                                    IF (k - 1) % 4 = 0 THEN l - i ELSE IF (k - 1) % 4 = 1 THEN r + i
                                    ELSE IF (k - 1) % 4 = 2 THEN l + i ELSE r - i
    OBVIOUS
  <2>1. PICK i, j : i = ((k - 1) \div 4) + 1 /\ j = (k - 1) % 4 /\ j \in {0, 1, 2, 3}
    BY <1>4
  <2>2. rounds[k] = Round(i)[j + 1]
    BY <2>1, <1>3 DEF Rounds
  <2>3. Round(i)[j + 1] = IF j = 0 THEN l - i ELSE IF j = 1 THEN r + i ELSE IF j = 2 THEN l + i ELSE r - i
    BY <2>1
  <2> QED BY <2>1, <2>2, <2>3
<1>6. rounds \in Seq(Int) /\ Len(rounds) = m
  <2>1. \A k \in 1 .. m : rounds[k] \in Int
    <3> SUFFICES ASSUME NEW k \in 1 .. m PROVE rounds[k] \in Int
      OBVIOUS
    <3>1. PICK i \in Int : i = ((k - 1) \div 4) + 1
      BY <1>4
    <3> HIDE DEF rounds, Round
    <3> QED BY <3>1, <1>5
  <2>2. rounds \in [1 .. m -> Int]
    <3>1. DOMAIN rounds = 1 .. m /\ rounds = [k \in 1 .. m |-> rounds[k]]
      BY <1>3 DEF Rounds
    <3> HIDE DEF rounds
    <3> QED BY <2>1, <3>1
  <2> HIDE DEF rounds
  <2> QED BY <2>2, <1>3
<1> HIDE DEF rounds, Round
<1>7. first \in Seq(Int) /\ Len(first) = 3 /\ last \in Seq(Int) /\ Len(last) = 1 + (n % 2)
  OBVIOUS
<1>8. PICK s : s = first \o rounds
  OBVIOUS
<1>9. /\ s \in Seq(Int) /\ Len(s) = 3 + m
      /\ \A a \in 1 .. 3 + m : s[a] = IF a <= 3 THEN first[a] ELSE rounds[a - 3]
  BY <1>3, <1>6, <1>7, <1>8
<1>10. PICK t : t = s \o last
  OBVIOUS
<1>11. /\ t \in Seq(Int) /\ DOMAIN t = 1 .. 4 + m + (n % 2)
       /\ \A a \in 1 .. 4 + m + (n % 2) : t[a] = IF a <= 3 + m THEN s[a] ELSE last[a - (3 + m)]
  <2> HIDE DEF last, first
  <2>0. s \in Seq(Int) /\ last \in Seq(Int)
    BY <1>7, <1>9
  <2>1. /\ Len(t) = Len(s) + Len(last) /\ t \in Seq(Int)
        /\ \A a \in 1 .. Len(s) + Len(last) : t[a] = IF a <= Len(s) THEN s[a] ELSE last[a - Len(s)]
    BY <2>0, <1>10
  <2>2. Len(s) + Len(last) = 4 + m + (n % 2)
    BY <1>3, <1>7, <1>9
  <2> QED BY <2>1, <2>2, <1>9
<1>12. ASSUME NEW a \in 1 .. 4 * l + (n % 2)
       PROVE  t[a] = LongOrder(n, mid, l)[a]
  <2> DEFINE other == LET i == ((a - 4) \div 4) + 1 IN
                      IF (a - 4) % 4 = 0 THEN l - i ELSE IF (a - 4) % 4 = 1 THEN r + i
                      ELSE IF (a - 4) % 4 = 2 THEN l + i ELSE r - i
  <2>1. LongOrder(n, mid, l)[a] = IF a = 1 THEN mid ELSE IF a = 2 THEN l ELSE IF a = 3 THEN r
                                  ELSE IF a = 4 * l THEN 0 ELSE IF a = 4 * l + 1 THEN mid + 2 * l ELSE other
    BY DEF LongOrder
  <2> HIDE DEF other
  <2>2. a \in Int /\ 4 * l = 4 + m /\ a \in 1 .. 4 + m + (n % 2)
    BY <1>3
  <2>3. CASE a <= 3
    <3>1. t[a] = first[a]
      <4>1. a \in 1 .. 3 + m /\ a <= 3 + m
        BY <2>2, <2>3, <1>3
      <4>2. t[a] = s[a]
        BY <4>1, <2>2, <1>11
      <4> QED BY <4>1, <4>2, <2>3, <1>9
    <3>2. a = 1 \/ a = 2 \/ a = 3
      BY <2>2, <2>3
    <3> QED BY <2>1, <3>1, <3>2
  <2>4. CASE a > 3 /\ a <= 3 + m
    <3>1. t[a] = rounds[a - 3]
      <4>1. a \in 1 .. 3 + m /\ ~(a <= 3)
        BY <2>2, <2>4, <1>3
      <4>2. t[a] = s[a]
        BY <2>2, <2>4, <1>11
      <4> QED BY <4>1, <4>2, <1>9
    <3>2. PICK k : k = a - 3 /\ k \in 1 .. m /\ k - 1 = a - 4
      BY <2>2, <2>4, <1>3
    <3>3. rounds[k] = other
      BY <3>2, <1>5 DEF other
    <3>4. a # 1 /\ a # 2 /\ a # 3 /\ a # 4 * l /\ a # 4 * l + 1
      BY <2>2, <2>4, <1>3
    <3> QED BY <2>1, <3>1, <3>2, <3>3, <3>4
  <2>5. CASE a > 3 + m
    <3>1. t[a] = last[a - (3 + m)] /\ a # 1 /\ a # 2 /\ a # 3
      <4>1. t[a] = last[a - (3 + m)]
        BY <2>2, <2>5, <1>3, <1>11
      <4> QED BY <4>1, <2>2, <2>5, <1>3
    <3>2. a = 4 * l \/ (a = 4 * l + 1 /\ n % 2 = 1)
      BY <2>2, <2>5, <1>3
    <3>3. CASE a = 4 * l
      <4>1. a - (3 + m) = 1
        BY <3>3, <2>2, <1>3
      <4>2. last[1] = 0
        OBVIOUS
      <4> QED BY <2>1, <3>1, <3>3, <4>1, <4>2
    <3>4. CASE a # 4 * l
      <4>1. a - (3 + m) = 2 /\ a = 4 * l + 1 /\ n % 2 = 1
        BY <3>2, <3>4, <2>2, <1>3
      <4>2. last[2] = r + l
        BY <4>1
      <4>3. r + l = mid + 2 * l
        OBVIOUS
      <4> QED BY <2>1, <3>1, <3>4, <4>1, <4>2, <4>3
    <3> QED BY <3>3, <3>4
  <2> QED BY <2>2, <2>3, <2>4, <2>5, <1>3
<1>13. DOMAIN t = 1 .. 4 * l + (n % 2)
  BY <1>3, <1>11
<1>14. t = LongOrder(n, mid, l)
  <2>1. t = [a \in 1 .. 4 * l + (n % 2) |-> t[a]]
    <3>1. PICK k \in Nat : t \in [1 .. k -> Int]
      BY <1>11
    <3> QED BY <3>1, <1>13
  <2>2. LongOrder(n, mid, l) = [a \in 1 .. 4 * l + (n % 2) |-> LongOrder(n, mid, l)[a]]
    BY DEF LongOrder
  <2> QED BY <2>1, <2>2, <1>12
<1> QED BY <1>8, <1>10, <1>14 DEF Joined, rounds

\* The order of insertion for four clauses or more, as one function.
LEMMA PositionsOfMany ==
  ASSUME NEW n \in Nat, n >= 4
  PROVE  Positions(n) = LongOrder(n, n \div 2, (n \div 2) \div 2)
<1>1. n \div 2 \in Nat /\ (n \div 2) \div 2 \in Nat /\ (n \div 2) \div 2 >= 1 /\ n % 2 \in {0, 1}
  OBVIOUS
<1> QED BY <1>1, PositionsJoined, RoundsAreLong

\* Where a position is in the order.
PlaceIn(mid, l, v) ==
  IF v = mid THEN 1 ELSE IF v = l THEN 2 ELSE IF v = mid + l THEN 3
  ELSE IF v = 0 THEN 4 * l ELSE IF v = mid + 2 * l THEN 4 * l + 1
  ELSE IF v < l THEN 4 * (l - v) ELSE IF v < 2 * l THEN 4 * (v - l) + 2
  ELSE IF v < mid + l THEN 4 * (mid + l - v) + 3 ELSE 4 * (v - mid - l) + 1

\* The order stays in range, and PlaceIn is its inverse.
LEMMA LongOrderPlaces ==
  ASSUME NEW n \in Nat, NEW mid \in Nat, NEW l \in Nat, l >= 1, NEW c \in {0, 1}, c = n % 2,
         NEW e \in {0, 1}, mid = 2 * l + e, n = 2 * mid + c,
         NEW a \in 1 .. 4 * l + c
  PROVE  /\ LongOrder(n, mid, l)[a] \in 0 .. n - 1
         /\ PlaceIn(mid, l, LongOrder(n, mid, l)[a]) = a
         /\ e = 1 => LongOrder(n, mid, l)[a] # 2 * l
<1>1. PICK i, j : i = ((a - 4) \div 4) + 1 /\ j = (a - 4) % 4
  OBVIOUS
<1>2. i \in Int /\ j \in {0, 1, 2, 3} /\ a = 4 * i + j
  <2>1. a - 4 \in Int
    OBVIOUS
  <2>2. (a - 4) % 4 \in 0 .. 3 /\ a - 4 = 4 * ((a - 4) \div 4) + ((a - 4) % 4) /\ (a - 4) \div 4 \in Int
    BY <2>1
  <2> QED BY <2>2, <1>1
<1>3. PICK v : v = LongOrder(n, mid, l)[a]
  OBVIOUS
<1>4. v = IF a = 1 THEN mid ELSE IF a = 2 THEN l ELSE IF a = 3 THEN mid + l
          ELSE IF a = 4 * l THEN 0 ELSE IF a = 4 * l + 1 THEN mid + 2 * l
          ELSE IF j = 0 THEN l - i ELSE IF j = 1 THEN mid + l + i
          ELSE IF j = 2 THEN l + i ELSE mid + l - i
  BY <1>1, <1>3 DEF LongOrder
<1>5. v \in Int
  BY <1>2, <1>4
<1>6. CASE a = 1 \/ a = 2 \/ a = 3 \/ a = 4 * l \/ a = 4 * l + 1
  <2>1. /\ a = 1 => v = mid
        /\ a = 2 => v = l
        /\ a = 3 => v = mid + l
        /\ a = 4 * l => v = 0
        /\ a = 4 * l + 1 => v = mid + 2 * l /\ c = 1
    BY <1>4
  <2>2. v \in 0 .. n - 1 /\ (e = 1 => v # 2 * l)
    BY <2>1, <1>6
  <2>3. PlaceIn(mid, l, v) = a
    BY <2>1, <1>6 DEF PlaceIn
  <2> QED BY <2>2, <2>3, <1>3
<1>7. CASE a # 1 /\ a # 2 /\ a # 3 /\ a # 4 * l /\ a # 4 * l + 1
  <2>1. 1 <= i /\ i <= l - 1
    BY <1>2, <1>7
  <2>2. /\ j = 0 => v = l - i
        /\ j = 1 => v = mid + l + i
        /\ j = 2 => v = l + i
        /\ j = 3 => v = mid + l - i
    BY <1>2, <1>4, <1>7
  <2>3. v \in 0 .. n - 1 /\ (e = 1 => v # 2 * l)
    BY <2>1, <2>2, <1>2
  <2>4. PlaceIn(mid, l, v) = a
    <3>1. CASE j = 0
      BY <3>1, <2>1, <2>2, <1>2 DEF PlaceIn
    <3>2. CASE j = 1
      BY <3>2, <2>1, <2>2, <1>2 DEF PlaceIn
    <3>3. CASE j = 2
      BY <3>3, <2>1, <2>2, <1>2 DEF PlaceIn
    <3>4. CASE j = 3
      BY <3>4, <2>1, <2>2, <1>2 DEF PlaceIn
    <3> QED BY <3>1, <3>2, <3>3, <3>4, <1>2
  <2> QED BY <2>3, <2>4, <1>3
<1> QED BY <1>6, <1>7

\* The order reaches all positions if half of the size is even.
LEMMA LongOrderReaches ==
  ASSUME NEW n \in Nat, NEW mid \in Nat, NEW l \in Nat, l >= 1, NEW c \in {0, 1}, c = n % 2,
         mid = 2 * l, n = 2 * mid + c, NEW v \in 0 .. n - 1
  PROVE  PlaceIn(mid, l, v) \in 1 .. 4 * l + c /\ LongOrder(n, mid, l)[PlaceIn(mid, l, v)] = v
<1>1. PICK a : a = PlaceIn(mid, l, v)
  OBVIOUS
<1>2. v \in Int /\ 0 <= v /\ v <= 4 * l + c - 1
  OBVIOUS
<1>3. ASSUME a \in 1 .. 4 * l + c, NEW i \in Int, NEW j \in {0, 1, 2, 3}, a = 4 * i + j,
             a # 1, a # 2, a # 3, a # 4 * l, a # 4 * l + 1
      PROVE  LongOrder(n, mid, l)[a] = IF j = 0 THEN l - i ELSE IF j = 1 THEN mid + l + i
                                       ELSE IF j = 2 THEN l + i ELSE mid + l - i
  <2>1. a - 4 = 4 * (i - 1) + j
    BY <1>3
  <2>2. (a - 4) \div 4 = i - 1 /\ (a - 4) % 4 = j
    BY <2>1, <1>3
  <2>3. ((a - 4) \div 4) + 1 = i
    BY <2>2
  <2> QED BY <2>2, <2>3, <1>3 DEF LongOrder
<1>4. CASE v = mid \/ v = l \/ v = mid + l \/ v = 0 \/ v = mid + 2 * l
  <2>1. /\ v = mid => a = 1
        /\ v = l => a = 2
        /\ v = mid + l => a = 3
        /\ v = 0 => a = 4 * l
        /\ v = mid + 2 * l => a = 4 * l + 1 /\ c = 1
    BY <1>1 DEF PlaceIn
  <2>2. a \in 1 .. 4 * l + c
    BY <2>1, <1>4
  <2>3. LongOrder(n, mid, l)[a] = v
    BY <2>1, <2>2, <1>4 DEF LongOrder
  <2> QED BY <2>2, <2>3, <1>1
<1>5. CASE v # mid /\ v # l /\ v # mid + l /\ v # 0 /\ v # mid + 2 * l
  <2>1. a = IF v < l THEN 4 * (l - v) ELSE IF v < 2 * l THEN 4 * (v - l) + 2
            ELSE IF v < mid + l THEN 4 * (mid + l - v) + 3 ELSE 4 * (v - mid - l) + 1
    BY <1>1, <1>5 DEF PlaceIn
  <2>2. CASE v < l
    <3>1. PICK i \in Int : i = l - v
      OBVIOUS
    <3>2. a = 4 * i + 0 /\ 1 <= i /\ i <= l - 1
      BY <3>1, <2>1, <2>2, <1>5
    <3>3. a \in 1 .. 4 * l + c /\ a # 1 /\ a # 2 /\ a # 3 /\ a # 4 * l /\ a # 4 * l + 1
      BY <3>2
    <3>4. LongOrder(n, mid, l)[a] = l - i
      BY <3>2, <3>3, <1>3
    <3>5. l - i = v
      BY <3>1
    <3> QED BY <3>3, <3>4, <3>5, <1>1
  <2>3. CASE ~(v < l) /\ v < 2 * l
    <3>1. PICK i \in Int : i = v - l
      OBVIOUS
    <3>2. a = 4 * i + 2 /\ 1 <= i /\ i <= l - 1
      BY <3>1, <2>1, <2>3, <1>5
    <3>3. a \in 1 .. 4 * l + c /\ a # 1 /\ a # 2 /\ a # 3 /\ a # 4 * l /\ a # 4 * l + 1
      BY <3>2
    <3>4. LongOrder(n, mid, l)[a] = l + i
      BY <3>2, <3>3, <1>3
    <3>5. l + i = v
      BY <3>1
    <3> QED BY <3>3, <3>4, <3>5, <1>1
  <2>4. CASE ~(v < 2 * l) /\ v < mid + l
    <3>0. mid + l - v \in Int
      BY <1>2
    <3>1. PICK i \in Int : i = mid + l - v
      BY <3>0
    <3>2. a = 4 * i + 3 /\ 1 <= i /\ i <= l - 1
      BY <3>1, <2>1, <2>4, <1>5
    <3>3. a \in 1 .. 4 * l + c /\ a # 1 /\ a # 2 /\ a # 3 /\ a # 4 * l /\ a # 4 * l + 1
      BY <3>2
    <3>4. LongOrder(n, mid, l)[a] = mid + l - i
      BY <3>2, <3>3, <1>3
    <3>5. mid + l - i = v
      BY <3>1
    <3> QED BY <3>3, <3>4, <3>5, <1>1
  <2>5. CASE ~(v < mid + l)
    <3>1. PICK i \in Int : i = v - mid - l
      OBVIOUS
    <3>2. a = 4 * i + 1 /\ 1 <= i /\ i <= l - 1
      BY <3>1, <2>1, <2>5, <1>2, <1>5
    <3>3. a \in 1 .. 4 * l + c /\ a # 1 /\ a # 2 /\ a # 3 /\ a # 4 * l /\ a # 4 * l + 1
      BY <3>2
    <3>4. LongOrder(n, mid, l)[a] = mid + l + i
      BY <3>2, <3>3, <1>3
    <3>5. mid + l + i = v
      BY <3>1
    <3> QED BY <3>3, <3>4, <3>5, <1>1
  <2> QED BY <2>2, <2>3, <2>4, <2>5
<1> QED BY <1>4, <1>5

\* What the order is like for two clauses or more.
LEMMA OrderOfManyClauses ==
  ASSUME NEW n \in Nat, n >= 2, NEW P, P = Positions(n)
  PROVE  /\ P \in Seq(0 .. n - 1)
         /\ \A a, b \in DOMAIN P : P[a] = P[b] => a = b
         /\ (\A v \in 0 .. n - 1 : \E a \in DOMAIN P : P[a] = v) <=> (n \in {2, 3} \/ n % 4 \in {0, 1})
<1>1. CASE n = 2
  <2>1. P = <<1, 0>>
    BY <1>1 DEF Positions
  <2>2. DOMAIN P = {1, 2} /\ P[1] = 1 /\ P[2] = 0
    BY <2>1
  <2>3. P \in Seq(0 .. n - 1)
    BY <2>1, <1>1
  <2>4. \A v \in 0 .. n - 1 : v = 0 \/ v = 1
    BY <1>1
  <2> QED BY <2>2, <2>3, <2>4, <1>1
<1>2. CASE n = 3
  <2>1. P = <<1, 0, 2>>
    BY <1>2 DEF Positions
  <2>2. DOMAIN P = {1, 2, 3} /\ P[1] = 1 /\ P[2] = 0 /\ P[3] = 2
    BY <2>1
  <2>3. P \in Seq(0 .. n - 1)
    BY <2>1, <1>2
  <2>4. \A v \in 0 .. n - 1 : v = 0 \/ v = 1 \/ v = 2
    BY <1>2
  <2> QED BY <2>2, <2>3, <2>4, <1>2
<1>3. CASE n >= 4
  <2>1. PICK mid, l, c, e : mid = n \div 2 /\ l = (n \div 2) \div 2 /\ c = n % 2 /\ e = (n \div 2) % 2
    OBVIOUS
  <2>2. /\ mid \in Nat /\ l \in Nat /\ l >= 1 /\ c \in {0, 1} /\ e \in {0, 1}
        /\ mid = 2 * l + e /\ n = 2 * mid + c
    BY <2>1, <1>3
  <2>3. P = LongOrder(n, mid, l)
    BY <2>1, <1>3, PositionsOfMany
  <2>4. DOMAIN P = 1 .. 4 * l + c
    BY <2>1, <2>3 DEF LongOrder
  <2>5. \A a \in 1 .. 4 * l + c : P[a] \in 0 .. n - 1 /\ PlaceIn(mid, l, P[a]) = a /\ (e = 1 => P[a] # 2 * l)
    <3> SUFFICES ASSUME NEW a \in 1 .. 4 * l + c
                 PROVE  P[a] \in 0 .. n - 1 /\ PlaceIn(mid, l, P[a]) = a /\ (e = 1 => P[a] # 2 * l)
      OBVIOUS
    <3>1. c = n % 2
      BY <2>1
    <3>2. /\ LongOrder(n, mid, l)[a] \in 0 .. n - 1
          /\ PlaceIn(mid, l, LongOrder(n, mid, l)[a]) = a
          /\ e = 1 => LongOrder(n, mid, l)[a] # 2 * l
      BY <3>1, <2>2, LongOrderPlaces
    <3> QED BY <3>2, <2>3
  <2>6. P \in Seq(0 .. n - 1)
    <3>1. P = [a \in 1 .. 4 * l + c |-> P[a]]
      BY <2>1, <2>3 DEF LongOrder
    <3>2. PICK k \in Nat : k = 4 * l + c
      BY <2>2
    <3>3. P \in [1 .. k -> 0 .. n - 1]
      BY <3>1, <3>2, <2>5
    <3> QED BY <3>2, <3>3
  <2>7. \A a, b \in DOMAIN P : P[a] = P[b] => a = b
    BY <2>4, <2>5
  <2>8. n % 4 \in {0, 1} <=> e = 0
    <3>1. n = 4 * l + (2 * e + c) /\ 2 * e + c \in 0 .. 3
      BY <2>2
    <3>2. n % 4 = 2 * e + c
      BY <3>1, <2>2
    <3> QED BY <3>2, <2>2
  <2>9. CASE e = 0
    <3>1. mid = 2 * l
      BY <2>2, <2>9
    <3>2. \A v \in 0 .. n - 1 : PlaceIn(mid, l, v) \in 1 .. 4 * l + c /\ P[PlaceIn(mid, l, v)] = v
      <4> SUFFICES ASSUME NEW v \in 0 .. n - 1
                   PROVE  PlaceIn(mid, l, v) \in 1 .. 4 * l + c /\ P[PlaceIn(mid, l, v)] = v
        OBVIOUS
      <4>1. c = n % 2
        BY <2>1
      <4>2. PlaceIn(mid, l, v) \in 1 .. 4 * l + c /\ LongOrder(n, mid, l)[PlaceIn(mid, l, v)] = v
        BY <4>1, <3>1, <2>2, LongOrderReaches
      <4> QED BY <4>2, <2>3
    <3> QED BY <3>2, <2>4, <2>6, <2>7, <2>8, <2>9
  <2>10. CASE e = 1
    <3>1. 2 * l \in 0 .. n - 1
      BY <2>2
    <3>2. \A a \in DOMAIN P : P[a] # 2 * l
      BY <2>4, <2>5, <2>10
    <3>3. n # 2 /\ n # 3
      BY <1>3
    <3> QED BY <3>1, <3>2, <3>3, <2>6, <2>7, <2>8, <2>10
  <2> QED BY <2>2, <2>9, <2>10
<1> QED BY <1>1, <1>2, <1>3
-----------------------------------------------------------------------------
(* The plan of createFromCnfFormula.                                       *)

\* A sequence is a function.
LEMMA SequenceIsFunction ==
  ASSUME NEW S, NEW s \in Seq(S)
  PROVE  Len(s) \in Nat /\ DOMAIN s = 1 .. Len(s) /\ \A q \in 1 .. Len(s) : s[q] \in S
OBVIOUS

\* A function on 1 .. k is a sequence.
LEMMA FunctionIsSequence ==
  ASSUME NEW S, NEW k \in Nat, NEW s \in [1 .. k -> S]
  PROVE  s \in Seq(S)
OBVIOUS

\* The size of the formula is a size_t.
LEMMA SizeOfFormula ==
  ASSUME FormulaOK
  PROVE  SizeOf(clauses) \in 0 .. SizeMax /\ IsFiniteSet(DOMAIN clauses)
<1>1. SizeMax \in Nat /\ DOMAIN clauses \subseteq 0 .. SizeMax - 1
  BY TreeAssumption DEF FormulaOK
<1>2. IsFiniteSet(0 .. SizeMax - 1) /\ Cardinality(0 .. SizeMax - 1) = SizeMax
  BY <1>1, FS_Interval
<1>3. IsFiniteSet(DOMAIN clauses) /\ Cardinality(DOMAIN clauses) <= SizeMax
  BY <1>1, <1>2, FS_Subset
<1> QED BY <1>1, <1>3, FS_CardinalityType DEF SizeOf

\* The positions are of type size_t; for less than two clauses one is out of range.
LEMMA PositionsAreSizes ==
  ASSUME NEW n \in 0 .. SizeMax, NEW P, P = Positions(n)
  PROVE  /\ P \in Seq(0 .. SizeMax)
         /\ n < 2 => /\ \A a \in DOMAIN P : a # 1 => P[a] >= n
                     /\ \E a \in DOMAIN P : P[a] >= n
<1>1. SizeMax \in Nat /\ n \in Nat /\ n <= SizeMax
  BY TreeAssumption
<1>2. CASE n = 0
  <2>1. P = <<0>>
    BY <1>2 DEF Positions
  <2>2. DOMAIN P = {1} /\ P[1] = 0 /\ P \in Seq(0 .. SizeMax)
    BY <2>1, <1>1
  <2> QED BY <2>2, <1>2
<1>3. CASE n = 1
  <2>1. P = <<0, SizeMax>>
    BY <1>3 DEF Positions
  <2>2. DOMAIN P = {1, 2} /\ P[2] = SizeMax /\ P \in Seq(0 .. SizeMax)
    BY <2>1, <1>1
  <2> QED BY <2>2, <1>1, <1>3
<1>4. CASE n >= 2
  <2>1. P \in Seq(0 .. n - 1)
    BY <1>1, <1>4, OrderOfManyClauses
  <2>2. \A k \in 0 .. n - 1 : k \in 0 .. SizeMax
    BY <1>1
  <2>3. P \in Seq(0 .. SizeMax)
    <3>1. PICK k : k = Len(P) /\ k \in Nat /\ DOMAIN P = 1 .. k /\ \A q \in 1 .. k : P[q] \in 0 .. n - 1
      BY <2>1, SequenceIsFunction
    <3>2. P = [q \in 1 .. k |-> P[q]]
      BY <2>1, <3>1
    <3>3. P \in [1 .. k -> 0 .. SizeMax]
      BY <3>1, <3>2, <2>2
    <3> QED BY <3>1, <3>3, FunctionIsSequence
  <2> QED BY <2>3, <1>1, <1>4
<1> QED BY <1>1, <1>2, <1>3, <1>4

\* If sorting does not throw, the clauses it compares have a midpoint.
LEMMA ClausesToSort ==
  ASSUME FormulaOK, ~SortingThrows(clauses), SizeOf(clauses) >= 2
  PROVE  SortableFormula(clauses)
<1>1. SizeOf(clauses) \in Nat /\ SizeOf(clauses) > 1
  BY SizeOfFormula, TreeAssumption
<1>2. \A i \in DOMAIN clauses \cap 0 .. SizeOf(clauses) - 1 : HasLiterals(i)
  BY <1>1 DEF SortingThrows, HasLiterals
<1>3. \A i \in DOMAIN clauses \cap 0 .. SizeOf(clauses) - 1 : Midpoint(i) \in Int
  BY <1>2, BoundsOfClause
<1> QED BY <1>1, <1>3 DEF SortableFormula, Midpoint

\* The order names no clause twice before it goes out of range.
LEMMA NextClauseIsNew ==
  ASSUME FormulaOK, ~SortingThrows(clauses), NEW P, P = Positions(SizeOf(clauses)),
         NEW n \in Nat, n + 1 \in DOMAIN P, \A q \in 1 .. n + 1 : ~OutOfRange(clauses, P[q])
  PROVE  \A q \in 1 .. n : ClauseAt(clauses, P[q]) # ClauseAt(clauses, P[n + 1])
<1>1. PICK m : m = SizeOf(clauses) /\ m \in 0 .. SizeMax /\ m \in Nat
  BY SizeOfFormula, TreeAssumption
<1>2. P \in Seq(0 .. SizeMax)
  BY <1>1, PositionsAreSizes
<1>3. \A q \in 1 .. n + 1 : q \in DOMAIN P
  <2>1. PICK k \in Nat : DOMAIN P = 1 .. k
    BY <1>2
  <2> QED BY <2>1
<1>4. \A q \in 1 .. n + 1 : P[q] \in 0 .. m - 1
  <2> SUFFICES ASSUME NEW q \in 1 .. n + 1 PROVE P[q] \in 0 .. m - 1
    OBVIOUS
  <2>1. P[q] \in 0 .. SizeMax
    <3>1. \A a \in DOMAIN P : P[a] \in 0 .. SizeMax
      BY <1>2, SequenceIsFunction
    <3> QED BY <3>1, <1>3
  <2>2. ~(P[q] >= m)
    BY <1>1 DEF OutOfRange
  <2> QED BY <2>1, <2>2, <1>1, TreeAssumption
<1>5. CASE m < 2
  <2>1. \A a \in DOMAIN P : a # 1 => P[a] >= m
    BY <1>1, <1>5, PositionsAreSizes
  <2>2. n + 1 = 1
    <3>1. n + 1 \in 1 .. n + 1
      OBVIOUS
    <3>2. P[n + 1] \in 0 .. m - 1
      BY <3>1, <1>4
    <3>3. ~(P[n + 1] >= m)
      BY <3>2, <1>1
    <3> QED BY <2>1, <3>3
  <2> QED BY <2>2
<1>6. CASE m >= 2
  <2>1. \A a, b \in DOMAIN P : P[a] = P[b] => a = b
    BY <1>1, <1>6, OrderOfManyClauses
  <2>2. SortableFormula(clauses)
    BY <1>1, <1>6, ClausesToSort
  <2>3. \A u, w \in 0 .. m - 1 : ClauseAt(clauses, u) = ClauseAt(clauses, w) => u = w
    BY <2>2, <1>1, ClausesHaveTheirPositions
  <2> SUFFICES ASSUME NEW q \in 1 .. n, ClauseAt(clauses, P[q]) = ClauseAt(clauses, P[n + 1]) PROVE FALSE
    OBVIOUS
  <2>4. q \in 1 .. n + 1 /\ n + 1 \in 1 .. n + 1 /\ q # n + 1
    OBVIOUS
  <2>5. P[q] = P[n + 1]
    BY <2>3, <2>4, <1>4
  <2> QED BY <2>1, <2>4, <2>5, <1>3
<1> QED BY <1>1, <1>5, <1>6
\* The first n clauses of the order are in the tree.
InTree(n) ==
  LET P == Positions(SizeOf(clauses)) IN
  /\ ~SortingThrows(clauses)
  /\ recorded = {ClauseAt(clauses, P[q]) : q \in 1 .. n}
  /\ \A q \in 1 .. n : ~OutOfRange(clauses, P[q]) /\ Insertable(clauses, P[q])

\* The plan holds the rest of the order.
LeftToInsert(n) ==
  LET P == Positions(SizeOf(clauses)) IN
  /\ Len(P) = n + Len(plan)
  /\ \A q \in 1 .. Len(plan) : plan[q] = P[n + q]

\* Where the creation of a tree stands.
PlanInv ==
  /\ phase = "Build" => outcome = "Building"
  /\ phase = "Idle" => outcome # "Building"
  /\ outcome \in {"Created", "Failed", "Threw"} => phase = "Idle"
  /\ outcome = "Building" => \E n \in Nat : InTree(n) /\ LeftToInsert(n)
  /\ outcome = "Created" => InTree(Len(Positions(SizeOf(clauses))))
  /\ outcome \in {"Failed", "Threw"} => Creation(clauses) = outcome /\ Nodes = {}

\* The invariant of the plan holds initially.
LEMMA InitPlan == TreeInit => PlanInv
<1>1. ASSUME TreeInit PROVE Nodes = {}
  BY <1>1, NoNodes DEF TreeInit, EmptyTree, Nodes
<1> QED BY <1>1 DEF TreeInit, PlanInv

\* The head of the plan is the next position of the order.
LEMMA PlanHead ==
  ASSUME DataOK, PlanInv, phase = "Build", plan # <<>>, NEW P, P = Positions(SizeOf(clauses))
  PROVE  \E n \in Nat : /\ InTree(n) /\ LeftToInsert(n)
                       /\ n + 1 \in DOMAIN P /\ Head(plan) = P[n + 1]
                       /\ \A q \in 1 .. n : q \in DOMAIN P
                       /\ Len(P) = n + Len(plan) /\ Len(plan) \in Nat /\ Len(plan) >= 1 /\ P \in Seq(0 .. SizeMax)
<1>1. outcome = "Building"
  BY DEF PlanInv
<1>2. PICK n \in Nat : InTree(n) /\ LeftToInsert(n)
  BY <1>1 DEF PlanInv
<1>3. plan \in Seq(0 .. SizeMax)
  BY DEF DataOK
<1>4. Head(plan) = plan[1] /\ Len(plan) \in Nat /\ Len(plan) >= 1
  <2>1. Len(plan) \in Nat
    BY <1>3, SequenceIsFunction
  <2>2. Len(plan) # 0
    BY <1>3
  <2>3. Head(plan) = plan[1]
    BY <1>3
  <2> QED BY <2>1, <2>2, <2>3
<1>5. P \in Seq(0 .. SizeMax)
  BY SizeOfFormula, PositionsAreSizes DEF DataOK
<1>6. Len(P) = n + Len(plan) /\ \A q \in 1 .. Len(plan) : plan[q] = P[n + q]
  BY <1>2 DEF LeftToInsert
<1>7. DOMAIN P = 1 .. n + Len(plan)
  BY <1>5, <1>6
<1>8. n + 1 \in DOMAIN P /\ plan[1] = P[n + 1]
  BY <1>4, <1>6, <1>7
<1>9. \A q \in 1 .. n : q \in DOMAIN P
  BY <1>4, <1>7
<1> QED BY <1>2, <1>4, <1>5, <1>6, <1>8, <1>9

\* The clause at the head of the plan is not in the tree.
LEMMA InsertNextIsNew ==
  ASSUME DataOK, PlanInv, InsertNext
  PROVE  ClauseAt(clauses, Head(plan)) \notin recorded /\ HasLiterals(ClauseAt(clauses, Head(plan)))
<1>1. /\ phase = "Build" /\ plan # <<>>
      /\ ~OutOfRange(clauses, Head(plan)) /\ Insertable(clauses, Head(plan))
  BY DEF InsertNext
<1>2. PICK P : P = Positions(SizeOf(clauses))
  OBVIOUS
<1>3. PICK n \in Nat : /\ InTree(n) /\ n + 1 \in DOMAIN P /\ Head(plan) = P[n + 1]
  BY <1>1, <1>2, PlanHead
<1>4. /\ ~SortingThrows(clauses) /\ recorded = {ClauseAt(clauses, P[q]) : q \in 1 .. n}
      /\ \A q \in 1 .. n : ~OutOfRange(clauses, P[q])
  BY <1>2, <1>3 DEF InTree
<1>5. \A q \in 1 .. n + 1 : ~OutOfRange(clauses, P[q])
  <2> SUFFICES ASSUME NEW q \in 1 .. n + 1 PROVE ~OutOfRange(clauses, P[q])
    OBVIOUS
  <2>1. q \in 1 .. n \/ q = n + 1
    OBVIOUS
  <2> QED BY <2>1, <1>1, <1>3, <1>4
<1>6. \A q \in 1 .. n : ClauseAt(clauses, P[q]) # ClauseAt(clauses, P[n + 1])
  BY <1>2, <1>3, <1>4, <1>5, NextClauseIsNew DEF DataOK
<1>7. HasLiterals(ClauseAt(clauses, Head(plan)))
  BY <1>1 DEF Insertable, HasLiterals
<1> QED BY <1>3, <1>4, <1>6, <1>7

\* The creation ends at the first position that is out of range or refused.
LEMMA CreationStops ==
  ASSUME NEW f, ~SortingThrows(f), NEW P, P = Positions(SizeOf(f)), NEW S, P \in Seq(S),
         NEW n \in Nat, n + 1 \in DOMAIN P,
         \A q \in 1 .. n : ~OutOfRange(f, P[q]) /\ Insertable(f, P[q]),
         OutOfRange(f, P[n + 1]) \/ ~Insertable(f, P[n + 1])
  PROVE  Creation(f) = IF OutOfRange(f, P[n + 1]) THEN "Threw" ELSE "Failed"
<1> DEFINE stops == {p \in DOMAIN P : OutOfRange(f, P[p]) \/ ~Insertable(f, P[p])}
<1>1. Creation(f) = IF SortingThrows(f) THEN "Threw" ELSE IF stops = {} THEN "Created"
                    ELSE IF OutOfRange(f, P[Min(stops)]) THEN "Threw" ELSE "Failed"
  BY DEF Creation
<1>2. n + 1 \in stops /\ \A p \in stops : p \in Nat /\ n + 1 <= p
  <2>1. \A p \in stops : p \in Nat /\ p >= 1 /\ p \notin 1 .. n
    BY SequenceIsFunction
  <2> QED BY <2>1
<1> HIDE DEF stops
<1>3. Min(stops) = n + 1
  <2>1. \E x \in stops : \A y \in stops : x <= y
    BY <1>2
  <2>2. Min(stops) \in stops /\ \A y \in stops : Min(stops) <= y
    BY <2>1 DEF Min
  <2>3. Min(stops) \in Nat /\ Min(stops) <= n + 1 /\ n + 1 <= Min(stops)
    BY <1>2, <2>2
  <2> QED BY <2>3
<1> QED BY <1>1, <1>2, <1>3

\* A creation without such a position completes.
LEMMA CreationCompletes ==
  ASSUME NEW f, ~SortingThrows(f), NEW P, P = Positions(SizeOf(f)), NEW S, P \in Seq(S),
         \A q \in 1 .. Len(P) : ~OutOfRange(f, P[q]) /\ Insertable(f, P[q])
  PROVE  Creation(f) = "Created"
<1> DEFINE stops == {p \in DOMAIN P : OutOfRange(f, P[p]) \/ ~Insertable(f, P[p])}
<1>1. Creation(f) = IF SortingThrows(f) THEN "Threw" ELSE IF stops = {} THEN "Created"
                    ELSE IF OutOfRange(f, P[Min(stops)]) THEN "Threw" ELSE "Failed"
  BY DEF Creation
<1>2. stops = {}
  BY SequenceIsFunction
<1> HIDE DEF stops
<1> QED BY <1>1, <1>2

\* The steps of a call of insertClause.
MidCall == KeepHere \/ Descend \/ Attach \/ Rebalance

\* The steps of insertClause leave the plan and the types alone.
LEMMA MidCallKeeps ==
  ASSUME DataOK, PlanInv, MidCall
  PROVE  DataOK' /\ PlanInv'
<1>1. /\ phase \in {"Descend", "Rebalance"}
      /\ phase' \in {"Descend", "Rebalance", Caller}
      /\ UNCHANGED <<clauses, recorded, inserted, plan, outcome>>
  <2>1. CASE KeepHere
    BY <2>1 DEF KeepHere
  <2>2. CASE Descend
    BY <2>2 DEF Descend, tree
  <2>3. CASE Attach
    BY <2>3 DEF Attach
  <2>4. CASE Rebalance
    <3>1. CASE ReachRoot
      BY <3>1 DEF ReachRoot, Finish, tree
    <3>2. CASE LeanTowards
      BY <3>2 DEF LeanTowards, Finish
    <3>3. ASSUME NEW s, NEW b, TooHeavy(s, b)
          PROVE  /\ phase \in {"Descend", "Rebalance"}
                 /\ phase' \in {"Descend", "Rebalance", Caller}
                 /\ UNCHANGED <<clauses, recorded, inserted, plan, outcome>>
      BY <3>3 DEF TooHeavy, Finish
    <3> QED BY <2>4, <3>1, <3>2, <3>3 DEF Rebalance
  <2> QED BY <2>1, <2>2, <2>3, <2>4 DEF MidCall
<1>2. DataOK'
  <2>1. FormulaOK'
    BY <1>1 DEF DataOK, FormulaOK
  <2>2. phase' \in {"Idle", "Build", "Descend", "Rebalance"}
    BY <1>1 DEF Caller
  <2>3. inserted' \in recorded' /\ HasLiterals(inserted)'
    BY <1>1 DEF DataOK, HasLiterals
  <2> QED BY <2>1, <2>2, <2>3, <1>1 DEF DataOK
<1>3. phase' \in {"Descend", "Rebalance"} \/ (phase' = "Build" /\ outcome = "Building") \/ (phase' = "Idle" /\ outcome # "Building")
  BY <1>1 DEF Caller
<1>4. outcome \notin {"Created", "Failed", "Threw"}
  BY <1>1 DEF PlanInv
<1>5. \A n : InTree(n)' = InTree(n) /\ LeftToInsert(n)' = LeftToInsert(n)
  BY <1>1 DEF InTree, LeftToInsert
<1>6. outcome = "Building" => \E n \in Nat : InTree(n)' /\ LeftToInsert(n)'
  BY <1>5 DEF PlanInv
<1> QED BY <1>1, <1>2, <1>3, <1>4, <1>6 DEF PlanInv

\* The steps of insertClause keep the invariant of the tree.
LEMMA MidCallFits ==
  ASSUME TreeInv, MidCall
  PROVE  TreeFits'
<1>1. CASE KeepHere
  BY <1>1, KeepHereFits
<1>2. CASE Descend
  BY <1>2, DescendFits
<1>3. CASE Attach
  BY <1>3, AttachFits
<1>4. CASE ReachRoot
  BY <1>4, ReachRootFits
<1>5. CASE LeanTowards
  BY <1>5, LeanTowardsFits
<1>6. CASE TooHeavy(-1, {-1, 0}) /\ RotateRight(parent[at], at)
  BY <1>6, RotateRightFits
<1>7. CASE TooHeavy(-1, {1}) /\ RotateLeftRight(parent[at], at)
  BY <1>7, RotateLeftRightFits
<1>8. CASE TooHeavy(1, {0, 1}) /\ RotateLeft(parent[at], at)
  BY <1>8, RotateLeftFits
<1>9. CASE TooHeavy(1, {-1}) /\ RotateRightLeft(parent[at], at)
  BY <1>9, RotateRightLeftFits
<1> QED BY <1>1, <1>2, <1>3, <1>4, <1>5, <1>6, <1>7, <1>8, <1>9 DEF MidCall, Rebalance

\* The insertion of a new clause keeps the invariant of the tree.
LEMMA InsertFits ==
  ASSUME TreeInv, phase \in {"Idle", "Build"}, NEW i, i \notin recorded, HasLiterals(i),
         Insert(i), UNCHANGED clauses
  PROVE  TreeFits'
BY FirstInsertionFits, LaterInsertionFits

\* The insertion of a clause of the formula keeps the types.
LEMMA InsertKeepsData ==
  ASSUME DataOK, NEW i, HasLiterals(i), Insert(i), UNCHANGED clauses,
         plan' \in Seq(0 .. SizeMax), outcome' \in {"None", "Building", "Created", "Failed", "Threw"}
  PROVE  DataOK' /\ phase' \in {Caller, "Descend"} /\ recorded' = recorded \cup {i}
<1>1. /\ recorded' = recorded \cup {i} /\ inserted' = i /\ phase' \in {Caller, "Descend"}
  BY DEF Insert
<1>2. FormulaOK' /\ HasLiterals(i)'
  BY DEF DataOK, FormulaOK, HasLiterals
<1>3. i \in ClauseIds /\ Caller \in {"Idle", "Build"}
  BY DEF DataOK, FormulaOK, HasLiterals, Caller
<1> QED BY <1>1, <1>2, <1>3 DEF DataOK

\* A tree that is cleared fits.
LEMMA ClearedTreeFits ==
  ASSUME ClearTree, phase' \in {"Idle", "Build"}
  PROVE  TreeFits' /\ Nodes' = {}
<1>1. EmptyTree'
  BY DEF ClearTree, EmptyTree
<1>2. (EmptyTree /\ phase \in {"Idle", "Build"} => TreeFits)'
  BY EmptyTreeFits, PTL
<1>3. Nodes' = {}
  BY <1>1, NoNodes DEF EmptyTree, Nodes
<1> QED BY <1>1, <1>2, <1>3
-----------------------------------------------------------------------------
(* The inductive invariant.                                                *)

\* The inductive invariant of the specification.
Invariant == TreeInv /\ PlanInv

\* insertClause keeps the invariant.
LEMMA InsertClauseKeeps ==
  ASSUME Invariant, NEW i, InsertClause(i)
  PROVE  Invariant'
<1>1. /\ phase = "Idle" /\ i \notin recorded /\ HasLiterals(i) /\ Insert(i)
      /\ outcome' = "None" /\ plan' = plan /\ clauses' = clauses
  BY DEF InsertClause
<1>2. TreeFits'
  BY <1>1, InsertFits DEF Invariant
<1>3. DataOK' /\ phase' \in {Caller, "Descend"}
  BY <1>1, InsertKeepsData DEF Invariant, TreeInv, DataOK
<1>4. Caller = "Idle"
  BY <1>1 DEF Invariant, PlanInv, Caller
<1> QED BY <1>1, <1>2, <1>3, <1>4 DEF Invariant, TreeInv, PlanInv

\* createFromCnfFormula keeps the invariant.
LEMMA CreateKeeps ==
  ASSUME Invariant, CreateFromCnfFormula
  PROVE  Invariant'
<1>1. /\ phase = "Idle" /\ ClearTree /\ clauses' = clauses /\ inserted' = inserted /\ at' = at
      /\ recorded' = {}
  BY DEF CreateFromCnfFormula, ClearTree
<1>2. DataOK
  BY DEF Invariant, TreeInv
<1>3. FormulaOK'
  BY <1>1, <1>2 DEF DataOK, FormulaOK
<1>4. CASE SortingThrows(clauses)
  <2>1. outcome' = "Threw" /\ phase' = "Idle" /\ plan' = plan
    BY <1>1, <1>4 DEF CreateFromCnfFormula
  <2>2. TreeFits' /\ Nodes' = {}
    BY <2>1, <1>1, ClearedTreeFits
  <2>3. DataOK'
    BY <2>1, <1>1, <1>2, <1>3 DEF DataOK
  <2>4. Creation(clauses)' = "Threw"
    BY <1>1, <1>4 DEF Creation
  <2> QED BY <2>1, <2>2, <2>3, <2>4 DEF Invariant, TreeInv, PlanInv
<1>5. CASE ~SortingThrows(clauses)
  <2>1. outcome' = "Building" /\ phase' = "Build" /\ plan' = Positions(SizeOf(clauses))
    BY <1>1, <1>5 DEF CreateFromCnfFormula
  <2>2. TreeFits'
    BY <2>1, <1>1, ClearedTreeFits
  <2>3. plan' \in Seq(0 .. SizeMax)
    BY <2>1, <1>2, SizeOfFormula, PositionsAreSizes DEF DataOK
  <2>4. DataOK'
    BY <2>1, <2>3, <1>1, <1>2, <1>3 DEF DataOK
  <2>5. InTree(0)'
    <3>1. {ClauseAt(clauses, plan'[q]) : q \in 1 .. 0} = {}
      OBVIOUS
    <3> QED BY <3>1, <2>1, <1>1, <1>5 DEF InTree
  <2>6. LeftToInsert(0)'
    <3>1. Len(plan') \in Nat
      BY <2>3, SequenceIsFunction
    <3>2. Len(plan') = 0 + Len(plan') /\ \A q \in 1 .. Len(plan') : 0 + q = q
      BY <3>1
    <3>3. Positions(SizeOf(clauses))' = plan'
      BY <2>1, <1>1
    <3> QED BY <3>2, <3>3 DEF LeftToInsert
  <2> QED BY <2>1, <2>2, <2>4, <2>5, <2>6 DEF Invariant, TreeInv, PlanInv
<1> QED BY <1>4, <1>5

\* An insertion of createFromCnfFormula keeps the invariant.
LEMMA InsertNextKeeps ==
  ASSUME Invariant, InsertNext
  PROVE  Invariant'
<1>1. PICK i : i = ClauseAt(clauses, Head(plan))
  OBVIOUS
<1>2. /\ phase = "Build" /\ plan # <<>> /\ Insert(i) /\ plan' = Tail(plan)
      /\ clauses' = clauses /\ outcome' = outcome
      /\ ~OutOfRange(clauses, Head(plan)) /\ Insertable(clauses, Head(plan))
  BY <1>1 DEF InsertNext, RestOfPlan
<1>3. i \notin recorded /\ HasLiterals(i)
  BY <1>1, InsertNextIsNew DEF Invariant, TreeInv
<1>4. outcome = "Building"
  BY <1>2 DEF Invariant, PlanInv
<1>5. TreeFits'
  BY <1>2, <1>3, InsertFits DEF Invariant
<1>6. plan \in Seq(0 .. SizeMax) /\ plan' \in Seq(0 .. SizeMax)
  BY <1>2 DEF Invariant, TreeInv, DataOK
<1>7. DataOK' /\ phase' \in {Caller, "Descend"} /\ recorded' = recorded \cup {i}
  BY <1>2, <1>3, <1>4, <1>6, InsertKeepsData DEF Invariant, TreeInv
<1>8. PICK P : P = Positions(SizeOf(clauses))
  OBVIOUS
<1>9. PICK n \in Nat : /\ InTree(n) /\ LeftToInsert(n) /\ Head(plan) = P[n + 1]
                       /\ Len(P) = n + Len(plan) /\ Len(plan) \in Nat /\ Len(plan) >= 1
  <2>1. DataOK /\ PlanInv
    BY DEF Invariant, TreeInv
  <2>2. phase = "Build" /\ plan # <<>>
    BY <1>2
  <2>3. PICK n \in Nat : InTree(n) /\ LeftToInsert(n) /\ n + 1 \in DOMAIN P /\ Head(plan) = P[n + 1]
    BY <2>1, <2>2, <1>8, PlanHead
  <2>4. Len(plan) \in Nat /\ Len(plan) >= 1
    BY <1>6, <2>2
  <2>5. Len(P) = n + Len(plan)
    BY <2>3, <1>8 DEF LeftToInsert
  <2> QED BY <2>3, <2>4, <2>5
<1>10. InTree(n + 1)'
  <2>1. /\ ~SortingThrows(clauses) /\ recorded = {ClauseAt(clauses, P[q]) : q \in 1 .. n}
        /\ \A q \in 1 .. n : ~OutOfRange(clauses, P[q]) /\ Insertable(clauses, P[q])
    BY <1>8, <1>9 DEF InTree
  <2>2. \A q : q \in 1 .. n + 1 <=> q \in 1 .. n \/ q = n + 1
    OBVIOUS
  <2>3. recorded' = {ClauseAt(clauses, P[q]) : q \in 1 .. n + 1}
    BY <2>1, <2>2, <1>1, <1>7, <1>9
  <2>4. \A q \in 1 .. n + 1 : ~OutOfRange(clauses, P[q]) /\ Insertable(clauses, P[q])
    BY <2>1, <2>2, <1>2, <1>9
  <2>5. P = Positions(SizeOf(clauses))'
    BY <1>2, <1>8
  <2> QED BY <2>1, <2>3, <2>4, <2>5, <1>2 DEF InTree
<1>11. LeftToInsert(n + 1)'
  <2>1. \A q \in 1 .. Len(plan) : plan[q] = P[n + q]
    BY <1>8, <1>9 DEF LeftToInsert
  <2>2. Len(plan') = Len(plan) - 1 /\ \A q \in 1 .. Len(plan) - 1 : plan'[q] = plan[q + 1]
    BY <1>2, <1>6
  <2>3. PICK m \in Nat : m = Len(plan) /\ m >= 1
    BY <1>9
  <2>4. Len(P) = (n + 1) + (m - 1)
    BY <2>3, <1>9
  <2>5. \A q \in 1 .. m - 1 : q + 1 \in 1 .. m /\ n + (q + 1) = (n + 1) + q
    BY <2>3
  <2>6. \A q \in 1 .. m - 1 : plan'[q] = P[(n + 1) + q]
    BY <2>1, <2>2, <2>3, <2>5
  <2>7. P = Positions(SizeOf(clauses))'
    BY <1>2, <1>8
  <2> QED BY <2>2, <2>3, <2>4, <2>6, <2>7 DEF LeftToInsert
<1>12. Caller = "Build" /\ n + 1 \in Nat
  BY <1>4 DEF Caller
<1> QED BY <1>2, <1>4, <1>5, <1>7, <1>10, <1>11, <1>12 DEF Invariant, TreeInv, PlanInv

\* A creation that is abandoned keeps the invariant.
LEMMA AbandonKeeps ==
  ASSUME Invariant, NEW result \in {"Threw", "Failed"}, Abandon(result), Creation(clauses) = result
  PROVE  Invariant'
<1>1. /\ ClearTree /\ phase' = "Idle" /\ plan' = <<>> /\ outcome' = result
      /\ clauses' = clauses /\ inserted' = inserted /\ recorded' = {}
  BY DEF Abandon, ClearTree
<1>2. TreeFits' /\ Nodes' = {}
  BY <1>1, ClearedTreeFits
<1>3. DataOK'
  BY <1>1 DEF Invariant, TreeInv, DataOK, FormulaOK
<1>4. Creation(clauses)' = result
  BY <1>1
<1> QED BY <1>1, <1>2, <1>3, <1>4 DEF Invariant, TreeInv, PlanInv

\* The end of a creation keeps the invariant.
LEMMA CreationEndsKeeps ==
  ASSUME Invariant, PositionOutOfRange \/ ClauseRefused \/ Created
  PROVE  Invariant'
<1>1. phase = "Build" /\ outcome = "Building" /\ DataOK
  BY DEF PositionOutOfRange, ClauseRefused, Created, Invariant, TreeInv, PlanInv
<1>2. PICK P : P = Positions(SizeOf(clauses)) /\ P \in Seq(0 .. SizeMax)
  BY <1>1, SizeOfFormula, PositionsAreSizes DEF DataOK
<1>3. CASE PositionOutOfRange \/ ClauseRefused
  <2>1. plan # <<>> /\ (OutOfRange(clauses, Head(plan)) \/ ~Insertable(clauses, Head(plan)))
        /\ Abandon(IF OutOfRange(clauses, Head(plan)) THEN "Threw" ELSE "Failed")
    BY <1>3 DEF PositionOutOfRange, ClauseRefused
  <2>2. PICK n \in Nat : InTree(n) /\ n + 1 \in DOMAIN P /\ Head(plan) = P[n + 1]
    BY <2>1, <1>1, <1>2, PlanHead DEF Invariant
  <2>3. ~SortingThrows(clauses) /\ \A q \in 1 .. n : ~OutOfRange(clauses, P[q]) /\ Insertable(clauses, P[q])
    BY <2>2, <1>2 DEF InTree
  <2>4. PICK result : result = IF OutOfRange(clauses, Head(plan)) THEN "Threw" ELSE "Failed"
    OBVIOUS
  <2>5. Creation(clauses) = result
    BY <2>1, <2>2, <2>3, <2>4, <1>2, CreationStops
  <2> QED BY <2>1, <2>4, <2>5, AbandonKeeps
<1>4. CASE Created
  <2>1. /\ plan = <<>> /\ phase' = "Idle" /\ outcome' = "Created"
        /\ UNCHANGED <<clauses, tree, inserted, at, plan>>
    BY <1>4 DEF Created
  <2>2. UNCHANGED <<root, left, right, parent, balance, lower, upper, recorded>>
    BY <2>1 DEF tree, pointers, halves
  <2>3. DataOK'
    BY <2>1, <2>2, <1>1 DEF DataOK, FormulaOK
  <2>4. TreeFits'
    <3>1. PICK sub, g, home, lo, hi : Fits(sub, g, home, lo, hi)
      BY DEF Invariant, TreeInv, TreeFits
    <3>2. Nodes' = Nodes /\ Placed' = Placed /\ Grown' = Grown
      BY <2>1, <2>2, <1>1 DEF Nodes, Placed, Grown
    <3>3. TreeShape(sub)' /\ TreeHeights(g)' /\ EntriesFit(sub, home, lo, hi)'
      BY <3>1, <3>2, <2>1, <2>2 DEF Fits, TreeShape, TreeHeights, EntriesFit, BoundsFit
    <3>4. CallOK(sub)'
      BY <2>1 DEF CallOK
    <3> QED BY <3>3, <3>4 DEF TreeFits, Fits
  <2>5. InTree(Len(P))'
    <3>1. PICK n \in Nat : InTree(n) /\ LeftToInsert(n)
      BY <1>1 DEF Invariant, PlanInv
    <3>2. n = Len(P)
      BY <3>1, <2>1, <1>2 DEF LeftToInsert
    <3>3. InTree(Len(P))
      BY <3>1, <3>2
    <3> QED BY <3>3, <2>1, <2>2 DEF InTree
  <2>6. P = Positions(SizeOf(clauses))'
    BY <2>1, <1>2
  <2> QED BY <2>1, <2>3, <2>4, <2>5, <2>6 DEF Invariant, TreeInv, PlanInv
<1> QED BY <1>3, <1>4

\* What the formula loses keeps the invariant.
LEMMA FormulaShrinksKeeps ==
  ASSUME Invariant, phase = "Idle", FormulaOK',
         DOMAIN clauses' \subseteq DOMAIN clauses, \A i \in DOMAIN clauses' : clauses'[i] \subseteq clauses[i],
         outcome' = "None", UNCHANGED <<tree, call, plan>>
  PROVE  Invariant'
<1>1. UNCHANGED <<root, left, right, parent, balance, lower, upper, recorded, phase, inserted, at, plan>>
  BY DEF tree, pointers, halves, call
<1>2. DataOK'
  BY <1>1 DEF Invariant, TreeInv, DataOK
<1>3. TreeFits'
  <2>1. PICK sub, g, home, lo, hi : Fits(sub, g, home, lo, hi)
    BY DEF Invariant, TreeInv, TreeFits
  <2>2. Nodes' = Nodes /\ Placed' = Placed /\ Grown' = Grown
    BY <1>1 DEF Nodes, Placed, Grown
  <2>3. TreeShape(sub)' /\ TreeHeights(g)'
    BY <2>1, <2>2, <1>1 DEF Fits, TreeShape, TreeHeights
  <2>4. BoundsFit(Placed, lo, hi)'
    BY <2>1, <2>2 DEF Fits, EntriesFit, BoundsFit
  <2>5. EntriesFit(sub, home, lo, hi)'
    BY <2>1, <2>2, <2>4, <1>1 DEF Fits, EntriesFit
  <2>6. CallOK(sub)'
    BY <1>1 DEF CallOK
  <2> QED BY <2>3, <2>5, <2>6 DEF TreeFits, Fits
<1> QED BY <1>1, <1>2, <1>3 DEF Invariant, TreeInv, PlanInv

\* Each step keeps the invariant.
LEMMA InvariantIsInductive == Invariant /\ [TreeNext]_vars => Invariant'
<1> SUFFICES ASSUME Invariant, [TreeNext]_vars PROVE Invariant'
  OBVIOUS
<1>1. ASSUME NEW i \in ClauseIds, InsertClause(i) PROVE Invariant'
  BY <1>1, InsertClauseKeeps
<1>2. CASE CreateFromCnfFormula
  BY <1>2, CreateKeeps
<1>3. CASE MidCall
  BY <1>3, MidCallKeeps, MidCallFits DEF Invariant, TreeInv
<1>4. CASE InsertNext
  BY <1>4, InsertNextKeeps
<1>5. CASE PositionOutOfRange \/ ClauseRefused \/ Created
  BY <1>5, CreationEndsKeeps
<1>6. ASSUME NEW i \in Removable, RemoveClause(i) PROVE Invariant'
  <2>1. /\ phase = "Idle" /\ clauses' = [j \in DOMAIN clauses \ {i} |-> clauses[j]]
        /\ outcome' = "None" /\ UNCHANGED <<tree, call, plan>>
    BY <1>6 DEF RemoveClause
  <2>2. FormulaOK'
    BY <2>1 DEF Invariant, TreeInv, DataOK, FormulaOK
  <2> QED BY <2>1, <2>2, FormulaShrinksKeeps
<1>7. ASSUME NEW l \in Erasable, RemoveLiteralFromClauses(l) PROVE Invariant'
  <2>1. /\ phase = "Idle" /\ clauses' = [i \in DOMAIN clauses |-> clauses[i] \ {l}]
        /\ outcome' = "None" /\ UNCHANGED <<tree, call, plan>>
    BY <1>7 DEF RemoveLiteralFromClauses
  <2>2. FormulaOK'
    <3>1. \A i \in DOMAIN clauses : IsFiniteSet(clauses[i] \ {l})
      BY FS_RemoveElement DEF Invariant, TreeInv, DataOK, FormulaOK
    <3> QED BY <3>1, <2>1 DEF Invariant, TreeInv, DataOK, FormulaOK
  <2> QED BY <2>1, <2>2, FormulaShrinksKeeps
<1>8. CASE UNCHANGED vars
  <2>1. UNCHANGED <<clauses, root, left, right, parent, balance, lower, upper, recorded, phase, inserted, at, plan, outcome>>
    BY <1>8 DEF vars, tree, pointers, halves, call
  <2>2. Nodes' = Nodes /\ Placed' = Placed /\ Grown' = Grown
    BY <2>1 DEF Nodes, Placed, Grown
  <2>3. DataOK'
    BY <2>1 DEF Invariant, TreeInv, DataOK, FormulaOK, HasLiterals
  <2>4. PlanInv'
    BY <2>1, <2>2 DEF Invariant, PlanInv, InTree, LeftToInsert
  <2>5. TreeFits'
    <3>1. PICK sub, g, home, lo, hi : Fits(sub, g, home, lo, hi)
      BY DEF Invariant, TreeInv, TreeFits
    <3>2. TreeShape(sub)' /\ TreeHeights(g)' /\ EntriesFit(sub, home, lo, hi)'
      BY <3>1, <2>1, <2>2 DEF Fits, TreeShape, TreeHeights, EntriesFit, BoundsFit
    <3>3. CallOK(sub)'
      BY <3>1, <2>1, <2>2 DEF Fits, CallOK, Midpoint, Encloses, Smallest, Largest
    <3> QED BY <3>2, <3>3 DEF TreeFits, Fits
  <2> QED BY <2>3, <2>4, <2>5 DEF Invariant, TreeInv
<1> QED BY <1>1, <1>2, <1>3, <1>4, <1>5, <1>6, <1>7, <1>8 DEF TreeNext, TreeStep, MidCall

\* The invariant: the tree is a search tree whose balancing factors are right up to the
\* node that has grown, the halves hold each clause once, at the highest node it spans,
\* and the creation of a tree is as far as its plan says.
THEOREM InvariantHolds == TreeSpec => []Invariant
<1>1. TreeInit => Invariant
  BY InitFits, InitPlan DEF Invariant
<1>2. QED
  BY <1>1, InvariantIsInductive, PTL DEF TreeSpec
-----------------------------------------------------------------------------
(* Created trees.                                                          *)

\* Images of a part of S are all of a set of the same size only if the part is all of S.
LEMMA AllWhenAsMany ==
  ASSUME NEW S, IsFiniteSet(S), NEW D, IsFiniteSet(D), Cardinality(S) = Cardinality(D),
         NEW c, DOMAIN c = S, \A u, w \in S : c[u] = c[w] => u = w,
         NEW V, V \subseteq S, \A v \in V : c[v] \in D, NEW image,
         \A x : x \in image <=> \E v \in V : x = c[v]
  PROVE  D = image <=> V = S
<1>2. IsFiniteSet(V) /\ Cardinality(V) <= Cardinality(S) /\ (Cardinality(S) = Cardinality(V) => S = V)
      /\ Cardinality(V) \in Nat /\ Cardinality(S) \in Nat
  <2>1. V \in SUBSET S
    OBVIOUS
  <2>2. IsFiniteSet(V) /\ Cardinality(V) <= Cardinality(S) /\ (Cardinality(S) = Cardinality(V) => S = V)
    BY <2>1, FS_Subset
  <2> QED BY <2>2, FS_CardinalityType
<1>3. PICK part : part = [v \in V |-> c[v]]
  OBVIOUS
<1>4. part \in [V -> D]
  BY <1>3
<1>5. ASSUME D = image PROVE V = S
  <2>1. part \in Surjection(V, D)
    BY <1>3, <1>4, <1>5 DEF Surjection
  <2>2. Cardinality(D) <= Cardinality(V)
    BY <1>2, <2>1, FS_Surjection
  <2> QED BY <2>2, <1>2
<1>6. ASSUME V = S PROVE D = image
  <2>1. part \in Injection(V, D)
    BY <1>3, <1>4 DEF Injection, IsInjective
  <2>2. part \in Surjection(V, D)
    BY <2>1, <1>6, FS_Injection
  <2> QED BY <2>2, <1>3 DEF Surjection
<1> QED BY <1>5, <1>6

\* A created tree holds the clauses of the order, all clauses for 2, 3, 4k or 4k + 1.
LEMMA CreatedKnowsClauses ==
  ASSUME DataOK, PlanInv, outcome = "Created"
  PROVE  /\ Creation(clauses) = "Created" /\ recorded = Inserted(clauses)
         /\ recorded = DOMAIN clauses <=> (SizeOf(clauses) \in {2, 3} \/ SizeOf(clauses) % 4 \in {0, 1})
<1>1. PICK P : P = Positions(SizeOf(clauses))
  OBVIOUS
<1>2. PICK m : m = SizeOf(clauses) /\ m \in 0 .. SizeMax /\ m \in Nat /\ IsFiniteSet(DOMAIN clauses)
               /\ Cardinality(DOMAIN clauses) = m
  BY SizeOfFormula, TreeAssumption DEF DataOK, SizeOf
<1>3. P \in Seq(0 .. SizeMax)
  BY <1>1, <1>2, PositionsAreSizes
<1>4. InTree(Len(P))
  BY <1>1 DEF PlanInv
<1>5. PICK k : k = Len(P) /\ k \in Nat /\ DOMAIN P = 1 .. k /\ \A q \in 1 .. k : P[q] \in 0 .. SizeMax
  BY <1>3, SequenceIsFunction
<1>6. /\ ~SortingThrows(clauses) /\ recorded = {ClauseAt(clauses, P[q]) : q \in 1 .. k}
      /\ \A q \in 1 .. k : ~OutOfRange(clauses, P[q]) /\ Insertable(clauses, P[q])
  BY <1>1, <1>4, <1>5 DEF InTree
<1>7. Creation(clauses) = "Created"
  <2>1. \A q \in 1 .. Len(P) : ~OutOfRange(clauses, P[q]) /\ Insertable(clauses, P[q])
    BY <1>5, <1>6
  <2> QED BY <2>1, <1>1, <1>3, <1>6, CreationCompletes
<1>8. recorded = Inserted(clauses)
  <2>1. Inserted(clauses) = {ClauseAt(clauses, p) : p \in ToSet(P)}
    BY <1>1 DEF Inserted
  <2>2. ToSet(P) = {P[q] : q \in 1 .. k}
    BY <1>5 DEF ToSet
  <2> QED BY <2>1, <2>2, <1>6
<1>9. \A q \in 1 .. k : P[q] \in 0 .. m - 1
  <2> SUFFICES ASSUME NEW q \in 1 .. k PROVE P[q] \in 0 .. m - 1
    OBVIOUS
  <2>1. P[q] \in 0 .. SizeMax /\ ~(P[q] >= m)
    BY <1>2, <1>5, <1>6 DEF OutOfRange
  <2> QED BY <2>1, <1>2, TreeAssumption
<1>10. m >= 2
  <2> SUFFICES ASSUME m < 2 PROVE FALSE
    BY <1>2
  <2>1. PICK a \in DOMAIN P : P[a] >= m
    BY <1>1, <1>2, PositionsAreSizes
  <2>2. P[a] \in 0 .. m - 1
    BY <1>5, <1>9
  <2> QED BY <2>1, <2>2, <1>2
<1>11. PICK S : S = 0 .. m - 1
  OBVIOUS
<1>12. PICK V : V = {P[q] : q \in 1 .. k}
  OBVIOUS
<1>13. PICK c : c = [p \in S |-> ClauseAt(clauses, p)]
  OBVIOUS
<1>14. SortableFormula(clauses)
  BY <1>2, <1>6, <1>10, ClausesToSort DEF DataOK
<1>15. \A u, w \in S : c[u] = c[w] => u = w
  <2>1. \A u, w \in 0 .. m - 1 : ClauseAt(clauses, u) = ClauseAt(clauses, w) => u = w
    <3>1. \A u, w \in 0 .. SizeOf(clauses) - 1 : ClauseAt(clauses, u) = ClauseAt(clauses, w) => u = w
      BY <1>14, ClausesHaveTheirPositions
    <3> QED BY <3>1, <1>2
  <2> QED BY <2>1, <1>11, <1>13
<1>16. V \subseteq S
  BY <1>9, <1>11, <1>12
<1>17. \A v \in V : c[v] \in DOMAIN clauses
  <2>1. \A q \in 1 .. k : ClauseAt(clauses, P[q]) \in DOMAIN clauses
    BY <1>6 DEF Insertable
  <2> QED BY <2>1, <1>12, <1>13, <1>16
<1>18. recorded = {c[v] : v \in V}
  <2>1. \A q \in 1 .. k : P[q] \in S /\ c[P[q]] = ClauseAt(clauses, P[q])
    BY <1>12, <1>13, <1>16
  <2> QED BY <2>1, <1>6, <1>12
<1>19. recorded = DOMAIN clauses <=> V = S
  <2>1. DOMAIN c = S
    BY <1>13
  <2>2. PICK D : D = DOMAIN clauses
    OBVIOUS
  <2>3. IsFiniteSet(D) /\ IsFiniteSet(S) /\ Cardinality(S) = Cardinality(D)
    BY <1>2, <1>11, <2>2, FS_Interval
  <2>4. \A v \in V : c[v] \in D
    BY <1>17, <2>2
  <2>6. \A x : x \in recorded <=> \E v \in V : x = c[v]
    BY <1>18
  <2>5. D = recorded <=> V = S
    BY <2>1, <2>3, <2>4, <1>15, <1>16, <2>6, AllWhenAsMany
  <2> QED BY <2>2, <2>5
<1>20. V = S <=> (m \in {2, 3} \/ m % 4 \in {0, 1})
  <2>1. (\A v \in 0 .. m - 1 : \E a \in DOMAIN P : P[a] = v) <=> (m \in {2, 3} \/ m % 4 \in {0, 1})
    <3>1. m \in Nat /\ m >= 2 /\ P = Positions(m)
      BY <1>1, <1>2, <1>10
    <3> QED BY <3>1, OrderOfManyClauses
  <2>2. V = S <=> \A v \in S : \E a \in DOMAIN P : P[a] = v
    BY <1>5, <1>12, <1>16
  <2> QED BY <2>1, <2>2, <1>11
<1> QED BY <1>2, <1>7, <1>8, <1>19, <1>20

\* createFromCnfFormula leaves a tree with exactly the clauses of the insertion order,
\* for every formula: all clauses if there are 2, 3, 4k or 4k + 1 of them, and else
\* fewer; or it leaves no tree, when the order asks for a position out of range, an
\* empty clause or one without an index.
THEOREM CreatedTreeHoldsPlanAlways == TreeSpec => []CreatedTreeHoldsPlan
<1>1. Invariant => CreatedTreeHoldsPlan
  <2> SUFFICES ASSUME Invariant PROVE CreatedTreeHoldsPlan
    OBVIOUS
  <2>1. DataOK /\ PlanInv
    BY DEF Invariant, TreeInv
  <2>2. outcome \in {"Failed", "Threw"} => Creation(clauses) = outcome /\ Nodes = {}
    BY <2>1 DEF PlanInv
  <2> QED BY <2>1, <2>2, CreatedKnowsClauses DEF CreatedTreeHoldsPlan
<1> QED BY <1>1, InvariantHolds, PTL
-----------------------------------------------------------------------------
(* Types and halves.                                                       *)

\* The invariant implies the type invariant.
LEMMA TypesHold == Invariant => TreeTypeOK
<1> SUFFICES ASSUME Invariant PROVE TreeTypeOK
  OBVIOUS
<1>1. DataOK
  BY DEF Invariant, TreeInv
<1>2. PICK sub, g, home, lo, hi : Fits(sub, g, home, lo, hi)
  BY DEF Invariant, TreeInv, TreeFits
<1>3. /\ left \in [Nodes -> Nodes \cup {Null}] /\ right \in [Nodes -> Nodes \cup {Null}]
      /\ parent \in [Nodes -> Nodes \cup {Null}]
  BY <1>2 DEF Fits, TreeShape, Shape, LinksOK
<1>4. root \in Nodes \cup {Null}
  BY <1>2 DEF Fits, TreeShape, Rooted
<1>5. balance \in [Nodes -> {-1, 0, 1}]
  BY <1>2 DEF Fits, TreeHeights, HeightsFit
<1>6. phase \in {"Descend", "Rebalance"} => at \in Nodes
  BY <1>2 DEF Fits, CallOK
<1>7. /\ lower = Half(Nodes, Placed, home, lo) /\ upper = Half(Nodes, Placed, home, hi)
      /\ \A i \in Placed : i \in ClauseIds /\ lo[i] \in Literals /\ hi[i] \in Literals
  BY <1>1, <1>2 DEF Fits, EntriesFit, BoundsFit, Placed, DataOK
<1>8. ASSUME NEW bound, \A i \in Placed : bound[i] \in Literals
      PROVE  Half(Nodes, Placed, home, bound) \in [Nodes -> SUBSET (ClauseIds \X Literals)]
  <2> SUFFICES ASSUME NEW k \in Nodes
               PROVE  {<<i, bound[i]>> : i \in {i \in Placed : home[i] = k}} \in SUBSET (ClauseIds \X Literals)
    BY DEF Half
  <2> QED BY <1>7, <1>8
<1>9. lower \in [Nodes -> SUBSET (ClauseIds \X Literals)] /\ upper \in [Nodes -> SUBSET (ClauseIds \X Literals)]
  BY <1>7, <1>8
<1>10. \A links \in {left, right, parent} : links \in [Nodes -> Nodes \cup {Null}]
  BY <1>3
<1>11. \A half \in {lower, upper} : half \in [Nodes -> SUBSET (ClauseIds \X Literals)]
  BY <1>9
<1> QED BY <1>1, <1>4, <1>5, <1>6, <1>10, <1>11 DEF TreeTypeOK, DataOK, FormulaOK

\* The tree has its types: pointers lead to nodes, balancing factors are -1, 0 or 1
\* whatever the loop back adds to them, and an active call stands at a node.
THEOREM TreeTypesHold == TreeSpec => []TreeTypeOK
BY TypesHold, InvariantHolds, PTL

\* A half has one entry of a clause, at its home.
LEMMA EntriesWithClause ==
  ASSUME NEW N, NEW D, NEW home, NEW bound, NEW k \in N, NEW i
  PROVE  EntriesWith(Half(N, D, home, bound)[k], i) = IF i \in D /\ home[i] = k THEN {<<i, bound[i]>>} ELSE {}
<1>1. \A e \in Half(N, D, home, bound)[k] : e[1] \in D /\ home[e[1]] = k /\ e[2] = bound[e[1]] /\ e = <<e[1], e[2]>>
  BY EntryOfHalf
<1>2. CASE i \in D /\ home[i] = k
  <2>1. <<i, bound[i]>> \in Half(N, D, home, bound)[k]
    BY <1>2, EntryOfHalf
  <2>2. \A e \in EntriesWith(Half(N, D, home, bound)[k], i) : e = <<i, bound[i]>>
    BY <1>1 DEF EntriesWith
  <2>3. <<i, bound[i]>> \in EntriesWith(Half(N, D, home, bound)[k], i)
    BY <2>1 DEF EntriesWith
  <2> QED BY <2>2, <2>3, <1>2
<1>3. CASE ~(i \in D /\ home[i] = k)
  BY <1>1, <1>3 DEF EntriesWith
<1> QED BY <1>2, <1>3

\* How many elements no and one element are.
LEMMA OneEntry ==
  /\ Cardinality({}) = 0
  /\ \A x : Cardinality({x}) = 1
BY FS_EmptySet, FS_Singleton

\* The invariant implies that the halves are in step.
LEMMA HalvesAgree == Invariant => HalvesInStep
<1> SUFFICES ASSUME Invariant PROVE HalvesInStep
  OBVIOUS
<1>2. PICK sub, g, home, lo, hi : Fits(sub, g, home, lo, hi)
  BY DEF Invariant, TreeInv, TreeFits
<1>3. /\ lower = Half(Nodes, Placed, home, lo) /\ upper = Half(Nodes, Placed, home, hi)
      /\ home \in [Placed -> Nodes] /\ \A i \in Placed : lo[i] <= home[i] /\ home[i] <= hi[i]
  BY <1>2 DEF Fits, EntriesFit, Housed
<1>4. \A k \in Nodes : \A i : EntriesWith(lower[k], i) = IF i \in Placed /\ home[i] = k THEN {<<i, lo[i]>>} ELSE {}
  BY <1>3, EntriesWithClause
<1>5. \A k \in Nodes : \A i : EntriesWith(upper[k], i) = IF i \in Placed /\ home[i] = k THEN {<<i, hi[i]>>} ELSE {}
  BY <1>3, EntriesWithClause
<1>6. ASSUME NEW k \in Nodes, NEW i \in recorded
      PROVE  /\ \A e \in EntriesWith(lower[k], i), f \in EntriesWith(upper[k], i) : e[2] <= k /\ k <= f[2]
             /\ Cardinality(EntriesWith(lower[k], i)) = Cardinality(EntriesWith(upper[k], i))
             /\ Cardinality(EntriesWith(lower[k], i)) <= 1
  <2>1. CASE i \in Placed /\ home[i] = k
    <3>1. EntriesWith(lower[k], i) = {<<i, lo[i]>>} /\ EntriesWith(upper[k], i) = {<<i, hi[i]>>}
      BY <2>1, <1>4, <1>5
    <3>2. lo[i] <= k /\ k <= hi[i]
      BY <2>1, <1>3
    <3>3. \A e \in EntriesWith(lower[k], i), f \in EntriesWith(upper[k], i) : e[2] <= k /\ k <= f[2]
      BY <3>1, <3>2
    <3>4. Cardinality(EntriesWith(lower[k], i)) = 1 /\ Cardinality(EntriesWith(upper[k], i)) = 1
      BY <3>1, OneEntry
    <3> QED BY <3>3, <3>4
  <2>2. CASE ~(i \in Placed /\ home[i] = k)
    <3>1. EntriesWith(lower[k], i) = {} /\ EntriesWith(upper[k], i) = {}
      BY <2>2, <1>4, <1>5
    <3>2. Cardinality(EntriesWith(lower[k], i)) = 0 /\ Cardinality(EntriesWith(upper[k], i)) = 0
      BY <3>1, OneEntry
    <3> QED BY <3>1, <3>2
  <2> QED BY <2>1, <2>2
<1>7. ASSUME phase \in {"Idle", "Build"}, NEW i \in recorded
      PROVE  Cardinality({k \in Nodes : EntriesWith(lower[k], i) # {}}) = 1
  <2>1. i \in Placed /\ home[i] \in Nodes
    BY <1>3, <1>7 DEF Placed
  <2>2. {k \in Nodes : EntriesWith(lower[k], i) # {}} = {home[i]}
    BY <1>4, <2>1
  <2> QED BY <2>2, OneEntry
<1> QED BY <1>6, <1>7 DEF HalvesInStep

\* Whatever moves between nodes, the two halves of a node hold the same clauses, each
\* once and around the key, and between two calls each clause that was inserted is in
\* exactly one node.
THEOREM HalvesStayInStep == TreeSpec => []HalvesInStep
BY HalvesAgree, InvariantHolds, PTL
-----------------------------------------------------------------------------
(* Walks through the tree: the recursive functions of Ancestors and        *)
(* Visited.                                                                *)

\* What holds at 0 and is passed on by each step holds up to C.
LEMMA StepByStep ==
  ASSUME NEW C \in Nat, NEW S, 0 \in S, \A n \in 0 .. C : n < C /\ n \in S => n + 1 \in S
  PROVE  \A n \in 0 .. C : n \in S
<1> SUFFICES ASSUME \E n \in 0 .. C : n \notin S PROVE FALSE
  OBVIOUS
<1>1. PICK Bad : Bad = {n \in Nat : n <= C /\ n \notin S}
  OBVIOUS
<1>2. Bad \in SUBSET Nat /\ Bad # {}
  BY <1>1
<1>3. PICK m \in Bad : \A k \in Bad : m <= k
  BY <1>2, LeastNatural
<1>4. m \in Nat /\ m <= C /\ m \notin S /\ m # 0
  BY <1>1, <1>3
<1>5. m - 1 \in Nat /\ m - 1 \in 0 .. C /\ m - 1 < C /\ (m - 1) + 1 = m /\ ~(m <= m - 1)
  BY <1>4
<1>6. m - 1 \in S
  BY <1>1, <1>3, <1>5
<1> QED BY <1>4, <1>5, <1>6

\* A walk of C steps from s.
Walks(next, s, C, w) ==
  /\ DOMAIN w = 0 .. C /\ w[0] = s
  /\ \A n \in 0 .. C : n < C => w[n + 1] = next[w[n]]

\* The function that repeats a step, as recursive functions are defined.
StepsFrom(next, s, C, w) ==
  /\ w = [n \in 0 .. C |-> w[n]]
  /\ \A n \in 0 .. C : w[n] = IF n = 0 THEN s ELSE next[w[n - 1]]

\* A step can be repeated C times.
LEMMA WalkExists ==
  ASSUME NEW X, NEW next \in [X -> X], NEW s \in X, NEW C \in Nat
  PROVE  \E w : StepsFrom(next, s, C, w)
<1> DEFINE Walk(c, w) == w = [n \in 0 .. c |-> IF n = 0 THEN s ELSE next[w[n - 1]]]
<1>1. PICK S : S = {c \in Nat : \E w : Walk(c, w)}
  OBVIOUS
<1>2. 0 \in S
  <2>1. PICK w : w = [n \in 0 .. 0 |-> s]
    OBVIOUS
  <2>2. \A n \in 0 .. 0 : n = 0
    OBVIOUS
  <2>3. Walk(0, w)
    BY <2>1, <2>2
  <2> QED BY <2>3, <1>1
<1>3. ASSUME NEW c \in 0 .. C, c < C, c \in S PROVE c + 1 \in S
  <2>1. PICK w : Walk(c, w)
    BY <1>1, <1>3
  <2>2. PICK v : v = [n \in 0 .. c + 1 |-> IF n = c + 1 THEN next[w[c]] ELSE w[n]]
    OBVIOUS
  <2>3. \A n \in 0 .. c : v[n] = w[n]
    BY <2>2
  <2>4. \A n \in 0 .. c : w[n] = IF n = 0 THEN s ELSE next[w[n - 1]]
    BY <2>1
  <2>5. \A n \in 0 .. c + 1 : n = c + 1 \/ n \in 0 .. c
    OBVIOUS
  <2>6. \A n \in 0 .. c : n # 0 => n - 1 \in 0 .. c
    OBVIOUS
  <2>7. \A n \in 0 .. c + 1 : v[n] = IF n = 0 THEN s ELSE next[v[n - 1]]
    <3> SUFFICES ASSUME NEW n \in 0 .. c + 1 PROVE v[n] = IF n = 0 THEN s ELSE next[v[n - 1]]
      OBVIOUS
    <3>1. CASE n = c + 1
      <4>1. n # 0 /\ n - 1 = c /\ c \in 0 .. c
        BY <3>1
      <4> QED BY <3>1, <4>1, <2>2, <2>3
    <3>2. CASE n \in 0 .. c
      BY <3>2, <2>3, <2>4, <2>6
    <3> QED BY <3>1, <3>2, <2>5
  <2>8. Walk(c + 1, v)
    BY <2>2, <2>7
  <2> QED BY <2>8, <1>1
<1>4. C \in S
  BY <1>2, <1>3, StepByStep
<1>5. PICK w : Walk(C, w)
  BY <1>1, <1>4
<1>6. w = [n \in 0 .. C |-> w[n]] /\ \A n \in 0 .. C : w[n] = IF n = 0 THEN s ELSE next[w[n - 1]]
  BY <1>5
<1> QED BY <1>6 DEF StepsFrom

\* A walk does not leave where its steps stay.
LEMMA WalkStays ==
  ASSUME NEW X, NEW next, NEW s \in X, NEW C \in Nat, NEW w, w[0] = s,
         \A x \in X : next[x] \in X,
         \A n \in 0 .. C : n < C /\ w[n] \in X => w[n + 1] = next[w[n]]
  PROVE  \A n \in 0 .. C : w[n] \in X
<1>1. PICK S : S = {n \in 0 .. C : w[n] \in X}
  OBVIOUS
<1>2. 0 \in S
  BY <1>1
<1>3. \A n \in 0 .. C : n < C /\ n \in S => n + 1 \in S
  BY <1>1
<1>4. \A n \in 0 .. C : n \in S
  BY <1>2, <1>3, StepByStep
<1> QED BY <1>1, <1>4

\* The node above a node, or nullptr.
Above == [x \in Nodes \cup {Null} |-> IF x = Null THEN Null ELSE parent[x]]

\* Ancestors are the nodes of a walk from parent to parent.
LEMMA AncestorsAreWalked ==
  ASSUME LinksAreFunctions, NEW C, C = Cardinality(Nodes), C \in Nat, NEW k \in Nodes
  PROVE  \E w : /\ Walks(Above, k, C, w) /\ \A n \in 0 .. C : w[n] \in Nodes \cup {Null}
                /\ Ancestors(k) = {w[n] : n \in 0 .. C} \ {Null}
<1> DEFINE Up(up) == up = [n \in 0 .. Cardinality(Nodes) |->
                             IF n = 0 THEN k ELSE IF up[n - 1] = Null THEN Null ELSE parent[up[n - 1]]]
           chosen == CHOOSE up : Up(up)
<1>1. Ancestors(k) = {chosen[n] : n \in 0 .. Cardinality(Nodes)} \ {Null}
  BY DEF Ancestors
<1>2. \A x \in Nodes \cup {Null} : /\ Above[x] = IF x = Null THEN Null ELSE parent[x]
                                   /\ Above[x] \in Nodes \cup {Null}
  BY DEF Above, LinksAreFunctions
<1>3. \E up : Up(up)
  <2>0. PICK Y : Y = Nodes \cup {Null} /\ k \in Y /\ Above \in [Y -> Y]
    BY <1>2 DEF Above
  <2>1. PICK w : StepsFrom(Above, k, C, w)
    BY <2>0, WalkExists
  <2>2. \A n \in 0 .. C : w[n] = IF n = 0 THEN k ELSE Above[w[n - 1]]
    BY <2>1 DEF StepsFrom
  <2>3. \A n \in 0 .. C : n < C => w[n + 1] = Above[w[n]]
    <3>1. \A n \in 0 .. C : n < C => n + 1 \in 0 .. C /\ n + 1 # 0 /\ (n + 1) - 1 = n
      OBVIOUS
    <3> QED BY <3>1, <2>2
  <2>4. w[0] = k
    BY <2>2
  <2>5. \A n \in 0 .. C : w[n] \in Nodes \cup {Null}
    <3>1. PICK X : X = Nodes \cup {Null}
      OBVIOUS
    <3>2. k \in X /\ (\A x \in X : Above[x] \in X)
      BY <3>1, <1>2
    <3>3. \A n \in 0 .. C : w[n] \in X
      BY <3>2, <2>3, <2>4, WalkStays
    <3> QED BY <3>1, <3>3
  <2>6. \A n \in 0 .. C : n # 0 => n - 1 \in 0 .. C
    OBVIOUS
  <2>7. \A n \in 0 .. C : w[n] = IF n = 0 THEN k ELSE IF w[n - 1] = Null THEN Null ELSE parent[w[n - 1]]
    BY <2>2, <2>5, <2>6, <1>2
  <2>9. w = [n \in 0 .. C |-> w[n]]
    BY <2>1 DEF StepsFrom
  <2>10. w = [n \in 0 .. C |-> IF n = 0 THEN k ELSE IF w[n - 1] = Null THEN Null ELSE parent[w[n - 1]]]
    BY <2>7, <2>9
  <2>11. Up(w)
    BY <2>10
  <2> QED BY <2>11
<1>4. Up(chosen)
  <2> HIDE DEF Up
  <2> QED BY <1>3
<1>5. PICK w : w = chosen
  OBVIOUS
<1>6. w = [n \in 0 .. C |-> IF n = 0 THEN k ELSE IF w[n - 1] = Null THEN Null ELSE parent[w[n - 1]]]
  BY <1>4, <1>5
<1>7. DOMAIN w = 0 .. C /\ 0 \in 0 .. C
      /\ \A n \in 0 .. C : w[n] = IF n = 0 THEN k ELSE IF w[n - 1] = Null THEN Null ELSE parent[w[n - 1]]
  BY <1>6
<1> HIDE DEF Up, chosen
<1>8. \A n \in 0 .. C : n < C => w[n + 1] = IF w[n] = Null THEN Null ELSE parent[w[n]]
  <2>1. \A n \in 0 .. C : n < C => n + 1 \in 0 .. C /\ n + 1 # 0 /\ (n + 1) - 1 = n
    OBVIOUS
  <2> QED BY <2>1, <1>7
<1>9. w[0] = k
  BY <1>7
<1>10. PICK X : X = Nodes \cup {Null}
  OBVIOUS
<1>11. \A n \in 0 .. C : w[n] \in X
  <2>1. k \in X /\ (\A x \in X : Above[x] \in X)
    BY <1>10, <1>2
  <2>2. \A n \in 0 .. C : n < C /\ w[n] \in X => w[n + 1] = Above[w[n]]
    BY <1>8, <1>10, <1>2
  <2> QED BY <2>1, <2>2, <1>9, WalkStays
<1>12. Walks(Above, k, C, w)
  BY <1>2, <1>7, <1>8, <1>9, <1>10, <1>11 DEF Walks
<1>13. Ancestors(k) = {w[n] : n \in 0 .. C} \ {Null}
  BY <1>1, <1>5
<1> QED BY <1>10, <1>11, <1>12, <1>13

\* What the shape says of going up.
LEMMA GoingUp ==
  ASSUME NEW N, NEW R, NEW l, NEW r, NEW up, NEW rt, NEW sub,
         Shape(N, R, l, r, up, sub), Rooted(N, up, rt, sub)
  PROVE  /\ \A k \in N : sub[k] \subseteq N /\ k \in sub[k]
         /\ \A k \in N : up[k] \in N \cup {Null}
         /\ \A k \in N : up[k] # Null => up[k] \in N /\ sub[k] \subseteq sub[up[k]] /\ up[k] \notin sub[k]
         /\ \A j \in N : \A d \in sub[j] : d # j => up[d] \in sub[j]
         /\ Null \notin N
         /\ \A k \in N : rt \in N /\ k \in sub[rt] /\ (up[k] = Null <=> k = rt)
<1>1. /\ Null \notin N
      /\ \A k \in N : up[k] \in N \cup {Null}
      /\ \A k \in N : up[k] # Null => l[up[k]] = k \/ r[up[k]] = k
      /\ sub \in [N -> SUBSET N]
      /\ \A k \in N : sub[k] = {k} \cup Below(sub, l[k]) \cup Below(sub, r[k])
      /\ \A j \in N : \A d \in sub[j] : d # j => up[d] \in sub[j]
      /\ \A k \in N : \A d \in Below(sub, l[k]) : <<d, k>> \in R
      /\ \A k \in N : \A d \in Below(sub, r[k]) : <<k, d>> \in R
      /\ \A k \in N : <<k, k>> \notin R
  BY DEF Shape, LinksOK, SubtreesOK, SearchOK, StrictOrderOn
<1>2. \A k \in N : sub[k] \subseteq N /\ k \in sub[k]
  BY <1>1
<1>3. ASSUME NEW k \in N, up[k] # Null
      PROVE  up[k] \in N /\ sub[k] \subseteq sub[up[k]] /\ up[k] \notin sub[k]
  <2>1. PICK p \in N : p = up[k]
    BY <1>1, <1>3
  <2>2. l[p] = k \/ r[p] = k
    BY <1>1, <1>3, <2>1
  <2>3. Below(sub, k) = sub[k]
    BY <1>1 DEF Below
  <2>4. sub[k] \subseteq sub[p]
    BY <1>1, <2>2, <2>3
  <2>5. p \notin sub[k]
    <3>1. CASE l[p] = k
      <4>1. \A d \in Below(sub, l[p]) : <<d, p>> \in R
        BY <1>1, <2>1
      <4>2. \A d \in sub[k] : <<d, p>> \in R
        BY <4>1, <2>3, <3>1
      <4> QED BY <4>2, <1>1, <2>1
    <3>2. CASE r[p] = k
      <4>1. \A d \in Below(sub, r[p]) : <<p, d>> \in R
        BY <1>1, <2>1
      <4>2. \A d \in sub[k] : <<p, d>> \in R
        BY <4>1, <2>3, <3>2
      <4> QED BY <4>2, <1>1, <2>1
    <3> QED BY <2>2, <3>1, <3>2
  <2> QED BY <2>1, <2>4, <2>5
<1>4. ASSUME NEW k \in N PROVE rt \in N /\ k \in sub[rt] /\ (up[k] = Null <=> k = rt)
  <2>1. rt \in N /\ up[rt] = Null /\ sub[rt] = N
    BY DEF Rooted
  <2>2. k # rt => up[k] \in N
    BY <1>1, <2>1
  <2> QED BY <1>1, <2>1, <2>2
<1> QED BY <1>1, <1>2, <1>3, <1>4

\* The ancestors of a node are the nodes whose subtree it is in.
LEMMA AncestorsAre ==
  ASSUME NEW sub, TreeShape(sub), NEW k \in Nodes
  PROVE  Ancestors(k) = {j \in Nodes : k \in sub[j]}
<1>1. Shape(Nodes, Less, left, right, parent, sub) /\ Rooted(Nodes, parent, root, sub)
  BY DEF TreeShape
<1>2. /\ \A x \in Nodes : sub[x] \subseteq Nodes /\ x \in sub[x]
      /\ \A x \in Nodes : parent[x] \in Nodes \cup {Null}
      /\ \A x \in Nodes : parent[x] # Null => parent[x] \in Nodes /\ sub[x] \subseteq sub[parent[x]] /\ parent[x] \notin sub[x]
      /\ \A j \in Nodes : \A d \in sub[j] : d # j => parent[d] \in sub[j]
      /\ Null \notin Nodes
  BY <1>1, GoingUp
<1>3. PICK C \in Nat : C = Cardinality(Nodes)
  BY FS_CardinalityType DEF TreeShape
<1>4. LinksAreFunctions
  BY <1>1 DEF Shape, LinksOK, LinksAreFunctions
<1>5. PICK w : /\ Walks(Above, k, C, w) /\ \A n \in 0 .. C : w[n] \in Nodes \cup {Null}
               /\ Ancestors(k) = {w[n] : n \in 0 .. C} \ {Null}
  BY <1>3, <1>4, AncestorsAreWalked
<1>6. w[0] = k /\ 0 \in 0 .. C /\ \A n \in 0 .. C : n < C => n + 1 \in 0 .. C /\ w[n + 1] = IF w[n] = Null THEN Null ELSE parent[w[n]]
  <2>1. w[0] = k /\ \A n \in 0 .. C : n < C => w[n + 1] = Above[w[n]]
    BY <1>5 DEF Walks
  <2>2. \A x \in Nodes \cup {Null} : Above[x] = IF x = Null THEN Null ELSE parent[x]
    BY DEF Above
  <2>3. 0 \in 0 .. C /\ \A n \in 0 .. C : n < C => n + 1 \in 0 .. C
    OBVIOUS
  <2>4. \A n \in 0 .. C : n < C => w[n + 1] = IF w[n] = Null THEN Null ELSE parent[w[n]]
    BY <1>5, <2>1, <2>2
  <2> QED BY <2>1, <2>3, <2>4
<1>7. \A n \in 0 .. C : w[n] # Null => w[n] \in Nodes /\ k \in sub[w[n]] /\ Cardinality(sub[w[n]]) >= n + 1
  <2>1. PICK S : S = {n \in 0 .. C : w[n] # Null => w[n] \in Nodes /\ k \in sub[w[n]] /\ Cardinality(sub[w[n]]) >= n + 1}
    OBVIOUS
  <2>2. \A x \in Nodes : IsFiniteSet(sub[x]) /\ Cardinality(sub[x]) \in Nat
    BY <1>2, FS_Subset, FS_CardinalityType DEF TreeShape
  <2>3. Cardinality(sub[k]) >= 1
    <3>1. Cardinality(sub[k]) # 0
      BY <1>2, <2>2, FS_EmptySet
    <3> QED BY <3>1, <2>2
  <2>4. 0 \in S
    BY <1>2, <1>6, <2>1, <2>3
  <2>5. ASSUME NEW n \in 0 .. C, n < C, n \in S PROVE n + 1 \in S
    <3>1. n + 1 \in 0 .. C /\ w[n + 1] = IF w[n] = Null THEN Null ELSE parent[w[n]]
      BY <1>6, <2>5
    <3>2. CASE w[n + 1] = Null
      BY <3>1, <3>2, <2>1
    <3>3. CASE w[n + 1] # Null
      <4>1. PICK x, p : x = w[n] /\ p = w[n + 1]
        OBVIOUS
      <4>2. /\ x # Null /\ x \in Nodes /\ p = parent[x] /\ p # Null
            /\ k \in sub[x] /\ Cardinality(sub[x]) >= n + 1
        BY <2>1, <2>5, <3>1, <3>3, <4>1
      <4>3. p \in Nodes /\ sub[x] \subseteq sub[p] /\ p \notin sub[x] /\ p \in sub[p]
        BY <1>2, <4>2
      <4>4. Cardinality(sub[x]) <= Cardinality(sub[p]) /\ (Cardinality(sub[p]) = Cardinality(sub[x]) => sub[p] = sub[x])
        BY <2>2, <4>3, FS_Subset
      <4>5. PICK a \in Nat, b \in Nat : a = Cardinality(sub[x]) /\ b = Cardinality(sub[p])
        BY <2>2, <4>2, <4>3
      <4>6. a <= b /\ a # b /\ a >= n + 1
        BY <4>2, <4>3, <4>4, <4>5
      <4>7. b >= (n + 1) + 1
        BY <4>6
      <4> QED BY <2>1, <3>1, <4>1, <4>2, <4>3, <4>5, <4>7
    <3> QED BY <3>2, <3>3
  <2>6. \A n \in 0 .. C : n \in S
    BY <2>4, <2>5, StepByStep
  <2> QED BY <2>1, <2>6
<1>8. w[C] = Null
  <2> SUFFICES ASSUME w[C] # Null PROVE FALSE
    OBVIOUS
  <2>1. PICK x : x = w[C]
    OBVIOUS
  <2>2. C \in 0 .. C
    OBVIOUS
  <2>3. x \in Nodes /\ Cardinality(sub[x]) >= C + 1
    BY <1>7, <2>1, <2>2
  <2>4. sub[x] \in SUBSET Nodes
    BY <1>2, <2>3
  <2>5. IsFiniteSet(sub[x]) /\ Cardinality(sub[x]) <= Cardinality(Nodes)
    BY <2>4, FS_Subset DEF TreeShape
  <2>6. PICK b \in Nat : b = Cardinality(sub[x])
    BY <2>5, FS_CardinalityType
  <2>7. b <= C /\ b >= C + 1
    BY <1>3, <2>3, <2>5, <2>6
  <2> QED BY <2>7
<1>9. ASSUME NEW j \in Nodes, k \in sub[j], \A n \in 0 .. C : w[n] # j PROVE FALSE
  <2>1. PICK S : S = {n \in 0 .. C : w[n] \in sub[j]}
    OBVIOUS
  <2>2. 0 \in S
    BY <1>6, <1>9, <2>1
  <2>3. ASSUME NEW n \in 0 .. C, n < C, n \in S PROVE n + 1 \in S
    <3>1. n + 1 \in 0 .. C /\ w[n + 1] = IF w[n] = Null THEN Null ELSE parent[w[n]]
      BY <1>6, <2>3
    <3>2. w[n] \in sub[j] /\ w[n] # j /\ w[n] # Null
      BY <1>2, <1>9, <2>1, <2>3
    <3>3. w[n + 1] \in sub[j]
      BY <1>2, <3>1, <3>2
    <3> QED BY <2>1, <3>1, <3>3
  <2>4. \A n \in 0 .. C : n \in S
    BY <2>2, <2>3, StepByStep
  <2>5. w[C] \in sub[j]
    BY <2>1, <2>4
  <2> QED BY <1>2, <1>8, <2>5
<1>10. \A j : j \in Ancestors(k) <=> j # Null /\ \E n \in 0 .. C : w[n] = j
  BY <1>5
<1>11. ASSUME NEW j \in Ancestors(k) PROVE j \in Nodes /\ k \in sub[j]
  BY <1>7, <1>10
<1>12. ASSUME NEW j \in Nodes, k \in sub[j] PROVE j \in Ancestors(k)
  BY <1>2, <1>9, <1>10, <1>12
<1> QED BY <1>11, <1>12
-----------------------------------------------------------------------------
(* Order and balance.                                                      *)

\* Subtree is the set the shape is stated with.
LEMMA SubtreesAre ==
  ASSUME NEW sub, TreeShape(sub), NEW j \in Nodes
  PROVE  Subtree(j) = sub[j]
<1>1. sub[j] \subseteq Nodes
  BY GoingUp DEF TreeShape
<1>2. \A d \in Nodes : Ancestors(d) = {k \in Nodes : d \in sub[k]}
  BY AncestorsAre
<1> QED BY <1>1, <1>2 DEF Subtree

\* A tree with the shape is ordered.
LEMMA ShapeIsOrdered ==
  ASSUME NEW sub, TreeShape(sub)
  PROVE  TreeOrdered
<1>1. Shape(Nodes, Less, left, right, parent, sub) /\ Rooted(Nodes, parent, root, sub) /\ Nodes \subseteq Int
  BY DEF TreeShape
<1>2. /\ \A k \in Nodes : left[k] \in Nodes \cup {Null} /\ right[k] \in Nodes \cup {Null}
      /\ \A k \in Nodes : left[k] # Null => parent[left[k]] = k
      /\ \A k \in Nodes : right[k] # Null => parent[right[k]] = k
      /\ \A k \in Nodes : parent[k] # Null => left[parent[k]] = k \/ right[parent[k]] = k
      /\ \A k \in Nodes : \A d \in Below(sub, left[k]) : <<d, k>> \in Less
      /\ \A k \in Nodes : \A d \in Below(sub, right[k]) : <<k, d>> \in Less
  BY <1>1 DEF Shape, LinksOK, SearchOK
<1>3. /\ \A k \in Nodes : parent[k] # Null => parent[k] \in Nodes
      /\ Null \notin Nodes
      /\ \A k \in Nodes : root \in Nodes /\ k \in sub[root] /\ (parent[k] = Null <=> k = root)
  BY <1>1, GoingUp
<1> SUFFICES ASSUME NEW k \in Nodes
             PROVE  /\ root \in Ancestors(k)
                    /\ parent[k] = Null <=> k = root
                    /\ k # root => Cardinality({p \in Nodes : left[p] = k} \cup {p \in Nodes : right[p] = k}) = 1
                    /\ left[k] # Null => parent[left[k]] = k /\ \A d \in Subtree(left[k]) : d < k
                    /\ right[k] # Null => parent[right[k]] = k /\ \A d \in Subtree(right[k]) : d > k
  BY DEF TreeOrdered
<1>4. root \in Ancestors(k)
  BY <1>3, AncestorsAre
<1>5. ASSUME k # root
      PROVE  Cardinality({p \in Nodes : left[p] = k} \cup {p \in Nodes : right[p] = k}) = 1
  <2>1. PICK q : q = parent[k] /\ q \in Nodes
    BY <1>3, <1>5
  <2>2. {p \in Nodes : left[p] = k} \cup {p \in Nodes : right[p] = k} = {q}
    BY <1>2, <1>3, <2>1
  <2> QED BY <2>2, OneEntry
<1>6. ASSUME left[k] # Null PROVE parent[left[k]] = k /\ \A d \in Subtree(left[k]) : d < k
  <2>1. PICK c \in Nodes : c = left[k]
    BY <1>2, <1>6
  <2>2. Subtree(c) = sub[c]
    BY SubtreesAre
  <2>3. \A d \in sub[c] : <<d, k>> \in Less
    BY <1>2, <1>3, <2>1 DEF Below
  <2>4. \A d \in sub[c] : d < k
    BY <2>3 DEF Less
  <2> QED BY <1>2, <1>6, <2>1, <2>2, <2>4
<1>7. ASSUME right[k] # Null PROVE parent[right[k]] = k /\ \A d \in Subtree(right[k]) : d > k
  <2>1. PICK c \in Nodes : c = right[k]
    BY <1>2, <1>7
  <2>2. Subtree(c) = sub[c]
    BY SubtreesAre
  <2>3. \A d \in sub[c] : <<k, d>> \in Less
    BY <1>2, <1>3, <2>1 DEF Below
  <2>4. \A d \in sub[c] : d > k
    BY <2>3 DEF Less
  <2> QED BY <1>2, <1>7, <2>1, <2>2, <2>4
<1> QED BY <1>3, <1>4, <1>5, <1>6, <1>7

\* After any calls of insertClause and createFromCnfFormula, and at each step of their
\* loops, the two directions of the pointers agree, no subtree is lost or shared, and
\* the keys to the left are smaller and those to the right larger.
THEOREM TreeStaysOrdered == TreeSpec => []TreeOrdered
<1>1. Invariant => TreeOrdered
  BY ShapeIsOrdered DEF Invariant, TreeInv, TreeFits, Fits
<1> QED BY <1>1, InvariantHolds, PTL

\* A child is one deeper than its parent.
LEMMA DepthOfChild ==
  ASSUME NEW sub, TreeShape(sub), NEW k \in Nodes, NEW c \in Nodes, parent[c] = k
  PROVE  Depth(k) \in Nat /\ Depth(c) = Depth(k) + 1
<1>1. /\ \A x \in Nodes : sub[x] \subseteq Nodes /\ x \in sub[x]
      /\ sub[c] \subseteq sub[k] /\ k \notin sub[c]
      /\ \A j \in Nodes : \A d \in sub[j] : d # j => parent[d] \in sub[j]
      /\ Null \notin Nodes
  BY GoingUp DEF TreeShape
<1>2. Shape(Nodes, Less, left, right, parent, sub)
  BY DEF TreeShape
<1>3. \A j \in Nodes : \A d \in sub[j] : sub[d] \subseteq sub[j]
  BY <1>2 DEF Shape, SubtreesOK
<1>4. Ancestors(k) = {j \in Nodes : k \in sub[j]} /\ Ancestors(c) = {j \in Nodes : c \in sub[j]}
  BY AncestorsAre
<1>5. Ancestors(c) = Ancestors(k) \cup {c} /\ c \notin Ancestors(k)
  <2>1. ASSUME NEW j \in Nodes, c \in sub[j], j # c PROVE k \in sub[j]
    BY <1>1, <2>1
  <2>2. ASSUME NEW j \in Nodes, k \in sub[j] PROVE c \in sub[j]
    BY <1>1, <1>3, <2>2
  <2>3. k \notin sub[c] /\ c \in sub[c]
    BY <1>1
  <2> QED BY <1>4, <2>1, <2>2, <2>3
<1>6. IsFiniteSet(Ancestors(k))
  BY <1>4, FS_Subset DEF TreeShape
<1>7. Cardinality(Ancestors(k) \cup {c}) = Cardinality(Ancestors(k)) + 1
  BY <1>5, <1>6, FS_AddElement
<1> QED BY <1>5, <1>6, <1>7, FS_CardinalityType DEF Depth

\* A node has finitely many ancestors.
LEMMA DepthIsNatural ==
  ASSUME NEW sub, TreeShape(sub), NEW k \in Nodes
  PROVE  Depth(k) \in Nat
<1>1. Ancestors(k) \in SUBSET Nodes
  BY AncestorsAre
<1> QED BY <1>1, FS_Subset, FS_CardinalityType DEF TreeShape, Depth

\* The deepest node below k is as deep as its height says.
Deepest(sub, g, k) ==
  /\ \A d \in sub[k] : Depth(d) <= Depth(k) + g[k] - 1
  /\ \E d \in sub[k] : Depth(d) = Depth(k) + g[k] - 1

\* The height of a node from those of its children.
LEMMA DeepestFromChildren ==
  ASSUME NEW sub, TreeShape(sub), NEW g, HeightsFit(Nodes, left, right, balance, g, Null), NEW k \in Nodes,
         \A c \in Nodes : c \in {left[k], right[k]} => Deepest(sub, g, c)
  PROVE  Deepest(sub, g, k)
<1>1. Shape(Nodes, Less, left, right, parent, sub)
  BY DEF TreeShape
<1>2. /\ left[k] \in Nodes \cup {Null} /\ right[k] \in Nodes \cup {Null}
      /\ left[k] # Null => parent[left[k]] = k
      /\ right[k] # Null => parent[right[k]] = k
      /\ sub[k] = {k} \cup Below(sub, left[k]) \cup Below(sub, right[k])
      /\ Null \notin Nodes
  BY <1>1 DEF Shape, LinksOK, SubtreesOK
<1>3. PICK dk \in Nat, gk \in Nat, tl \in Nat, tr \in Nat :
        /\ dk = Depth(k) /\ gk = g[k] /\ tl = Tall(g, left[k]) /\ tr = Tall(g, right[k])
  BY <1>2, DepthIsNatural DEF HeightsFit, Tall
<1>4. gk = Higher(tl, tr) + 1
  <2>1. g[k] = Higher(Tall(g, left[k]), Tall(g, right[k])) + IF k = Null THEN 0 ELSE 1
    BY DEF HeightsFit
  <2> QED BY <2>1, <1>2, <1>3
<1>5. tl + 1 <= gk /\ tr + 1 <= gk /\ gk >= 1 /\ (gk = tl + 1 \/ gk = tr + 1)
  BY <1>4 DEF Higher
<1>6. \A x \in Nodes : Depth(x) \in Nat
  BY DepthIsNatural
<1>7. \A x \in Nodes : sub[x] \subseteq Nodes
  BY GoingUp DEF TreeShape
<1>8. ASSUME NEW c \in {left[k], right[k]}, c # Null
      PROVE  /\ c \in Nodes /\ Below(sub, c) = sub[c] /\ Depth(c) = dk + 1 /\ Tall(g, c) = g[c] /\ g[c] \in Nat
             /\ \A d \in sub[c] : Depth(d) <= dk + Tall(g, c)
             /\ \E d \in sub[c] : Depth(d) = dk + Tall(g, c)
  <2>1. c \in Nodes /\ parent[c] = k
    BY <1>2, <1>8
  <2>2. Depth(c) = dk + 1
    BY <1>3, <2>1, DepthOfChild
  <2>3. Below(sub, c) = sub[c] /\ Tall(g, c) = g[c] /\ g[c] \in Nat
    BY <2>1, <1>8 DEF Below, Tall, HeightsFit
  <2>4. Deepest(sub, g, c)
    BY <2>1, <1>8
  <2>5. PICK gc \in Nat : gc = g[c]
    BY <2>3
  <2>6. (dk + 1) + gc - 1 = dk + gc
    OBVIOUS
  <2>7. (\A d \in sub[c] : Depth(d) <= (dk + 1) + gc - 1) /\ (\E d \in sub[c] : Depth(d) = (dk + 1) + gc - 1)
    BY <2>2, <2>4, <2>5 DEF Deepest
  <2> QED BY <2>1, <2>2, <2>3, <2>5, <2>6, <2>7
<1>9. \A d \in sub[k] : d = k \/ (left[k] # Null /\ d \in sub[left[k]]) \/ (right[k] # Null /\ d \in sub[right[k]])
  BY <1>2 DEF Below
<1>10. /\ left[k] # Null => sub[left[k]] \subseteq sub[k]
       /\ right[k] # Null => sub[right[k]] \subseteq sub[k]
       /\ k \in sub[k]
  BY <1>2 DEF Below
<1>11. ASSUME NEW d \in sub[k] PROVE Depth(d) <= dk + gk - 1
  <2>1. PICK e \in Nat : e = Depth(d)
    BY <1>6, <1>7
  <2>2. CASE d = k
    BY <2>1, <2>2, <1>3, <1>5
  <2>3. CASE left[k] # Null /\ d \in sub[left[k]]
    <3>1. e <= dk + tl
      BY <2>1, <2>3, <1>3, <1>8
    <3>2. e <= dk + gk - 1
      BY <3>1, <1>5
    <3> QED BY <2>1, <3>2
  <2>4. CASE right[k] # Null /\ d \in sub[right[k]]
    <3>1. e <= dk + tr
      BY <2>1, <2>4, <1>3, <1>8
    <3>2. e <= dk + gk - 1
      BY <3>1, <1>5
    <3> QED BY <2>1, <3>2
  <2> QED BY <1>9, <2>2, <2>3, <2>4
<1>12. \E d \in sub[k] : Depth(d) = dk + gk - 1
  <2>1. CASE gk = tl + 1 /\ left[k] # Null
    <3>1. PICK d \in sub[left[k]] : Depth(d) = dk + tl
      BY <2>1, <1>3, <1>8
    <3>2. dk + tl = dk + gk - 1
      BY <2>1
    <3> QED BY <3>1, <3>2, <2>1, <1>10
  <2>2. CASE gk = tr + 1 /\ right[k] # Null
    <3>1. PICK d \in sub[right[k]] : Depth(d) = dk + tr
      BY <2>2, <1>3, <1>8
    <3>2. dk + tr = dk + gk - 1
      BY <2>2
    <3> QED BY <3>1, <3>2, <2>2, <1>10
  <2>3. CASE gk = 1
    <3>1. dk = dk + gk - 1
      BY <2>3
    <3> QED BY <3>1, <1>3, <1>10
  <2>4. (left[k] = Null => tl = 0) /\ (right[k] = Null => tr = 0)
    BY <1>3 DEF Tall
  <2> QED BY <1>5, <2>1, <2>2, <2>3, <2>4
<1> QED BY <1>3, <1>11, <1>12 DEF Deepest

\* The heights are those of the deepest nodes.
LEMMA DeepestEverywhere ==
  ASSUME NEW sub, TreeShape(sub), NEW g, HeightsFit(Nodes, left, right, balance, g, Null)
  PROVE  \A k \in Nodes : Deepest(sub, g, k)
<1> SUFFICES ASSUME \E k \in Nodes : ~Deepest(sub, g, k) PROVE FALSE
  OBVIOUS
<1>1. PICK Bad : Bad = {g[k] : k \in {k \in Nodes : ~Deepest(sub, g, k)}}
  OBVIOUS
<1>2. \A k \in Nodes : g[k] \in Nat
  BY DEF HeightsFit
<1>3. Bad \in SUBSET Nat /\ Bad # {}
  BY <1>1, <1>2
<1>4. PICK m \in Bad : \A b \in Bad : m <= b
  BY <1>3, LeastNatural
<1>5. PICK k \in Nodes : m = g[k] /\ ~Deepest(sub, g, k)
  BY <1>1
<1>6. Null \notin Nodes /\ left[k] \in Nodes \cup {Null} /\ right[k] \in Nodes \cup {Null}
  BY DEF TreeShape, Shape, LinksOK
<1>7. ASSUME NEW c \in Nodes, c \in {left[k], right[k]} PROVE Deepest(sub, g, c)
  <2>1. PICK tl \in Nat, tr \in Nat : tl = Tall(g, left[k]) /\ tr = Tall(g, right[k])
    BY <1>2, <1>6 DEF Tall
  <2>2. g[k] = Higher(tl, tr) + 1
    BY <1>6, <2>1 DEF HeightsFit
  <2>3. g[c] = tl \/ g[c] = tr
    BY <1>6, <1>7, <2>1 DEF Tall
  <2>4. PICK gc \in Nat : gc = g[c]
    BY <1>2
  <2>5. gc < m
    BY <1>5, <2>2, <2>3, <2>4 DEF Higher
  <2>6. gc \in Nat /\ m \in Nat /\ ~(m <= gc)
    BY <1>3, <2>5
  <2> QED BY <1>1, <1>4, <2>4, <2>6
<1>8. Deepest(sub, g, k)
  BY <1>7, DeepestFromChildren
<1> QED BY <1>5, <1>8

\* Height is what the invariant's heights say.
LEMMA HeightsAre ==
  ASSUME NEW sub, TreeShape(sub), NEW g, HeightsFit(Nodes, left, right, balance, g, Null), NEW k \in Nodes \cup {Null}
  PROVE  Height(k) = Tall(g, k)
<1>1. CASE k = Null
  BY <1>1 DEF Height, Tall
<1>2. CASE k # Null
  <2>1. k \in Nodes
    BY <1>2
  <2>2. PICK S : S = {Depth(d) : d \in sub[k]}
    OBVIOUS
  <2>3. Subtree(k) = sub[k]
    BY <2>1, SubtreesAre
  <2>4. Height(k) = Max(S) - Depth(k) + 1
    BY <1>2, <2>2, <2>3 DEF Height
  <2>5. PICK dk \in Nat, gk \in Nat : dk = Depth(k) /\ gk = g[k]
    BY <2>1, DepthIsNatural DEF HeightsFit
  <2>6. \A d \in sub[k] : Depth(d) \in Nat
    <3>1. sub[k] \subseteq Nodes
      BY <2>1, GoingUp DEF TreeShape
    <3> QED BY <3>1, DepthIsNatural
  <2>7. (\A y \in S : y <= dk + gk - 1) /\ dk + gk - 1 \in S
    <3>1. Deepest(sub, g, k)
      BY <2>1, DeepestEverywhere
    <3> QED BY <3>1, <2>2, <2>5 DEF Deepest
  <2>8. \A y \in S : y \in Nat
    BY <2>2, <2>6
  <2>9. Max(S) \in S /\ \A y \in S : Max(S) >= y
    BY <2>7, <2>8 DEF Max
  <2>10. PICK m \in Nat : m = Max(S)
    BY <2>8, <2>9
  <2>11. m <= dk + gk - 1 /\ m >= dk + gk - 1
    BY <2>7, <2>9, <2>10
  <2>12. m - dk + 1 = gk
    BY <2>11
  <2> QED BY <1>2, <2>4, <2>5, <2>10, <2>12 DEF Tall
<1> QED BY <1>1, <1>2

\* Between two insertions each balancing factor is the difference of the heights below
\* its node, so that the tree is an AVL tree, however deep and whichever rotations made
\* it.
THEOREM TreeStaysBalanced == TreeSpec => []TreeBalanced
<1>1. Invariant => TreeBalanced
  <2> SUFFICES ASSUME Invariant, phase \in {"Idle", "Build"}, NEW k \in Nodes
               PROVE  balance[k] = Height(right[k]) - Height(left[k])
    BY DEF TreeBalanced
  <2>1. PICK sub, g, home, lo, hi : Fits(sub, g, home, lo, hi)
    BY DEF Invariant, TreeInv, TreeFits
  <2>2. TreeShape(sub) /\ HeightsFit(Nodes, left, right, balance, g, Null)
    BY <2>1 DEF Fits, TreeHeights, Grown
  <2>3. left[k] \in Nodes \cup {Null} /\ right[k] \in Nodes \cup {Null}
    BY <2>2 DEF TreeShape, Shape, LinksOK
  <2>4. Height(left[k]) = Tall(g, left[k]) /\ Height(right[k]) = Tall(g, right[k])
    BY <2>2, <2>3, HeightsAre
  <2>5. balance[k] = Tall(g, right[k]) - Tall(g, left[k])
    BY <2>2 DEF HeightsFit
  <2> QED BY <2>4, <2>5
<1> QED BY <1>1, InvariantHolds, PTL
-----------------------------------------------------------------------------
(* Queries.                                                                *)

\* Where the search for a literal goes on from a node.
Towards(l) == [x \in Nodes \cup {Null} |-> NextNode(l, x)]

\* A search goes on to a child or ends.
LEMMA NextNodeStays ==
  ASSUME LinksAreFunctions, Nodes \subseteq Int, NEW l \in Int, NEW x \in Nodes \cup {Null}
  PROVE  /\ NextNode(l, x) \in Nodes \cup {Null}
         /\ x = Null => NextNode(l, x) = Null
         /\ x # Null /\ l < x => NextNode(l, x) = left[x]
         /\ x # Null /\ l > x => NextNode(l, x) = right[x]
<1>1. CASE x = Null \/ l = x
  BY <1>1 DEF NextNode
<1>2. CASE x # Null /\ l < x
  BY <1>2 DEF NextNode, LinksAreFunctions
<1>3. CASE x # Null /\ l > x
  BY <1>3 DEF NextNode, LinksAreFunctions
<1>4. x # Null => x \in Int
  OBVIOUS
<1> QED BY <1>1, <1>2, <1>3, <1>4

\* The visited nodes are those of a walk from the root.
LEMMA VisitedAreWalked ==
  ASSUME LinksAreFunctions, Nodes \subseteq Int, root \in Nodes \cup {Null},
         NEW C, C = Cardinality(Nodes), C \in Nat, NEW l \in Int
  PROVE  \E w : /\ Walks(Towards(l), root, C, w) /\ \A n \in 0 .. C : w[n] \in Nodes \cup {Null}
                /\ Visited(l) = {w[n] : n \in 0 .. C} \ {Null}
<1> DEFINE Visit(v) == v = [n \in 0 .. Cardinality(Nodes) |-> IF n = 0 THEN root ELSE NextNode(l, v[n - 1])]
           chosen == CHOOSE v : Visit(v)
<1>1. Visited(l) = {chosen[n] : n \in 0 .. Cardinality(Nodes)} \ {Null}
  BY DEF Visited
<1>2. \A x \in Nodes \cup {Null} : Towards(l)[x] = NextNode(l, x) /\ Towards(l)[x] \in Nodes \cup {Null}
  BY NextNodeStays DEF Towards
<1>3. PICK X, s, next : X = Nodes \cup {Null} /\ s = root /\ next = Towards(l)
  OBVIOUS
<1>4. s \in X /\ next \in [X -> X] /\ \A x \in X : next[x] = NextNode(l, x)
  <2>1. Towards(l) \in [Nodes \cup {Null} -> Nodes \cup {Null}]
    BY <1>2 DEF Towards
  <2> QED BY <2>1, <1>2, <1>3
<1>5. \E v : Visit(v)
  <2>1. PICK w : StepsFrom(next, s, C, w)
    BY <1>4, WalkExists
  <2>2. \A n \in 0 .. C : w[n] = IF n = 0 THEN s ELSE next[w[n - 1]]
    BY <2>1 DEF StepsFrom
  <2>3. \A n \in 0 .. C : n < C => w[n + 1] = next[w[n]]
    <3>1. \A n \in 0 .. C : n < C => n + 1 \in 0 .. C /\ n + 1 # 0 /\ (n + 1) - 1 = n
      OBVIOUS
    <3> QED BY <3>1, <2>2
  <2>4. w[0] = s
    BY <2>2
  <2>5. \A n \in 0 .. C : w[n] \in X
    BY <1>4, <2>3, <2>4, WalkStays
  <2>6. \A n \in 0 .. C : n # 0 => n - 1 \in 0 .. C
    OBVIOUS
  <2>7. \A n \in 0 .. C : w[n] = IF n = 0 THEN root ELSE NextNode(l, w[n - 1])
    BY <1>3, <1>4, <2>2, <2>5, <2>6
  <2>8. w = [n \in 0 .. C |-> w[n]]
    BY <2>1 DEF StepsFrom
  <2>9. w = [n \in 0 .. C |-> IF n = 0 THEN root ELSE NextNode(l, w[n - 1])]
    BY <2>7, <2>8
  <2>10. Visit(w)
    BY <2>9
  <2> QED BY <2>10
<1>6. Visit(chosen)
  <2> HIDE DEF Visit
  <2> QED BY <1>5
<1>7. PICK w : w = chosen
  OBVIOUS
<1>8. w = [n \in 0 .. C |-> IF n = 0 THEN root ELSE NextNode(l, w[n - 1])]
  BY <1>6, <1>7
<1>9. DOMAIN w = 0 .. C /\ 0 \in 0 .. C
      /\ \A n \in 0 .. C : w[n] = IF n = 0 THEN s ELSE NextNode(l, w[n - 1])
  BY <1>3, <1>8
<1> HIDE DEF Visit, chosen
<1>10. \A n \in 0 .. C : n < C => w[n + 1] = NextNode(l, w[n])
  <2>1. \A n \in 0 .. C : n < C => n + 1 \in 0 .. C /\ n + 1 # 0 /\ (n + 1) - 1 = n
    OBVIOUS
  <2> QED BY <2>1, <1>9
<1>11. w[0] = s
  BY <1>9
<1>12. \A n \in 0 .. C : w[n] \in X
  <2>1. \A n \in 0 .. C : n < C /\ w[n] \in X => w[n + 1] = next[w[n]]
    BY <1>4, <1>10
  <2> QED BY <2>1, <1>4, <1>11, WalkStays
<1>13. Walks(next, s, C, w)
  BY <1>4, <1>9, <1>10, <1>11, <1>12 DEF Walks
<1>14. Visited(l) = {w[n] : n \in 0 .. C} \ {Null}
  BY <1>1, <1>7
<1> QED BY <1>3, <1>12, <1>13, <1>14

\* The subtree gets smaller from node to node.
LEMMA GoingDown ==
  ASSUME NEW N, NEW R, NEW l, NEW r, NEW up, NEW sub, Shape(N, R, l, r, up, sub), NEW x \in N, NEW c \in {l[x], r[x]}, c # Null
  PROVE  c \in N /\ sub[c] \subseteq sub[x] /\ x \in sub[x] /\ x \notin sub[c] /\ sub[x] \subseteq N
<1>1. /\ l[x] \in N \cup {Null} /\ r[x] \in N \cup {Null}
      /\ sub[x] \subseteq N
      /\ sub[x] = {x} \cup Below(sub, l[x]) \cup Below(sub, r[x])
      /\ \A d \in Below(sub, l[x]) : <<d, x>> \in R
      /\ \A d \in Below(sub, r[x]) : <<x, d>> \in R
      /\ <<x, x>> \notin R
  BY DEF Shape, LinksOK, SubtreesOK, SearchOK, StrictOrderOn
<1>2. Below(sub, c) = sub[c]
  BY DEF Below
<1>3. CASE c = l[x]
  BY <1>1, <1>2, <1>3
<1>4. CASE c = r[x]
  BY <1>1, <1>2, <1>4
<1> QED BY <1>3, <1>4

\* A search for a literal a clause spans comes to the highest node it spans.
LEMMA SearchLeadsHome ==
  ASSUME NEW sub, TreeShape(sub), NEW h \in Nodes, NEW s \in Int, NEW t \in Int, s <= h, h <= t,
         \A j \in Nodes : h \in sub[j] /\ j # h => j \notin s .. t,
         NEW l \in Int, s <= l, l <= t
  PROVE  h \in Visited(l)
<1>1. Shape(Nodes, Less, left, right, parent, sub) /\ Rooted(Nodes, parent, root, sub) /\ Nodes \subseteq Int
  BY DEF TreeShape
<1>2. PICK C \in Nat : C = Cardinality(Nodes)
  BY FS_CardinalityType DEF TreeShape
<1>3. LinksAreFunctions /\ Null \notin Nodes
  BY <1>1 DEF Shape, LinksOK, LinksAreFunctions
<1>4. root \in Nodes /\ sub[root] = Nodes
  BY <1>1 DEF Rooted
<1>5. PICK w : /\ Walks(Towards(l), root, C, w) /\ \A n \in 0 .. C : w[n] \in Nodes \cup {Null}
               /\ Visited(l) = {w[n] : n \in 0 .. C} \ {Null}
  BY <1>1, <1>2, <1>3, <1>4, VisitedAreWalked
<1>6. w[0] = root /\ 0 \in 0 .. C /\ \A n \in 0 .. C : n < C => n + 1 \in 0 .. C /\ w[n + 1] = NextNode(l, w[n])
  <2>1. w[0] = root /\ \A n \in 0 .. C : n < C => w[n + 1] = Towards(l)[w[n]]
    BY <1>5 DEF Walks
  <2>2. \A x \in Nodes \cup {Null} : Towards(l)[x] = NextNode(l, x)
    BY DEF Towards
  <2>3. 0 \in 0 .. C /\ \A n \in 0 .. C : n < C => n + 1 \in 0 .. C
    OBVIOUS
  <2>4. \A n \in 0 .. C : n < C => w[n + 1] = NextNode(l, w[n])
    BY <1>5, <2>1, <2>2
  <2> QED BY <2>1, <2>3, <2>4
<1> SUFFICES ASSUME h \notin Visited(l) PROVE FALSE
  OBVIOUS
<1>7. \A n \in 0 .. C : w[n] # h
  BY <1>3, <1>5
<1>8. \A x \in Nodes : IsFiniteSet(sub[x]) /\ Cardinality(sub[x]) \in Nat
  <2>1. \A x \in Nodes : sub[x] \in SUBSET Nodes
    BY <1>1, GoingUp
  <2> QED BY <2>1, FS_Subset, FS_CardinalityType DEF TreeShape
<1>9. ASSUME NEW x \in Nodes, h \in sub[x], x # h
      PROVE  /\ NextNode(l, x) \in {left[x], right[x]} /\ NextNode(l, x) # Null
             /\ NextNode(l, x) \in Nodes /\ h \in sub[NextNode(l, x)]
  <2>1. x \in Int /\ h \in Int /\ ~(s <= x /\ x <= t)
    BY <1>1, <1>9
  <2>2. /\ sub[x] = {x} \cup Below(sub, left[x]) \cup Below(sub, right[x])
        /\ \A d \in Below(sub, left[x]) : <<d, x>> \in Less
        /\ \A d \in Below(sub, right[x]) : <<x, d>> \in Less
        /\ left[x] \in Nodes \cup {Null} /\ right[x] \in Nodes \cup {Null}
    BY <1>1 DEF Shape, SubtreesOK, SearchOK, LinksOK
  <2>3. CASE x < s
    <3>1. x < h /\ x < l
      BY <2>1, <2>3
    <3>2. h \notin Below(sub, left[x])
      <4>1. <<h, x>> \notin Less
        BY <2>1, <3>1 DEF Less
      <4> QED BY <2>2, <4>1
    <3>3. h \in Below(sub, right[x])
      BY <1>9, <2>2, <3>2
    <3>4. NextNode(l, x) = right[x]
      BY <1>1, <1>3, <3>1, NextNodeStays
    <3> QED BY <2>2, <3>3, <3>4 DEF Below
  <2>4. CASE t < x
    <3>1. h < x /\ l < x
      BY <2>1, <2>4
    <3>2. h \notin Below(sub, right[x])
      <4>1. <<x, h>> \notin Less
        BY <2>1, <3>1 DEF Less
      <4> QED BY <2>2, <4>1
    <3>3. h \in Below(sub, left[x])
      BY <1>9, <2>2, <3>2
    <3>4. NextNode(l, x) = left[x]
      BY <1>1, <1>3, <3>1, NextNodeStays
    <3> QED BY <2>2, <3>3, <3>4 DEF Below
  <2> QED BY <2>1, <2>3, <2>4
<1>10. \A n \in 0 .. C : w[n] \in Nodes /\ h \in sub[w[n]] /\ Cardinality(sub[w[n]]) + n <= C
  <2>1. PICK S : S = {n \in 0 .. C : w[n] \in Nodes /\ h \in sub[w[n]] /\ Cardinality(sub[w[n]]) + n <= C}
    OBVIOUS
  <2>2. 0 \in S
    BY <1>2, <1>4, <1>6, <2>1
  <2>3. ASSUME NEW n \in 0 .. C, n < C, n \in S PROVE n + 1 \in S
    <3>1. PICK x, c : x = w[n] /\ c = w[n + 1]
      OBVIOUS
    <3>2. n + 1 \in 0 .. C /\ c = NextNode(l, x)
      BY <1>6, <2>3, <3>1
    <3>3. x \in Nodes /\ h \in sub[x] /\ x # h /\ Cardinality(sub[x]) + n <= C
      BY <1>7, <2>1, <2>3, <3>1
    <3>4. c \in {left[x], right[x]} /\ c # Null /\ c \in Nodes /\ h \in sub[c]
      BY <1>9, <3>2, <3>3
    <3>5. sub[c] \subseteq sub[x] /\ x \in sub[x] /\ x \notin sub[c]
      BY <1>1, <3>3, <3>4, GoingDown
    <3>6. Cardinality(sub[c]) <= Cardinality(sub[x]) /\ (Cardinality(sub[x]) = Cardinality(sub[c]) => sub[x] = sub[c])
      BY <1>8, <3>3, <3>5, FS_Subset
    <3>7. PICK a \in Nat, b \in Nat : a = Cardinality(sub[x]) /\ b = Cardinality(sub[c])
      BY <1>8, <3>3, <3>4
    <3>8. b <= a /\ b # a /\ a + n <= C
      BY <3>3, <3>5, <3>6, <3>7
    <3>9. b + (n + 1) <= C
      BY <3>8
    <3> QED BY <2>1, <3>1, <3>2, <3>4, <3>7, <3>9
  <2>4. \A n \in 0 .. C : n \in S
    BY <2>2, <2>3, StepByStep
  <2> QED BY <2>1, <2>4
<1>11. PICK x : x = w[C]
  OBVIOUS
<1>12. C \in 0 .. C
  OBVIOUS
<1>13. x \in Nodes /\ h \in sub[x] /\ Cardinality(sub[x]) + C <= C
  BY <1>10, <1>11, <1>12
<1>14. PICK a \in Nat : a = Cardinality(sub[x])
  BY <1>8, <1>13
<1>15. a = 0
  BY <1>13, <1>14
<1> QED BY <1>8, <1>13, <1>14, <1>15, FS_EmptySet

\* The invariant implies that searches are exact.
LEMMA SearchesFindAll == Invariant => QueriesExact
<1> SUFFICES ASSUME Invariant, phase = "Idle", 0 \notin Nodes, NEW l \in Literals
             PROVE  IndicesOfClausesContaining(l) = {i \in recorded \cap DOMAIN clauses : l \in clauses[i]}
  BY DEF QueriesExact
<1>1. PICK sub, g, home, lo, hi : Fits(sub, g, home, lo, hi)
  BY DEF Invariant, TreeInv, TreeFits
<1>2. Placed = recorded /\ TreeShape(sub)
  BY <1>1 DEF Placed, Fits
<1>3. /\ lower = Half(Nodes, recorded, home, lo) /\ upper = Half(Nodes, recorded, home, hi)
      /\ home \in [recorded -> Nodes] /\ lo \in [recorded -> Int] /\ hi \in [recorded -> Int]
      /\ \A i \in recorded : lo[i] <= home[i] /\ home[i] <= hi[i]
      /\ \A i \in recorded \cap DOMAIN clauses : \A y \in clauses[i] : lo[i] <= y /\ y <= hi[i]
      /\ \A i \in recorded : \A j \in Nodes : home[i] \in sub[j] /\ j # home[i] => j \notin lo[i] .. hi[i]
  <2>1. Highest(Nodes, sub, recorded, home, Spans(recorded, lo, hi))
    BY <1>1, <1>2 DEF Fits, EntriesFit
  <2>2. \A i \in recorded : \A j \in Nodes : home[i] \in sub[j] /\ j # home[i] => j \notin lo[i] .. hi[i]
    BY <2>1 DEF Highest, Spans
  <2>3. Housed(Nodes, recorded, home, lo, hi) /\ BoundsFit(recorded, lo, hi)
        /\ lower = Half(Nodes, recorded, home, lo) /\ upper = Half(Nodes, recorded, home, hi)
    BY <1>1, <1>2 DEF Fits, EntriesFit
  <2> QED BY <2>2, <2>3 DEF Housed, BoundsFit
<1>4. l \in Int /\ Nodes \subseteq Int
  BY <1>2, TreeAssumption DEF TreeShape
<1>5. Visited(l) \subseteq Nodes
  <2>1. LinksAreFunctions /\ root \in Nodes \cup {Null}
    BY <1>2 DEF TreeShape, Shape, LinksOK, LinksAreFunctions, Rooted
  <2>2. PICK C \in Nat : C = Cardinality(Nodes)
    BY <1>2, FS_CardinalityType DEF TreeShape
  <2>3. \E w : /\ Walks(Towards(l), root, C, w) /\ \A n \in 0 .. C : w[n] \in Nodes \cup {Null}
               /\ Visited(l) = {w[n] : n \in 0 .. C} \ {Null}
    BY <1>4, <2>1, <2>2, VisitedAreWalked
  <2> QED BY <2>3
<1>6. ASSUME NEW k \in Nodes, NEW i \in Reported(l, k) PROVE i \in recorded
  <2>1. \A e \in lower[k] : e[1] \in recorded
    BY <1>3, EntryOfHalf
  <2>2. \A e \in upper[k] : e[1] \in recorded
    BY <1>3, EntryOfHalf
  <2> QED BY <1>6, <2>1, <2>2 DEF Reported
<1>7. ASSUME NEW i \in recorded \cap DOMAIN clauses, l \in clauses[i]
      PROVE  home[i] \in Visited(l) /\ i \in Reported(l, home[i])
  <2>1. PICK h \in Nodes, s \in Int, t \in Int : h = home[i] /\ s = lo[i] /\ t = hi[i]
    BY <1>3
  <2>2. s <= h /\ h <= t /\ s <= l /\ l <= t /\ \A j \in Nodes : h \in sub[j] /\ j # h => j \notin s .. t
    BY <1>3, <1>7, <2>1
  <2>3. h \in Visited(l)
    BY <1>2, <1>4, <2>2, SearchLeadsHome
  <2>4. <<i, s>> \in lower[h] /\ <<i, t>> \in upper[h]
    BY <1>3, <2>1, EntryOfHalf
  <2>5. l <= h => i \in Reported(l, h)
    <3> SUFFICES ASSUME l <= h PROVE \E e \in {e \in lower[h] : e[2] <= l} : i = e[1]
      BY DEF Reported
    <3> QED BY <2>2, <2>4
  <2>6. ~(l <= h) => i \in Reported(l, h)
    <3> SUFFICES ASSUME ~(l <= h) PROVE \E e \in {e \in upper[h] : e[2] >= l} : i = e[1]
      BY DEF Reported
    <3> QED BY <2>2, <2>4
  <2> QED BY <2>1, <2>3, <2>5, <2>6
<1> QED BY <1>5, <1>6, <1>7 DEF IndicesOfClausesContaining

\* determineIndicesOfClausesContainingLiteral reports for every literal exactly the
\* recorded clauses that hold it now, in a tree of any size, unless a node has the key
\* 0.
THEOREM QueriesStayExact == TreeSpec => []QueriesExact
BY SearchesFindAll, InvariantHolds, PTL
=============================================================================
