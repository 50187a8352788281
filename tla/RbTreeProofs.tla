---------------------------- MODULE RbTreeProofs ----------------------------
(***************************************************************************)
(* Proofs about the red-black tree of rbtree.c, for every number of nodes: *)
(* each turn of its loops and each call keeps a search tree that is        *)
(* red-black but for what the loop has still to mend, keeps its nodes, and *)
(* keeps them in the same order; its walks and searches find what they     *)
(* should.                                                                 *)
(*                                                                         *)
(* The state is described without recursion: S gives the nodes of each     *)
(* subtree, pos a position for each node and h the black height of each    *)
(* subtree, so that every condition is about a node and its neighbours.    *)
(* What a recursive function of RbTree computes follows by well-founded    *)
(* induction over the subtrees S.                                          *)
(***************************************************************************)
EXTENDS RbTree, Integers, FiniteSetTheorems, SequenceTheorems,
        WellFoundedInduction, TLAPS

\* What a tree is made of.
Tree == [root : Link, up : [Node -> Link], kid : [Node -> [Side -> Link]],
         black : SUBSET Node]

\* a lies at side s of b.
At(pos, a, s, b) == IF s = "left" THEN pos[a] < pos[b] ELSE pos[b] < pos[a]

\* The side where __rb_change_child looks for old below p.
SideOf(x, p, old) == IF x.kid[p]["left"] = old THEN "left" ELSE "right"

\* The nodes that are linked: the root and the nodes with a parent.
InTree(x) == { n \in Node : n = x.root \/ x.up[n] # NIL }

\* S gives the nodes of each subtree, pos a position for each node: a subtree is
\* its node and the subtrees of its children, and lies at the right side of it.
Shape(x, S, pos) ==
    /\ S \in [Link -> SUBSET Node] /\ pos \in [Node -> Int]
    /\ S[NIL] = {} /\ S[x.root] = InTree(x)
    /\ \A m \in Node : S[m] = {m} \cup S[x.kid[m]["left"]] \cup S[x.kid[m]["right"]]
    /\ \A m \in Node, s \in Side : \A a \in S[x.kid[m][s]] : At(pos, a, s, m)

\* Parent and child pointers agree, and a node outside the tree has no children.
Links(x) ==
    /\ x \in Tree
    /\ \A n \in Node, s \in Side : x.kid[n][s] # NIL => x.up[x.kid[n][s]] = n
    /\ \A n \in Node : x.up[n] # NIL => \E s \in Side : x.kid[x.up[n]][s] = n
    /\ x.root # NIL => x.up[x.root] = NIL
    /\ \A n \in Node, s \in Side : n \notin InTree(x) => x.kid[n][s] = NIL

----------------------------------------------------------------------------
\* Nodes, links and sides.
LEMMA Basics ==
    /\ NIL \notin Node /\ NIL \in Link /\ Node \subseteq Link
    /\ \A l \in Link : l = NIL \/ l \in Node
    /\ "left" \in Side /\ "right" \in Side /\ "left" # "right"
    /\ \A s \in Side : s = "left" \/ s = "right"
    /\ Other("left") = "right" /\ Other("right") = "left"
    /\ \A s \in Side : Other(s) \in Side /\ Other(s) # s /\ Other(Other(s)) = s
    /\ \A s, d \in Side : d = s \/ d = Other(s)
BY DEF NIL, Node, Link, Side, Other

\* The types of the fields of a tree.
LEMMA TreeFields ==
    ASSUME NEW x \in Tree
    PROVE  /\ x.root \in Link /\ x.black \subseteq Node
           /\ \A m \in Node : x.up[m] \in Link
           /\ \A m \in Node, s \in Side : x.kid[m][s] \in Link
BY DEF Tree

\* What each write leaves behind in the tree y.
KidSet(x, y, n, s, k) ==
    /\ y \in Tree
    /\ y.root = x.root /\ y.up = x.up /\ y.black = x.black
    /\ \A m \in Node, d \in Side :
          y.kid[m][d] = IF m = n /\ d = s THEN k ELSE x.kid[m][d]

\* y is x after rb_set_parent.
UpSet(x, y, n, p) ==
    /\ y \in Tree
    /\ y.root = x.root /\ y.kid = x.kid /\ y.black = x.black
    /\ \A m \in Node : y.up[m] = IF m = n THEN p ELSE x.up[m]

\* y is x after rb_set_parent_color.
ColorSet(x, y, n, p, b) ==
    /\ y \in Tree
    /\ y.root = x.root /\ y.kid = x.kid
    /\ \A m \in Node : y.up[m] = IF m = n THEN p ELSE x.up[m]
    /\ \A m \in Node : m \in y.black <=> IF m = n THEN b ELSE m \in x.black

\* y is x after __rb_change_child.
ChildChanged(x, y, old, new, p) ==
    /\ y \in Tree
    /\ y.up = x.up /\ y.black = x.black
    /\ y.root = IF p = NIL THEN new ELSE x.root
    /\ \A m \in Node, d \in Side :
          y.kid[m][d] = IF m = p /\ d = SideOf(x, p, old) THEN new ELSE x.kid[m][d]

\* y is x after __rb_rotate_set_parents.
ParentsRotated(x, y, old, new, p, b) ==
    /\ y \in Tree
    /\ y.root = IF p = NIL THEN new ELSE x.root
    /\ \A m \in Node : y.up[m] = IF m = old THEN new
                                 ELSE IF m = new THEN p ELSE x.up[m]
    /\ \A m \in Node : m \in y.black <=>
          IF m = old THEN b ELSE IF m = new THEN old \in x.black ELSE m \in x.black
    /\ \A m \in Node, d \in Side :
          y.kid[m][d] = IF m = p /\ d = SideOf(x, p, old) THEN new ELSE x.kid[m][d]

\* SetKid writes one child pointer.
LEMMA SetKidFields ==
    ASSUME NEW x \in Tree, NEW n \in Node, NEW s \in Side, NEW k \in Link
    PROVE  KidSet(x, SetKid(x, n, s, k), n, s, k)
BY DEF SetKid, Tree, KidSet

\* rb_set_parent writes one parent pointer.
LEMMA SetParentFields ==
    ASSUME NEW x \in Tree, NEW n \in Node, NEW p \in Link
    PROVE  UpSet(x, rb_set_parent(x, n, p), n, p)
BY DEF rb_set_parent, Tree, UpSet

\* rb_set_parent_color writes the parent and the colour of one node.
LEMMA SetColorFields ==
    ASSUME NEW x \in Tree, NEW n \in Node, NEW p \in Link, NEW b \in BOOLEAN
    PROVE  ColorSet(x, rb_set_parent_color(x, n, p, b), n, p, b)
BY DEF rb_set_parent_color, Tree, ColorSet

\* Behind "if (n)" it does nothing for NULL.
LEMMA SetIfNodeFields ==
    ASSUME NEW x \in Tree, NEW n \in Link, NEW p \in Link, NEW b \in BOOLEAN
    PROVE  ColorSet(x, SetIfNode(x, n, p, b), n, p, b)
<1>1. CASE n = NIL
  BY <1>1, Basics DEF SetIfNode, ColorSet
<1>2. CASE n # NIL
  <2>1. n \in Node
    BY <1>2, Basics
  <2>2. SetIfNode(x, n, p, b) = rb_set_parent_color(x, n, p, b)
    BY <1>2 DEF SetIfNode
  <2> QED
    BY <2>1, <2>2, SetColorFields
<1> QED
  BY <1>1, <1>2

\* __rb_change_child writes the pointer to old, in its parent or in the root.
LEMMA ChangeFields ==
    ASSUME NEW x \in Tree, NEW old, NEW new \in Link, NEW p \in Link
    PROVE  ChildChanged(x, __rb_change_child(x, old, new, p), old, new, p)
<1>1. CASE p = NIL
  BY <1>1 DEF __rb_change_child, Tree, NIL, Node, ChildChanged
<1>2. CASE p # NIL
  <2>1. p \in Node /\ SideOf(x, p, old) \in Side
    BY <1>2, Basics DEF SideOf
  <2>2. __rb_change_child(x, old, new, p) = SetKid(x, p, SideOf(x, p, old), new)
    BY <1>2 DEF __rb_change_child, SideOf
  <2>3. KidSet(x, SetKid(x, p, SideOf(x, p, old), new), p, SideOf(x, p, old), new)
    BY <2>1, SetKidFields
  <2> QED
    BY <1>2, <2>2, <2>3 DEF KidSet, ChildChanged
<1> QED
  BY <1>1, <1>2

\* __rb_rotate_set_parents hands parent and colour of old to new.
LEMMA RotateParentsFields ==
    ASSUME NEW x \in Tree, NEW old \in Node, NEW new \in Node, old # new,
           NEW b \in BOOLEAN
    PROVE  ParentsRotated(x, __rb_rotate_set_parents(x, old, new, b),
                          old, new, x.up[old], b)
<1>1. PICK p \in Link : p = x.up[old]
  BY TreeFields
<1>2. PICK c \in BOOLEAN : c = IsBlack(x, old)
  BY DEF IsBlack
<1>3. c <=> old \in x.black
  BY <1>2, Basics DEF IsBlack
<1>4. PICK x1 : x1 = rb_set_parent_color(x, new, p, c)
  OBVIOUS
<1>5. ColorSet(x, x1, new, p, c)
  BY <1>4, SetColorFields
<1>6. PICK x2 : x2 = rb_set_parent_color(x1, old, new, b)
  OBVIOUS
<1>7. x1 \in Tree /\ new \in Link
  BY <1>5, Basics DEF ColorSet
<1>8. ColorSet(x1, x2, old, new, b)
  BY <1>6, <1>7, SetColorFields
<1>9. PICK y : y = __rb_change_child(x2, old, new, p)
  OBVIOUS
<1>10. x2 \in Tree
  BY <1>8 DEF ColorSet
<1>11. ChildChanged(x2, y, old, new, p)
  BY <1>7, <1>9, <1>10, ChangeFields
<1>12. y = __rb_rotate_set_parents(x, old, new, b)
  BY <1>1, <1>2, <1>4, <1>6, <1>9 DEF __rb_rotate_set_parents
<1>13. SideOf(x2, p, old) = SideOf(x, p, old)
  BY <1>5, <1>8 DEF SideOf, ColorSet
<1>14. ParentsRotated(x, y, old, new, p, b)
  BY <1>3, <1>5, <1>8, <1>11, <1>13 DEF ColorSet, ChildChanged, ParentsRotated
<1> QED
  BY <1>1, <1>12, <1>14

----------------------------------------------------------------------------
\* Subtrees are nested, and a node is in none of its children's.
KidFacts(x, S, pos) ==
    /\ \A m \in Node : m \in S[m]
    /\ \A m \in Node, s \in Side : S[x.kid[m][s]] \subseteq S[m]
    /\ \A m \in Node, s \in Side : x.kid[m][s] \in Link
    /\ \A m \in Node, s \in Side : x.kid[m][s] # NIL =>
          /\ x.kid[m][s] \in Node
          /\ x.kid[m][s] # x.kid[m][Other(s)]
          /\ x.kid[m][s] # m
          /\ m \notin S[x.kid[m][s]]
          /\ x.up[x.kid[m][s]] = m
    /\ \A m \in Node, s \in Side : S[x.kid[m][s]] \cap S[x.kid[m][Other(s)]] = {}
    /\ \A l \in Link : S[l] \subseteq Node
    /\ \A a \in Node : pos[a] \in Int

\* It is so in every tree with a shape.
LEMMA ShapeFacts ==
    ASSUME NEW x, NEW S, NEW pos, Links(x), Shape(x, S, pos)
    PROVE  KidFacts(x, S, pos)
<1>1. x \in Tree /\ \A m \in Node, s \in Side : x.kid[m][s] \in Link
  BY TreeFields DEF Links
<1>2. \A m \in Node : m \in S[m]
  BY DEF Shape
<1>3. \A m \in Node, s \in Side : S[x.kid[m][s]] \subseteq S[m]
  BY Basics DEF Shape
<1>4. \A l \in Link : S[l] \subseteq Node
  BY DEF Shape
<1>5. \A a \in Node : pos[a] \in Int
  BY DEF Shape
<1>6. ASSUME NEW m \in Node, NEW s \in Side, NEW a \in S[x.kid[m][s]]
      PROVE  a # m /\ a \notin S[x.kid[m][Other(s)]]
  <2>1. a \in Node /\ At(pos, a, s, m)
    BY <1>1, <1>4 DEF Shape
  <2>2. pos[a] \in Int /\ pos[m] \in Int
    BY <1>5, <2>1
  <2>3. a # m
    BY <2>1, <2>2 DEF At
  <2>4. ASSUME a \in S[x.kid[m][Other(s)]] PROVE FALSE
    <3>1. At(pos, a, Other(s), m)
      BY <2>4, Basics DEF Shape
    <3> QED
      BY <2>1, <2>2, <3>1, Basics DEF At
  <2> QED
    BY <2>3, <2>4
<1>7. \A m \in Node, s \in Side : S[x.kid[m][s]] \cap S[x.kid[m][Other(s)]] = {}
  BY <1>6
<1>8. ASSUME NEW m \in Node, NEW s \in Side, x.kid[m][s] # NIL
      PROVE  /\ x.kid[m][s] \in Node
             /\ x.kid[m][s] # x.kid[m][Other(s)]
             /\ x.kid[m][s] # m
             /\ m \notin S[x.kid[m][s]]
             /\ x.up[x.kid[m][s]] = m
  <2>1. x.kid[m][s] \in Node /\ x.up[x.kid[m][s]] = m
    BY <1>1, <1>8, Basics DEF Links
  <2>2. x.kid[m][s] \in S[x.kid[m][s]]
    BY <1>2, <2>1
  <2> QED
    BY <1>6, <2>1, <2>2
<1> QED
  BY <1>1, <1>2, <1>3, <1>4, <1>5, <1>7, <1>8 DEF KidFacts

----------------------------------------------------------------------------
\* y is x with p, the child of g at side s, rotated above g.
Rotated(x, y, g, p, s) ==
    /\ y \in Tree
    /\ y.root = IF x.root = g THEN p ELSE x.root
    /\ \A m \in Node : y.up[m] = IF m = g THEN p
                                 ELSE IF m = p THEN x.up[g]
                                 ELSE IF m = x.kid[p][Other(s)] THEN g
                                 ELSE x.up[m]
    /\ \A m \in Node, d \in Side :
          y.kid[m][d] = IF m = g /\ d = s THEN x.kid[p][Other(s)]
                        ELSE IF m = p /\ d = Other(s) THEN g
                        ELSE IF x.kid[m][d] = g THEN p
                        ELSE x.kid[m][d]

\* What surrounds the child p of g at side s: tmp is the inner child of p, u
\* the parent of g.
RotationSite(x, g, s, p, tmp, u) ==
    /\ p \in Node /\ tmp \in Link /\ u \in Link
    /\ p # g /\ tmp # g /\ tmp # p /\ u # g /\ u # p
    /\ x.up[p] = g /\ (tmp # NIL => x.up[tmp] = p)
    /\ \A m \in Node, d \in Side :
          /\ x.kid[m][d] = g => m = u
          /\ x.kid[m][d] = p => m = g /\ d = s
          /\ x.kid[m][d] = tmp /\ tmp # NIL => m = p /\ d = Other(s)
    /\ g \in InTree(x) /\ p \in InTree(x) /\ (tmp # NIL => tmp \in InTree(x))
    /\ u = NIL <=> x.root = g
    /\ u # NIL => \E d \in Side : x.kid[u][d] = g
    /\ x.root # p /\ (tmp # NIL => x.root # tmp)
    /\ u # NIL => u # tmp

\* The surroundings are such in every tree.
LEMMA RotationFacts ==
    ASSUME NEW x, NEW S, NEW pos, Links(x), Shape(x, S, pos),
           NEW g \in Node, NEW s \in Side, x.kid[g][s] # NIL
    PROVE  RotationSite(x, g, s, x.kid[g][s], x.kid[x.kid[g][s]][Other(s)], x.up[g])
<1> DEFINE p == x.kid[g][s]
           tmp == x.kid[p][Other(s)]
           u == x.up[g]
<1>1. x \in Tree /\ g # NIL
  BY Basics DEF Links
<1>2. /\ p \in Node /\ p # g /\ x.up[p] = g /\ p # NIL
      /\ p # x.kid[g][Other(s)] /\ g \notin S[p]
  BY ShapeFacts DEF KidFacts
<1>3. tmp \in Link /\ u \in Link /\ Other(s) \in Side /\ Other(Other(s)) = s
  BY <1>1, <1>2, TreeFields, Basics
<1>4. tmp # NIL => /\ tmp \in Node /\ tmp # p /\ x.up[tmp] = p
                   /\ tmp # x.kid[p][s] /\ tmp \in S[tmp]
  BY <1>2, <1>3, ShapeFacts DEF KidFacts
<1>5. p \in S[p] /\ S[p] \subseteq S[g] /\ S[tmp] \subseteq S[p]
  BY <1>2, <1>3, ShapeFacts DEF KidFacts
<1>6. tmp # g
  BY <1>1, <1>2, <1>4, <1>5
<1>7. u # NIL => /\ u \in Node
                 /\ \E d \in Side : x.kid[u][d] = g
                 /\ u # g /\ S[g] \subseteq S[u] /\ u \notin S[g]
  <2> HAVE u # NIL
  <2>1. u \in Node
    BY <1>3, Basics
  <2>2. PICK d \in Side : x.kid[u][d] = g
    BY DEF Links
  <2> QED
    BY <1>1, <2>1, <2>2, ShapeFacts DEF KidFacts
<1>8. u # g /\ u # p
  BY <1>1, <1>2, <1>5, <1>7
<1>9. tmp # p
  BY <1>2, <1>4
<1>10. ASSUME NEW m \in Node, NEW d \in Side
      PROVE  /\ x.kid[m][d] = g => m = u
             /\ x.kid[m][d] = p => m = g /\ d = s
             /\ x.kid[m][d] = tmp /\ tmp # NIL => m = p /\ d = Other(s)
  <2>1. d = s \/ d = Other(s)
    BY Basics
  <2>2. x.kid[m][d] # NIL => x.up[x.kid[m][d]] = m
    BY DEF Links
  <2> QED
    BY <1>1, <1>2, <1>3, <1>4, <2>1, <2>2, Basics
<1>11. g \in InTree(x) /\ p \in InTree(x) /\ (tmp # NIL => tmp \in InTree(x))
  <2>1. g \in InTree(x)
    BY <1>2 DEF Links
  <2> QED
    BY <1>1, <1>2, <1>4, <2>1 DEF InTree
<1>12. u = NIL <=> x.root = g
  BY <1>1, <1>11 DEF InTree, Links
<1>13. x.root # p /\ (tmp # NIL => x.root # tmp)
  BY <1>1, <1>2, <1>4 DEF Links
<1>14. u # NIL => u # tmp
  BY <1>4, <1>5, <1>7
<1> QED
  BY <1>2, <1>3, <1>4, <1>6, <1>7, <1>8, <1>9, <1>10, <1>11, <1>12, <1>13, <1>14 DEF RotationSite

\* A rotation moves no node to another side of another one.
LEMMA RotationShape ==
    ASSUME NEW x, NEW S, NEW pos, Links(x), Shape(x, S, pos),
           NEW g \in Node, NEW s \in Side, x.kid[g][s] # NIL,
           NEW y, Rotated(x, y, g, x.kid[g][s], s)
    PROVE  /\ Links(y) /\ InTree(y) = InTree(x)
           /\ \E S2 : Shape(y, S2, pos)
<1> DEFINE o == Other(s)
<1>1. PICK p, tmp, u : p = x.kid[g][s] /\ tmp = x.kid[p][o] /\ u = x.up[g]
  OBVIOUS
<1>2. RotationSite(x, g, s, p, tmp, u)
  BY <1>1, RotationFacts
<1>3. /\ p \in Node /\ tmp \in Link /\ u \in Link
      /\ p # g /\ tmp # g /\ tmp # p /\ u # g /\ u # p
      /\ x.up[p] = g /\ (tmp # NIL => x.up[tmp] = p)
      /\ g \in InTree(x) /\ p \in InTree(x) /\ (tmp # NIL => tmp \in InTree(x))
      /\ u = NIL <=> x.root = g
      /\ u # NIL => \E d \in Side : x.kid[u][d] = g
      /\ x.root # p /\ (tmp # NIL => x.root # tmp)
  BY <1>2 DEF RotationSite
<1>4. \A m \in Node, d \in Side :
                 /\ x.kid[m][d] = g => m = u
                 /\ x.kid[m][d] = p => m = g /\ d = s
                 /\ x.kid[m][d] = tmp /\ tmp # NIL => m = p /\ d = o
  BY <1>2 DEF RotationSite
<1>5. /\ y \in Tree
      /\ y.root = IF x.root = g THEN p ELSE x.root
      /\ \A m \in Node : y.up[m] = IF m = g THEN p
                                   ELSE IF m = p THEN u
                                   ELSE IF m = tmp THEN g
                                   ELSE x.up[m]
      /\ \A m \in Node, d \in Side :
            y.kid[m][d] = IF m = g /\ d = s THEN tmp
                          ELSE IF m = p /\ d = o THEN g
                          ELSE IF x.kid[m][d] = g THEN p
                          ELSE x.kid[m][d]
  BY <1>1 DEF Rotated
<1>6. /\ NIL \notin Node /\ o \in Side /\ o # s /\ g # NIL /\ p # NIL
      /\ \A d \in Side : d = s \/ d = o
      /\ \A l \in Link : l # NIL => l \in Node
      /\ \A m \in Node, d \in Side : x.kid[m][d] \in Link
      /\ \A m \in Node : x.up[m] \in Link
      /\ x.root \in Link
  BY <1>3, Basics, TreeFields DEF Links
<1> HIDE DEF o
<1>7. InTree(y) = InTree(x)
  <2>1. ASSUME NEW n \in Node
        PROVE  n \in InTree(y) <=> n \in InTree(x)
    BY <1>3, <1>5, <1>6 DEF InTree
  <2> QED
    BY <2>1 DEF InTree
<1>8. Links(y)
  <2>1. ASSUME NEW n \in Node, NEW d \in Side, y.kid[n][d] # NIL
        PROVE  y.up[y.kid[n][d]] = n
    <3>0. x.kid[n][d] # NIL => x.up[x.kid[n][d]] = n
      BY DEF Links
    <3>1. CASE n = g /\ d = s
      BY <1>3, <1>5, <1>6, <2>1, <3>1
    <3>2. CASE n = p /\ d = o
      BY <1>3, <1>5, <1>6, <2>1, <3>2
    <3>3. CASE x.kid[n][d] = g /\ ~(n = g /\ d = s) /\ ~(n = p /\ d = o)
      BY <1>3, <1>4, <1>5, <1>6, <2>1, <3>3
    <3>4. CASE x.kid[n][d] # g /\ ~(n = g /\ d = s) /\ ~(n = p /\ d = o)
      BY <1>3, <1>4, <1>5, <1>6, <2>1, <3>0, <3>4
    <3> QED
      BY <3>1, <3>2, <3>3, <3>4
  <2>2. ASSUME NEW n \in Node, y.up[n] # NIL
        PROVE  \E d \in Side : y.kid[y.up[n]][d] = n
    <3>0. x.up[n] # NIL => \E d \in Side : x.kid[x.up[n]][d] = n
      BY DEF Links
    <3>1. CASE n = g
      BY <1>3, <1>5, <1>6, <3>1
    <3>2. CASE n = p
      BY <1>3, <1>4, <1>5, <1>6, <2>2, <3>2
    <3>3. CASE n = tmp
      BY <1>3, <1>4, <1>5, <1>6, <3>3
    <3>4. CASE n # g /\ n # p /\ n # tmp
      <4>1. y.up[n] = x.up[n] /\ x.up[n] # NIL
        BY <1>5, <2>2, <3>4
      <4>2. PICK v \in Node : v = x.up[n]
        BY <1>6, <4>1
      <4>3. PICK d \in Side : x.kid[v][d] = n
        BY <3>0, <4>1, <4>2
      <4>4. CASE v = g /\ d = s
        BY <1>1, <3>4, <4>3, <4>4
      <4>5. CASE v = p /\ d = o
        BY <1>1, <3>4, <4>3, <4>5
      <4>6. CASE ~(v = g /\ d = s) /\ ~(v = p /\ d = o)
        <5>1. y.kid[v][d] = n
          BY <1>5, <3>4, <4>3, <4>6
        <5> QED
          BY <4>1, <4>2, <5>1
      <4> QED
        BY <4>4, <4>5, <4>6
    <3> QED
      BY <3>1, <3>2, <3>3, <3>4
  <2>3. y.root # NIL => y.up[y.root] = NIL
    <3>1. x.root # NIL => x.up[x.root] = NIL
      BY DEF Links
    <3> QED
      BY <1>3, <1>5, <1>6, <3>1
  <2>4. ASSUME NEW n \in Node, NEW d \in Side, n \notin InTree(y)
        PROVE  y.kid[n][d] = NIL
    <3>1. n \notin InTree(x) => x.kid[n][d] = NIL
      BY DEF Links
    <3> QED
      BY <1>3, <1>5, <1>6, <1>7, <2>4, <3>1
  <2> QED
    BY <1>5, <2>1, <2>2, <2>3, <2>4 DEF Links
<1>9. PICK S2 : S2 = [m \in Link |-> IF m = g THEN {g} \cup S[tmp] \cup S[x.kid[g][o]]
                                     ELSE IF m = p THEN S[g] ELSE S[m]]
  OBVIOUS
<1>10. /\ S \in [Link -> SUBSET Node] /\ pos \in [Node -> Int]
      /\ S[NIL] = {} /\ S[x.root] = InTree(x)
  BY DEF Shape
<1>11. \A m \in Node : S[m] = {m} \cup S[x.kid[m]["left"]] \cup S[x.kid[m]["right"]]
  BY DEF Shape
<1>12. \A m \in Node, d \in Side : S[m] = {m} \cup S[x.kid[m][d]] \cup S[x.kid[m][Other(d)]]
  BY <1>11, Basics
<1>13. \A m \in Node, d \in Side : \A a \in S[x.kid[m][d]] : At(pos, a, d, m)
  BY DEF Shape
<1>14. S[g] = {g} \cup S[p] \cup S[x.kid[g][o]] /\ S[p] = {p} \cup S[tmp] \cup S[x.kid[p][s]]
  <2>1. Other(s) = o /\ Other(o) = s
    BY Basics DEF o
  <2> QED
    BY <1>1, <1>3, <1>6, <1>12, <2>1
<1>15. /\ S2 \in [Link -> SUBSET Node]
       /\ S2[NIL] = {} /\ S2[y.root] = InTree(y)
  <2>1. S[tmp] \subseteq Node /\ S[x.kid[g][o]] \subseteq Node
    BY <1>3, <1>6, <1>10
  <2>2. S2 \in [Link -> SUBSET Node]
    BY <1>3, <1>9, <1>10, <2>1, Basics
  <2>3. S2[NIL] = {} /\ NIL \in Link
    BY <1>6, <1>9, <1>10, Basics
  <2>4. S2[y.root] = InTree(y)
    BY <1>3, <1>5, <1>6, <1>7, <1>9, <1>10, Basics
  <2> QED
    BY <2>2, <2>3, <2>4
<1>16. ASSUME NEW m \in Node, NEW d \in Side
       PROVE  /\ S2[m] = {m} \cup S2[y.kid[m][d]] \cup S2[y.kid[m][Other(d)]]
              /\ \A a \in S2[y.kid[m][d]] : At(pos, a, d, m)
  <2>0. m \in Link /\ tmp \in Link /\ g \in Link /\ p \in Link /\ Other(d) \in Side
    BY <1>3, Basics
  <2>1. S2[tmp] = S[tmp] /\ S2[p] = S[g] /\ S2[g] = {g} \cup S[tmp] \cup S[x.kid[g][o]]
    BY <1>3, <1>9, <2>0
  <2>2. CASE m = g
    <3>1. y.kid[g][s] = tmp /\ y.kid[g][o] = x.kid[g][o] /\ x.kid[g][o] \notin {g, p}
      BY <1>3, <1>4, <1>5, <1>6
    <3>2. S2[y.kid[g][s]] = S[tmp] /\ S2[y.kid[g][o]] = S[x.kid[g][o]]
      BY <1>6, <1>9, <2>1, <3>1
    <3>3. S[tmp] \subseteq S[p]
      BY <1>14
    <3>4. \A a \in S[tmp] : At(pos, a, s, g)
      BY <1>1, <1>13, <3>3
    <3>5. \A a \in S[x.kid[g][o]] : At(pos, a, o, g)
      BY <1>6, <1>13
    <3>6. Other(s) = o /\ Other(o) = s /\ (d = s \/ d = o)
      BY <1>6, Basics DEF o
    <3>7. CASE d = s
      BY <2>1, <2>2, <3>2, <3>4, <3>6, <3>7
    <3>8. CASE d = o
      BY <2>1, <2>2, <3>2, <3>5, <3>6, <3>8
    <3> QED
      BY <3>6, <3>7, <3>8
  <2>3. CASE m = p
    <3>1. y.kid[p][o] = g /\ y.kid[p][s] = x.kid[p][s] /\ x.kid[p][s] \notin {g, p}
      BY <1>3, <1>4, <1>5, <1>6
    <3>2. S2[y.kid[p][o]] = {g} \cup S[tmp] \cup S[x.kid[g][o]] /\ S2[y.kid[p][s]] = S[x.kid[p][s]]
      BY <1>3, <1>6, <1>9, <2>1, <3>1
    <3>3. \A a \in {g} \cup S[tmp] \cup S[x.kid[g][o]] : At(pos, a, o, p)
      <4>1. \A a \in S[tmp] : At(pos, a, o, p)
        BY <1>1, <1>3, <1>6, <1>13
      <4>2. At(pos, p, s, g)
        BY <1>1, <1>13, <1>14
      <4>3. At(pos, g, o, p)
        BY <4>2, <1>6, Basics DEF At, o
      <4>4. ASSUME NEW a \in S[x.kid[g][o]] PROVE At(pos, a, o, p)
        <5>1. At(pos, a, o, g) /\ a \in Node
          BY <1>6, <1>10, <1>13
        <5>2. pos[a] \in Int /\ pos[g] \in Int /\ pos[p] \in Int
          BY <1>3, <1>10, <5>1
        <5> QED
          BY <4>3, <5>1, <5>2 DEF At
      <4> QED
        BY <4>1, <4>3, <4>4
    <3>4. S[g] = {p} \cup S2[y.kid[p][o]] \cup S2[y.kid[p][s]]
      BY <1>14, <3>2
    <3>5. \A a \in S[x.kid[p][s]] : At(pos, a, s, p)
      BY <1>3, <1>13
    <3> QED
      BY <1>6, <2>1, <2>3, <3>2, <3>3, <3>4, <3>5, Basics DEF o
  <2>4. CASE m # g /\ m # p
    <3>1. ASSUME NEW e \in Side PROVE S2[y.kid[m][e]] = S[x.kid[m][e]]
      <4>1. CASE x.kid[m][e] = g
        BY <1>5, <2>1, <2>4, <4>1
      <4>2. CASE x.kid[m][e] # g
        BY <1>4, <1>5, <1>6, <1>9, <2>4, <4>2
      <4> QED
        BY <4>1, <4>2
    <3>2. S2[m] = S[m]
      BY <1>9, <2>0, <2>4
    <3> QED
      BY <1>12, <1>13, <2>0, <3>1, <3>2
  <2> QED
    BY <2>2, <2>3, <2>4
<1>17. Shape(y, S2, pos)
  BY <1>10, <1>15, <1>16, Basics DEF Shape
<1> QED
  BY <1>7, <1>8, <1>17

----------------------------------------------------------------------------
\* The writes of RotateAtGrandparent.
GrandWrites(w, y, p, g, s) ==
    /\ y \in Tree
    /\ y.root = IF w.up[g] = NIL THEN p ELSE w.root
    /\ \A m \in Node : y.up[m] = IF m = g THEN p
                                 ELSE IF m = p THEN w.up[g]
                                 ELSE IF m = w.kid[p][Other(s)] THEN g
                                 ELSE w.up[m]
    /\ \A m \in Node, d \in Side :
          y.kid[m][d] = IF m = g /\ d = s THEN w.kid[p][Other(s)]
                        ELSE IF m = p /\ d = Other(s) THEN g
                        ELSE IF m = w.up[g] /\ d = SideOf(w, w.up[g], g) THEN p
                        ELSE w.kid[m][d]

\* The colours after RotateAtGrandparent.
GrandColors(w, y, p, g, s) ==
    \A m \in Node : m \in y.black <=>
        IF m = g THEN FALSE ELSE IF m = p THEN g \in w.black
        ELSE m \in w.black \/ m = w.kid[p][Other(s)]

\* RotateAtGrandparent does those writes.
LEMMA GrandFields ==
    ASSUME NEW w \in Tree, NEW p \in Node, NEW g \in Node, p # g, NEW s \in Side,
           w.kid[p][Other(s)] # g, w.up[g] # g, w.up[g] # p
    PROVE  /\ GrandWrites(w, RotateAtGrandparent(w, p, g, s), p, g, s)
           /\ GrandColors(w, RotateAtGrandparent(w, p, g, s), p, g, s)
<1>1. PICK o \in Side : o = Other(s)
  BY Basics
<1>2. PICK tmp \in Link : tmp = w.kid[p][o]
  BY TreeFields
<1>3. PICK u \in Link : u = w.up[g]
  BY TreeFields
<1>4. PICK x0 : x0 = SetKid(w, g, s, tmp)
  OBVIOUS
<1>5. KidSet(w, x0, g, s, tmp)
  BY <1>4, SetKidFields
<1>6. x0 \in Tree /\ g \in Link
  BY <1>5, Basics DEF KidSet
<1>7. PICK x1 : x1 = SetKid(x0, p, o, g)
  OBVIOUS
<1>8. KidSet(x0, x1, p, o, g)
  BY <1>6, <1>7, SetKidFields
<1>9. x1 \in Tree
  BY <1>8 DEF KidSet
<1>10. PICK x2 : x2 = SetIfNode(x1, tmp, g, TRUE)
  OBVIOUS
<1>11. ColorSet(x1, x2, tmp, g, TRUE)
  BY <1>6, <1>9, <1>10, SetIfNodeFields
<1>12. x2 \in Tree
  BY <1>11 DEF ColorSet
<1>13. PICK y : y = __rb_rotate_set_parents(x2, g, p, FALSE)
  OBVIOUS
<1>14. ParentsRotated(x2, y, g, p, x2.up[g], FALSE)
  BY <1>12, <1>13, RotateParentsFields
<1>15. y = RotateAtGrandparent(w, p, g, s)
  BY <1>1, <1>2, <1>4, <1>7, <1>10, <1>13 DEF RotateAtGrandparent
<1>16. x2.up[g] = u
  BY <1>1, <1>2, <1>3, <1>5, <1>8, <1>11 DEF KidSet, ColorSet
<1>17. u # NIL => SideOf(x2, u, g) = SideOf(w, u, g)
  <2>1. u # NIL => u \in Node /\ u # g /\ u # p
    BY <1>3, Basics
  <2> QED
    BY <1>5, <1>8, <1>11, <2>1, Basics DEF KidSet, ColorSet, SideOf
<1>18. \A m \in Node : y.up[m] = IF m = g THEN p
                                 ELSE IF m = p THEN u
                                 ELSE IF m = tmp THEN g
                                 ELSE w.up[m]
  BY <1>5, <1>8, <1>11, <1>14, <1>16 DEF KidSet, ColorSet, ParentsRotated
<1>19. ASSUME NEW m \in Node, NEW d \in Side
       PROVE  y.kid[m][d] = IF m = g /\ d = s THEN tmp
                            ELSE IF m = p /\ d = o THEN g
                            ELSE IF m = u /\ d = SideOf(w, u, g) THEN p
                            ELSE w.kid[m][d]
  <2>1. x2.kid[m][d] = IF m = g /\ d = s THEN tmp
                       ELSE IF m = p /\ d = o THEN g ELSE w.kid[m][d]
    BY <1>5, <1>8, <1>11 DEF KidSet, ColorSet
  <2>2. y.kid[m][d] = IF m = u /\ d = SideOf(x2, u, g) THEN p ELSE x2.kid[m][d]
    BY <1>14, <1>16 DEF ParentsRotated
  <2>3. u # g /\ u # p /\ (m = u => u # NIL)
    BY <1>3, Basics
  <2> QED
    BY <1>17, <2>1, <2>2, <2>3
<1>20. y \in Tree /\ y.root = IF u = NIL THEN p ELSE w.root
  BY <1>5, <1>8, <1>11, <1>14, <1>16 DEF KidSet, ColorSet, ParentsRotated
<1>21. \A m \in Node : m \in y.black <=>
          IF m = g THEN FALSE ELSE IF m = p THEN g \in w.black
          ELSE m \in w.black \/ m = tmp
  <2>1. g # tmp
    BY <1>1, <1>2
  <2> QED
    BY <1>5, <1>8, <1>11, <1>14, <2>1 DEF KidSet, ColorSet, ParentsRotated
<1>22. GrandWrites(w, y, p, g, s)
  BY <1>1, <1>2, <1>3, <1>18, <1>19, <1>20 DEF GrandWrites
<1>23. GrandColors(w, y, p, g, s)
  BY <1>1, <1>2, <1>21 DEF GrandColors
<1> QED
  BY <1>15, <1>22, <1>23

\* __rb_change_child finds a child at the side where it is.
LEMMA SideOfChild ==
    ASSUME NEW x, NEW S, NEW pos, Links(x), Shape(x, S, pos),
           NEW m \in Node, NEW d \in Side, x.kid[m][d] # NIL
    PROVE  SideOf(x, m, x.kid[m][d]) = d
<1>1. x.kid[m][d] # x.kid[m][Other(d)]
  BY ShapeFacts DEF KidFacts
<1> QED
  BY <1>1, Basics DEF SideOf

\* In a tree, those writes are a rotation.
LEMMA GrandRotates ==
    ASSUME NEW x, NEW S, NEW pos, Links(x), Shape(x, S, pos),
           NEW g \in Node, NEW s \in Side, x.kid[g][s] # NIL,
           NEW y, GrandWrites(x, y, x.kid[g][s], g, s)
    PROVE  Rotated(x, y, g, x.kid[g][s], s)
<1>1. PICK p, tmp, u : p = x.kid[g][s] /\ tmp = x.kid[p][Other(s)] /\ u = x.up[g]
  OBVIOUS
<1>2. RotationSite(x, g, s, p, tmp, u)
  BY <1>1, RotationFacts
<1>3. u \in Link /\ (u = NIL <=> x.root = g) /\ u # g /\ u # p
  BY <1>2 DEF RotationSite
<1>4. \A m \in Node, d \in Side : x.kid[m][d] = g => m = u
  BY <1>2 DEF RotationSite
<1>5. u # NIL => \E d \in Side : x.kid[u][d] = g
  BY <1>2 DEF RotationSite
<1>6. ASSUME NEW m \in Node, NEW d \in Side
      PROVE  (m = u /\ d = SideOf(x, u, g)) <=> x.kid[m][d] = g
  <2>1. ASSUME x.kid[m][d] = g PROVE m = u /\ d = SideOf(x, u, g)
    BY <1>4, <2>1, SideOfChild, Basics
  <2>2. ASSUME m = u, d = SideOf(x, u, g) PROVE x.kid[m][d] = g
    <3>1. PICK e \in Side : x.kid[u][e] = g
      BY <1>5, <2>2, Basics
    <3>2. SideOf(x, u, g) = e
      BY <2>2, <3>1, SideOfChild, Basics
    <3> QED
      BY <2>2, <3>1, <3>2
  <2> QED
    BY <2>1, <2>2
<1> QED
  BY <1>1, <1>3, <1>6 DEF GrandWrites, Rotated

----------------------------------------------------------------------------
\* y is x with n, the inner child of p, rotated above p and then above g; p
\* is the child of g at side s.
DoubleRotated(x, y, g, p, n, s) ==
    /\ y \in Tree
    /\ y.root = IF x.root = g THEN n ELSE x.root
    /\ \A m \in Node : y.up[m] = IF m = n THEN x.up[g]
                                 ELSE IF m = p \/ m = g THEN n
                                 ELSE IF m = x.kid[n][s] THEN p
                                 ELSE IF m = x.kid[n][Other(s)] THEN g
                                 ELSE x.up[m]
    /\ \A m \in Node, d \in Side :
          y.kid[m][d] = IF m = n THEN IF d = s THEN p ELSE g
                        ELSE IF m = p /\ d = Other(s) THEN x.kid[n][s]
                        ELSE IF m = g /\ d = s THEN x.kid[n][Other(s)]
                        ELSE IF x.kid[m][d] = g THEN n
                        ELSE x.kid[m][d]

\* n is the inner child of the child p of g at side s.
InnerChild(x, g, s, p, n) ==
    /\ p # NIL /\ p = x.kid[g][s]
    /\ n # NIL /\ n = x.kid[p][Other(s)]

\* The tree x rotated at g.
RotatedTree(x, g, p, s) ==
    [root  |-> IF x.root = g THEN p ELSE x.root,
     up    |-> [m \in Node |-> IF m = g THEN p
                               ELSE IF m = p THEN x.up[g]
                               ELSE IF m = x.kid[p][Other(s)] THEN g
                               ELSE x.up[m]],
     kid   |-> [m \in Node |-> [d \in Side |->
                  IF m = g /\ d = s THEN x.kid[p][Other(s)]
                  ELSE IF m = p /\ d = Other(s) THEN g
                  ELSE IF x.kid[m][d] = g THEN p
                  ELSE x.kid[m][d]]],
     black |-> x.black]

\* It is a rotation of x.
LEMMA RotatedTreeRotated ==
    ASSUME NEW x \in Tree, NEW g \in Node, NEW p \in Node, NEW s \in Side
    PROVE  Rotated(x, RotatedTree(x, g, p, s), g, p, s)
<1>1. PICK o \in Side : o = Other(s)
  BY Basics
<1>2. PICK y : y = RotatedTree(x, g, p, s)
  OBVIOUS
<1>3. /\ x.root \in Link /\ x.black \in SUBSET Node /\ p \in Link /\ g \in Link
      /\ \A m \in Node : x.up[m] \in Link
      /\ \A m \in Node, d \in Side : x.kid[m][d] \in Link
  BY TreeFields, Basics
<1>4. y.up \in [Node -> Link]
  BY <1>1, <1>2, <1>3 DEF RotatedTree
<1>5. y.kid \in [Node -> [Side -> Link]]
  BY <1>1, <1>2, <1>3 DEF RotatedTree
<1>6. y.root \in Link /\ y.black \in SUBSET Node
  BY <1>2, <1>3 DEF RotatedTree
<1>7. y = [root |-> y.root, up |-> y.up, kid |-> y.kid, black |-> y.black]
  BY <1>2 DEF RotatedTree
<1>8. y \in Tree
  BY <1>4, <1>5, <1>6, <1>7 DEF Tree
<1> QED
  BY <1>2, <1>8 DEF RotatedTree, Rotated

\* Two rotations move no node to another side of another one.
LEMMA DoubleRotation ==
    ASSUME NEW x, NEW S, NEW pos, Links(x), Shape(x, S, pos),
           NEW g \in Node, NEW s \in Side, NEW p, NEW n, InnerChild(x, g, s, p, n),
           NEW y, DoubleRotated(x, y, g, p, n, s)
    PROVE  /\ Links(y) /\ InTree(y) = InTree(x)
           /\ \E S2 : Shape(y, S2, pos)
<1>1. PICK o \in Side : o = Other(s) /\ Other(o) = s /\ o # s
  BY Basics
<1>2. PICK u, a, b : u = x.up[g] /\ a = x.kid[n][s] /\ b = x.kid[n][o]
  OBVIOUS
<1>a. RotationSite(x, g, s, p, n, u)
  <2>1. p = x.kid[g][s] /\ n = x.kid[x.kid[g][s]][Other(s)] /\ x.kid[g][s] # NIL
    BY DEF InnerChild
  <2> QED
    BY <1>2, <2>1, RotationFacts
<1>d. n # NIL /\ n = x.kid[p][Other(s)]
  BY DEF InnerChild
<1>3. /\ p \in Node /\ n \in Node /\ p # g /\ n # g /\ n # p /\ u # g /\ u # p
      /\ (u # NIL => u # n) /\ x.up[p] = g /\ x.up[n] = p /\ x.root # p /\ x.root # n
      /\ u \in Link
  BY <1>a, <1>d, Basics DEF RotationSite
<1>4. \A m \in Node, d \in Side :
         /\ x.kid[m][d] = g => m = u
         /\ x.kid[m][d] = p => m = g /\ d = s
         /\ x.kid[m][d] = n => m = p /\ d = o
  BY <1>1, <1>a, <1>d DEF RotationSite
<1>5. n \in Node /\ n # NIL /\ g # NIL /\ p # NIL /\ n # u
  BY <1>3, <1>d, Basics
<1>6. x.kid[p][o] = n
  BY <1>1, <1>d
<1>b. RotationSite(x, p, o, n, a, g)
  BY <1>1, <1>2, <1>3, <1>5, <1>6, RotationFacts
<1>7. /\ a \in Link /\ a # p /\ a # n /\ (a # NIL => x.up[a] = n) /\ a # g
  BY <1>5, <1>b, Basics DEF RotationSite
<1>c. KidFacts(x, S, pos)
  BY ShapeFacts
<1>8. b \in Link /\ (b # NIL => x.up[b] = n /\ b # a /\ b # n)
  BY <1>1, <1>2, <1>3, <1>c DEF KidFacts
<1>9. b # p /\ b # g /\ b # n
  BY <1>2, <1>3, <1>5, <1>8
<1>10. PICK z : z = RotatedTree(x, p, n, o)
  OBVIOUS
<1>11. x \in Tree
  BY DEF Links
<1>12. Rotated(x, z, p, n, o)
  BY <1>3, <1>5, <1>10, <1>11, RotatedTreeRotated
<1>13. Links(z) /\ InTree(z) = InTree(x) /\ \E S2 : Shape(z, S2, pos)
  BY <1>3, <1>5, <1>6, <1>12, RotationShape
<1>14. PICK S1 : Shape(z, S1, pos)
  BY <1>13
<1>15. /\ z.root = x.root
       /\ \A m \in Node : z.up[m] = IF m = p THEN n ELSE IF m = n THEN g
                                    ELSE IF m = a THEN p ELSE x.up[m]
       /\ \A m \in Node, d \in Side :
             z.kid[m][d] = IF m = p /\ d = o THEN a ELSE IF m = n /\ d = s THEN p
                           ELSE IF x.kid[m][d] = p THEN n ELSE x.kid[m][d]
  <2>1. x.kid[n][Other(o)] = a /\ Other(o) = s /\ x.up[p] = g /\ x.root # p
    BY <1>1, <1>2, <1>3
  <2> QED
    BY <1>12, <2>1 DEF Rotated
<1>16. z.kid[g][s] = n /\ z.kid[n][o] = b /\ z.up[g] = u
  <2>1. x.kid[g][s] = p
    BY DEF InnerChild
  <2>2. z.kid[g][s] = n
    BY <1>3, <1>15, <2>1
  <2>3. z.kid[n][o] = b
    BY <1>1, <1>2, <1>3, <1>9, <1>15
  <2> QED
    BY <1>2, <1>3, <1>7, <1>15, <2>2, <2>3
<1>17. /\ y \in Tree
       /\ y.root = IF x.root = g THEN n ELSE x.root
       /\ \A m \in Node : y.up[m] = IF m = n THEN u
                                    ELSE IF m = p \/ m = g THEN n
                                    ELSE IF m = a THEN p
                                    ELSE IF m = b THEN g
                                    ELSE x.up[m]
       /\ \A m \in Node, d \in Side :
             y.kid[m][d] = IF m = n THEN IF d = s THEN p ELSE g
                           ELSE IF m = p /\ d = o THEN a
                           ELSE IF m = g /\ d = s THEN b
                           ELSE IF x.kid[m][d] = g THEN n
                           ELSE x.kid[m][d]
  BY <1>1, <1>2 DEF DoubleRotated
<1>18. \A d \in Side : d = s \/ d = o
  BY <1>1, Basics
<1>19. \A m \in Node : y.up[m] = IF m = g THEN n ELSE IF m = n THEN u
                                 ELSE IF m = b THEN g ELSE z.up[m]
  BY <1>3, <1>5, <1>7, <1>8, <1>9, <1>15, <1>17, Basics
<1>20. \A m \in Node, d \in Side :
          y.kid[m][d] = IF m = g /\ d = s THEN b ELSE IF m = n /\ d = o THEN g
                        ELSE IF z.kid[m][d] = g THEN n ELSE z.kid[m][d]
  <2> TAKE m \in Node, d \in Side
  <2>1. d = s \/ d = o
    BY <1>18
  <2>2. CASE m = n
    BY <1>1, <1>2, <1>3, <1>5, <1>9, <1>15, <1>17, <2>1, <2>2
  <2>3. CASE m = p
    BY <1>1, <1>3, <1>4, <1>7, <1>15, <1>17, <2>1, <2>3
  <2>4. CASE m = g
    BY <1>1, <1>3, <1>4, <1>15, <1>17, <2>1, <2>4
  <2>5. CASE m # n /\ m # p /\ m # g
    BY <1>3, <1>4, <1>15, <1>17, <2>5
  <2> QED
    BY <2>2, <2>3, <2>4, <2>5
<1>21. Rotated(z, y, g, n, s)
  <2>1. y.root = IF z.root = g THEN n ELSE z.root
    BY <1>15, <1>17
  <2> QED
    BY <1>1, <1>16, <1>17, <1>19, <1>20, <2>1 DEF Rotated
<1> QED
  BY <1>5, <1>13, <1>14, <1>16, <1>21, RotationShape

\* The writes of RotateAtParent: half of the rotation of n above p.
ParentWrites(x, z, n, p, s) ==
    /\ z \in Tree /\ z.root = x.root
    /\ \A m \in Node : z.up[m] = IF m = p THEN n
                                 ELSE IF m = x.kid[n][s] THEN p ELSE x.up[m]
    /\ \A m \in Node, d \in Side :
          z.kid[m][d] = IF m = n /\ d = s THEN p
                        ELSE IF m = p /\ d = Other(s) THEN x.kid[n][s]
                        ELSE x.kid[m][d]
    /\ \A m \in Node : m \in z.black <=>
          IF m = p THEN FALSE ELSE m \in x.black \/ m = x.kid[n][s]

\* RotateAtParent does those writes.
LEMMA ParentFields ==
    ASSUME NEW x \in Tree, NEW n \in Node, NEW p \in Node, n # p, NEW s \in Side
    PROVE  ParentWrites(x, RotateAtParent(x, n, p, s), n, p, s)
<1>1. PICK o \in Side : o = Other(s)
  BY Basics
<1>2. PICK tmp \in Link : tmp = x.kid[n][s]
  BY TreeFields
<1>3. PICK x0 : x0 = SetKid(x, p, o, tmp)
  OBVIOUS
<1>4. KidSet(x, x0, p, o, tmp)
  BY <1>3, SetKidFields
<1>5. x0 \in Tree /\ p \in Link /\ n \in Link
  BY <1>4, Basics DEF KidSet
<1>6. PICK x1 : x1 = SetKid(x0, n, s, p)
  OBVIOUS
<1>7. KidSet(x0, x1, n, s, p)
  BY <1>5, <1>6, SetKidFields
<1>8. x1 \in Tree
  BY <1>7 DEF KidSet
<1>9. PICK x2 : x2 = SetIfNode(x1, tmp, p, TRUE)
  OBVIOUS
<1>10. ColorSet(x1, x2, tmp, p, TRUE)
  BY <1>5, <1>8, <1>9, SetIfNodeFields
<1>11. x2 \in Tree
  BY <1>10 DEF ColorSet
<1>12. PICK z : z = rb_set_parent_color(x2, p, n, FALSE)
  OBVIOUS
<1>13. ColorSet(x2, z, p, n, FALSE)
  BY <1>5, <1>11, <1>12, SetColorFields
<1>14. z = RotateAtParent(x, n, p, s)
  BY <1>1, <1>2, <1>3, <1>6, <1>9, <1>12 DEF RotateAtParent
<1>15. z \in Tree /\ z.root = x.root
  BY <1>4, <1>7, <1>10, <1>13 DEF KidSet, ColorSet
<1>16. \A m \in Node : z.up[m] = IF m = p THEN n ELSE IF m = tmp THEN p ELSE x.up[m]
  BY <1>4, <1>7, <1>10, <1>13 DEF KidSet, ColorSet
<1>17. \A m \in Node, d \in Side :
          z.kid[m][d] = IF m = n /\ d = s THEN p
                        ELSE IF m = p /\ d = o THEN tmp ELSE x.kid[m][d]
  BY <1>4, <1>7, <1>10, <1>13 DEF KidSet, ColorSet
<1>18. \A m \in Node : m \in z.black <=>
          IF m = p THEN FALSE ELSE m \in x.black \/ m = tmp
  BY <1>4, <1>7, <1>10, <1>13 DEF KidSet, ColorSet
<1> QED
  BY <1>1, <1>2, <1>14, <1>15, <1>16, <1>17, <1>18 DEF ParentWrites

\* The colours after the two rotations of an insertion.
DoubleColors(x, y, g, p, n, s) ==
    \A m \in Node : m \in y.black <=>
        IF m = g \/ m = p THEN FALSE ELSE IF m = n THEN g \in x.black
        ELSE m \in x.black \/ m = x.kid[n][s] \/ m = x.kid[n][Other(s)]

\* The nodes around an inner child n of p.
InnerSite(x, g, s, p, n, a, b, u) ==
    /\ p \in Node /\ n \in Node /\ a \in Link /\ b \in Link /\ u \in Link
    /\ p # g /\ n # g /\ n # p /\ u # g /\ u # p /\ u # n
    /\ a # g /\ a # p /\ a # n /\ b # g /\ b # p /\ b # n
    /\ (b # NIL => b # a) /\ (u # NIL => u # a /\ u # b)
    /\ x.up[p] = g /\ x.up[n] = p
    /\ (a # NIL => x.up[a] = n) /\ (b # NIL => x.up[b] = n)
    /\ \A m \in Node, d \in Side :
          /\ x.kid[m][d] = g => m = u
          /\ x.kid[m][d] = p => m = g /\ d = s
          /\ x.kid[m][d] = n => m = p /\ d = Other(s)
          /\ x.kid[m][d] = a /\ a # NIL => m = n /\ d = s
          /\ x.kid[m][d] = b /\ b # NIL => m = n /\ d = Other(s)
    /\ u = NIL <=> x.root = g
    /\ u # NIL => \E d \in Side : x.kid[u][d] = g
    /\ x.root # p /\ x.root # n
    /\ g \in InTree(x) /\ p \in InTree(x) /\ n \in InTree(x)

\* The surroundings are such in every tree.
LEMMA InnerFacts ==
    ASSUME NEW x, NEW S, NEW pos, Links(x), Shape(x, S, pos),
           NEW g \in Node, NEW s \in Side, NEW p, NEW n, InnerChild(x, g, s, p, n)
    PROVE  InnerSite(x, g, s, p, n, x.kid[n][s], x.kid[n][Other(s)], x.up[g])
<1>1. PICK o \in Side : o = Other(s) /\ Other(o) = s /\ o # s
  BY Basics
<1>2. PICK u, a, b : u = x.up[g] /\ a = x.kid[n][s] /\ b = x.kid[n][o]
  OBVIOUS
<1>a. RotationSite(x, g, s, p, n, u)
  <2>1. p = x.kid[g][s] /\ n = x.kid[x.kid[g][s]][Other(s)] /\ x.kid[g][s] # NIL
    BY DEF InnerChild
  <2> QED
    BY <1>2, <2>1, RotationFacts
<1>d. n # NIL /\ n = x.kid[p][Other(s)]
  BY DEF InnerChild
<1>3. /\ p \in Node /\ n \in Node /\ p # g /\ n # g /\ n # p /\ u # g /\ u # p
      /\ (u # NIL => u # n) /\ x.up[p] = g /\ x.up[n] = p /\ x.root # p /\ x.root # n
      /\ u \in Link
  BY <1>a, <1>d, Basics DEF RotationSite
<1>4. \A m \in Node, d \in Side :
         /\ x.kid[m][d] = g => m = u
         /\ x.kid[m][d] = p => m = g /\ d = s
         /\ x.kid[m][d] = n => m = p /\ d = o
  BY <1>1, <1>a, <1>d DEF RotationSite
<1>5. n \in Node /\ n # NIL /\ g # NIL /\ p # NIL /\ n # u
  BY <1>3, <1>d, Basics
<1>6. x.kid[p][o] = n
  BY <1>1, <1>d
<1>b. RotationSite(x, p, o, n, a, g)
  BY <1>1, <1>2, <1>3, <1>5, <1>6, RotationFacts
<1>7. /\ a \in Link /\ a # p /\ a # n /\ (a # NIL => x.up[a] = n) /\ a # g
  BY <1>5, <1>b, Basics DEF RotationSite
<1>c. KidFacts(x, S, pos)
  BY ShapeFacts
<1>8. b \in Link /\ (b # NIL => x.up[b] = n /\ b # a /\ b # n)
  BY <1>1, <1>2, <1>3, <1>c DEF KidFacts
<1>9. b # p /\ b # g /\ b # n
  BY <1>2, <1>3, <1>5, <1>8
<1>10. ASSUME NEW m \in Node, NEW d \in Side
       PROVE  /\ x.kid[m][d] = a /\ a # NIL => m = n /\ d = s
              /\ x.kid[m][d] = b /\ b # NIL => m = n /\ d = o
  <2>1. x.kid[m][d] # NIL => x.up[x.kid[m][d]] = m
    BY <1>c DEF KidFacts
  <2>2. d = s \/ d = o
    BY <1>1, Basics
  <2> QED
    BY <1>2, <1>7, <1>8, <2>1, <2>2
<1>11. u # NIL => u # a /\ u # b
  <2> HAVE u # NIL
  <2>1. PICK d \in Side : x.kid[u][d] = g
    BY <1>a DEF RotationSite
  <2>2. u \in Node
    BY <1>3, Basics
  <2>3. S[g] \subseteq S[u] /\ u \notin S[g]
    BY <1>5, <1>c, <2>1, <2>2 DEF KidFacts
  <2>4. S[n] \subseteq S[p] /\ S[p] \subseteq S[g] /\ S[a] \subseteq S[n] /\ S[b] \subseteq S[n]
    <3>1. x.kid[g][s] = p
      BY DEF InnerChild
    <3> QED
      BY <1>2, <1>3, <1>6, <1>c, <3>1 DEF KidFacts
  <2>5. u \in S[u]
    BY <1>c, <2>2 DEF KidFacts
  <2> QED
    BY <2>3, <2>4, <2>5
<1>12. u = NIL <=> x.root = g
  BY <1>a DEF RotationSite
<1>13. u # NIL => \E d \in Side : x.kid[u][d] = g
  BY <1>a DEF RotationSite
<1>14. g \in InTree(x) /\ p \in InTree(x) /\ n \in InTree(x)
  BY <1>a, <1>d DEF RotationSite
<1>15. InnerSite(x, g, s, p, n, a, b, u)
  BY <1>1, <1>3, <1>4, <1>5, <1>7, <1>8, <1>9, <1>10, <1>11, <1>12, <1>13, <1>14 DEF InnerSite
<1> QED
  BY <1>1, <1>2, <1>15

\* Cases 2 and 3 of __rb_insert.
LEMMA InsertDouble ==
    ASSUME NEW x, NEW S, NEW pos, Links(x), Shape(x, S, pos),
           NEW g \in Node, NEW s \in Side, NEW p, NEW n, InnerChild(x, g, s, p, n),
           NEW y, y = RotateAtGrandparent(RotateAtParent(x, n, p, s), n, g, s)
    PROVE  DoubleRotated(x, y, g, p, n, s) /\ DoubleColors(x, y, g, p, n, s)
<1>1. PICK o \in Side : o = Other(s) /\ Other(o) = s /\ o # s
  BY Basics
<1>2. PICK u, a, b : u = x.up[g] /\ a = x.kid[n][s] /\ b = x.kid[n][o]
  OBVIOUS
<1>3. InnerSite(x, g, s, p, n, a, b, u)
  BY <1>1, <1>2, InnerFacts
<1>4. /\ p \in Node /\ n \in Node /\ u \in Link
      /\ p # g /\ n # g /\ n # p /\ u # g /\ u # p /\ u # n
      /\ a # g /\ a # p /\ a # n /\ b # g /\ b # p /\ b # n
      /\ (u = NIL <=> x.root = g) /\ x.up[n] = p
      /\ x.root # p /\ x.root # n /\ (b # NIL => b # a)
  BY <1>3 DEF InnerSite
<1>5. PICK z : z = RotateAtParent(x, n, p, s)
  OBVIOUS
<1>6. x \in Tree
  BY DEF Links
<1>7. ParentWrites(x, z, n, p, s)
  BY <1>4, <1>5, <1>6, ParentFields
<1>8. /\ z \in Tree /\ z.root = x.root
      /\ \A m \in Node : z.up[m] = IF m = p THEN n ELSE IF m = a THEN p ELSE x.up[m]
      /\ \A m \in Node, d \in Side :
            z.kid[m][d] = IF m = n /\ d = s THEN p
                          ELSE IF m = p /\ d = o THEN a ELSE x.kid[m][d]
      /\ \A m \in Node : m \in z.black <=> IF m = p THEN FALSE ELSE m \in x.black \/ m = a
  BY <1>1, <1>2, <1>7 DEF ParentWrites
<1>9. z.kid[n][o] = b /\ z.up[g] = u
  BY <1>1, <1>2, <1>4, <1>8
<1>10. GrandWrites(z, y, n, g, s) /\ GrandColors(z, y, n, g, s)
  <2>1. z.kid[n][Other(s)] # g /\ z.up[g] # g /\ z.up[g] # n
    BY <1>1, <1>4, <1>9
  <2> QED
    BY <1>4, <1>5, <1>8, <2>1, GrandFields
<1>11. /\ y \in Tree
       /\ y.root = IF u = NIL THEN n ELSE z.root
       /\ \A m \in Node : y.up[m] = IF m = g THEN n ELSE IF m = n THEN u
                                    ELSE IF m = b THEN g ELSE z.up[m]
       /\ \A m \in Node, d \in Side :
             y.kid[m][d] = IF m = g /\ d = s THEN b
                           ELSE IF m = n /\ d = o THEN g
                           ELSE IF m = u /\ d = SideOf(z, u, g) THEN n
                           ELSE z.kid[m][d]
       /\ \A m \in Node : m \in y.black <=>
             IF m = g THEN FALSE ELSE IF m = n THEN g \in z.black
             ELSE m \in z.black \/ m = b
  BY <1>1, <1>9, <1>10 DEF GrandWrites, GrandColors
<1>12. \A m \in Node, d \in Side :
          /\ x.kid[m][d] = g => m = u
          /\ x.kid[m][d] = p => m = g /\ d = s
  BY <1>3 DEF InnerSite
<1>13. ASSUME NEW m \in Node, NEW d \in Side
       PROVE  (m = u /\ d = SideOf(z, u, g)) <=> x.kid[m][d] = g
  <2>0. g # NIL
    BY Basics
  <2>1. ASSUME u \in Node PROVE SideOf(z, u, g) = SideOf(x, u, g)
    BY <1>4, <1>8, <2>1, Basics DEF SideOf
  <2>2. ASSUME x.kid[m][d] = g PROVE m = u /\ d = SideOf(z, u, g)
    <3>1. SideOf(x, m, x.kid[m][d]) = d
      BY <2>0, <2>2, SideOfChild
    <3> QED
      BY <1>12, <2>1, <2>2, <3>1
  <2>3. ASSUME m = u, d = SideOf(z, u, g) PROVE x.kid[m][d] = g
    <3>1. PICK e \in Side : x.kid[u][e] = g
      BY <1>3, <2>3, Basics DEF InnerSite
    <3>2. SideOf(x, u, x.kid[u][e]) = e
      BY <2>0, <2>3, <3>1, SideOfChild
    <3> QED
      BY <2>1, <2>3, <3>1, <3>2
  <2> QED
    BY <2>2, <2>3
<1>14. \A m \in Node : y.up[m] = IF m = n THEN u ELSE IF m = p \/ m = g THEN n
                                 ELSE IF m = a THEN p ELSE IF m = b THEN g ELSE x.up[m]
  BY <1>4, <1>8, <1>11, Basics
<1>15. \A m \in Node, d \in Side :
          y.kid[m][d] = IF m = n THEN IF d = s THEN p ELSE g
                        ELSE IF m = p /\ d = o THEN a
                        ELSE IF m = g /\ d = s THEN b
                        ELSE IF x.kid[m][d] = g THEN n ELSE x.kid[m][d]
  <2> TAKE m \in Node, d \in Side
  <2>1. d = s \/ d = o
    BY <1>1, Basics
  <2>2. y.kid[m][d] = IF m = g /\ d = s THEN b
                      ELSE IF m = n /\ d = o THEN g
                      ELSE IF x.kid[m][d] = g THEN n
                      ELSE z.kid[m][d]
    BY <1>11, <1>13
  <2>3. z.kid[m][d] = IF m = n /\ d = s THEN p
                      ELSE IF m = p /\ d = o THEN a ELSE x.kid[m][d]
    BY <1>8
  <2>4. x.kid[m][d] = g => m = u
    BY <1>12
  <2> QED
    BY <1>1, <1>4, <2>1, <2>2, <2>3, <2>4
<1>16. DoubleRotated(x, y, g, p, n, s)
  <2>1. y.root = IF x.root = g THEN n ELSE x.root
    BY <1>4, <1>8, <1>11
  <2> QED
    BY <1>1, <1>2, <1>11, <1>14, <1>15, <2>1 DEF DoubleRotated
<1>17. \A m \in Node : m \in y.black <=>
          IF m = g \/ m = p THEN FALSE ELSE IF m = n THEN g \in x.black
          ELSE m \in x.black \/ m = a \/ m = b
  BY <1>4, <1>8, <1>11
<1>18. DoubleColors(x, y, g, p, n, s)
  BY <1>1, <1>2, <1>17 DEF DoubleColors
<1> QED
  BY <1>16, <1>18

----------------------------------------------------------------------------
\* h[m] is the number of black nodes on every path from m down.
Balanced(x, h) ==
    /\ h \in [Link -> Nat] /\ h[NIL] = 0
    /\ \A m \in Node, d \in Side :
          h[m] = h[x.kid[m][d]] + (IF m \in x.black THEN 1 ELSE 0)

\* The same, but below p one is missing at side e.
Gapped(x, h, p, e) ==
    /\ h \in [Link -> Nat] /\ h[NIL] = 0
    /\ \A m \in Node, d \in Side :
          h[m] = h[x.kid[m][d]] + (IF m \in x.black THEN 1 ELSE 0)
                                + (IF m = p /\ d = e THEN 1 ELSE 0)

\* Only e may be red below a red node, or be a red root.
Coloured(x, e) ==
    /\ x.black \subseteq InTree(x)
    /\ \A n \in InTree(x) : n \notin x.black /\ n # e => x.up[n] \in x.black

\* A red-black tree.
Rest(x) == Coloured(x, NIL) /\ \E h : Balanced(x, h)

\* The loop of __rb_insert: the red node n may have a red parent.
Inserting(x, h, n) ==
    /\ n \in InTree(x) /\ n \notin x.black
    /\ Coloured(x, n) /\ Balanced(x, h)

\* The loop of ____rb_erase_color: below p at side d one black node is missing.
Erasing(x, h, n, p, d) ==
    /\ p \in InTree(x) /\ x.kid[p][d] = n /\ (n = NIL \/ n \in x.black)
    /\ Coloured(x, NIL) /\ Gapped(x, h, p, d)

\* Case 3 of __rb_insert.
LEMMA InsertSingleRest ==
    ASSUME NEW x, NEW S, NEW pos, Links(x), Shape(x, S, pos),
           NEW g \in Node, NEW s \in Side, NEW h, NEW p, NEW n,
           x.kid[g][s] # NIL, x.kid[g][s] = p, p \notin x.black,
           n # x.kid[p][Other(s)], x.up[n] = p, Inserting(x, h, n),
           ~IsRed(x, x.kid[g][Other(s)]),
           NEW y, Rotated(x, y, g, p, s), GrandColors(x, y, p, g, s), InTree(y) = InTree(x)
    PROVE  Rest(y)
<1>1. PICK o \in Side : o = Other(s) /\ Other(o) = s /\ o # s
  BY Basics
<1>2. PICK tmp, u, c : tmp = x.kid[p][o] /\ u = x.up[g] /\ c = x.kid[g][o]
  OBVIOUS
<1>3. RotationSite(x, g, s, p, tmp, u)
  BY <1>1, <1>2, RotationFacts
<1>4. /\ p \in Node /\ tmp \in Link /\ u \in Link
      /\ p # g /\ tmp # g /\ tmp # p /\ u # g /\ u # p
      /\ x.up[p] = g /\ (tmp # NIL => x.up[tmp] = p /\ tmp \in InTree(x))
      /\ g \in InTree(x) /\ p \in InTree(x)
  BY <1>3 DEF RotationSite
<1>5. \A m \in Node, d \in Side :
          /\ x.kid[m][d] = g => m = u
          /\ x.kid[m][d] = p => m = g /\ d = s
          /\ x.kid[m][d] = tmp /\ tmp # NIL => m = p /\ d = o
  BY <1>1, <1>3 DEF RotationSite
<1>6. /\ n \in InTree(x) /\ n \notin x.black /\ x.black \subseteq InTree(x)
      /\ \A m \in InTree(x) : m \notin x.black /\ m # n => x.up[m] \in x.black
      /\ n \in Node
  BY DEF Inserting, Coloured, InTree
<1>7. Balanced(x, h)
  BY DEF Inserting
<1>8. c = NIL \/ c \in x.black
  BY <1>1, <1>2 DEF IsRed
<1>9. n # p /\ g \in x.black /\ n # tmp /\ (tmp = NIL \/ tmp \in x.black)
  <2>1. n # p
    BY <1>4
  <2>2. g \in x.black
    BY <1>4, <1>6, <2>1
  <2>3. n # tmp
    BY <1>1, <1>2
  <2> QED
    BY <1>4, <1>6, <2>1, <2>2, <2>3
<1>10. \A m \in Node : m \in y.black <=> IF m = g THEN FALSE ELSE IF m = p THEN TRUE
                                         ELSE m \in x.black
  BY <1>1, <1>2, <1>9, Basics DEF GrandColors
<1>11. /\ \A m \in Node : y.up[m] = IF m = g THEN p ELSE IF m = p THEN u
                                    ELSE IF m = tmp THEN g ELSE x.up[m]
       /\ \A m \in Node, d \in Side :
             y.kid[m][d] = IF m = g /\ d = s THEN tmp
                           ELSE IF m = p /\ d = o THEN g
                           ELSE IF x.kid[m][d] = g THEN p
                           ELSE x.kid[m][d]
       /\ y \in Tree
  BY <1>1, <1>2 DEF Rotated
<1>12. Coloured(y, NIL)
  <2>1. y.black \subseteq Node
    BY <1>11, TreeFields
  <2>2. y.black \subseteq InTree(y)
    BY <1>4, <1>6, <1>10, <2>1
  <2>3. ASSUME NEW m \in InTree(y), m \notin y.black
        PROVE  y.up[m] \in y.black
    <3>0. m \in Node /\ m \in InTree(x)
      BY DEF InTree
    <3>1. CASE m = g
      BY <1>4, <1>10, <1>11, <3>1
    <3>2. CASE m = n
      BY <1>4, <1>9, <1>10, <1>11, <3>0, <3>2
    <3>3. CASE m # g /\ m # n
      <4>1. m # p /\ m \notin x.black
        BY <1>10, <2>3, <3>0, <3>3
      <4>2. x.up[m] \in x.black /\ m # tmp
        BY <1>6, <1>9, <3>0, <3>3, <4>1, Basics
      <4>3. x.up[m] # g
        <5>1. SUFFICES ASSUME x.up[m] = g PROVE FALSE
          OBVIOUS
        <5>2. PICK d \in Side : x.kid[g][d] = m
          BY <3>0, <5>1, Basics DEF Links
        <5>3. d = s \/ d = o
          BY <1>1, Basics
        <5>4. m = p \/ m = c
          BY <1>2, <5>2, <5>3
        <5> QED
          BY <1>8, <3>0, <4>1, <5>4, Basics
      <4>4. x.up[m] \in Node
        BY <4>2, TreeFields DEF Links
      <4> QED
        BY <1>10, <1>11, <3>0, <3>3, <4>1, <4>2, <4>3, <4>4
    <3> QED
      BY <3>1, <3>2, <3>3
  <2> QED
    BY <2>2, <2>3 DEF Coloured
<1>13. \A m \in Node : m \in Link /\ m # NIL
  BY Basics
<1>14. /\ h \in [Link -> Nat] /\ h[NIL] = 0 /\ NIL \in Link
       /\ \A m \in Node, d \in Side :
             h[m] = h[x.kid[m][d]] + (IF m \in x.black THEN 1 ELSE 0)
  BY <1>7, Basics DEF Balanced
<1>15. PICK h2 : h2 = [m \in Link |-> IF m = g THEN h[p] ELSE IF m = p THEN h[g] ELSE h[m]]
  OBVIOUS
<1>16. h2 \in [Link -> Nat] /\ h2[NIL] = 0
  BY <1>4, <1>13, <1>14, <1>15
<1>17. /\ h[p] = h[tmp] /\ h[p] = h[x.kid[p][s]]
       /\ h[g] = h[p] + 1 /\ h[g] = h[c] + 1
       /\ h[p] \in Nat /\ h[g] \in Nat /\ h[c] \in Nat /\ h[tmp] \in Nat
  <2>1. x.kid[g][s] = p /\ x.kid[g][o] = c /\ x.kid[p][o] = tmp
    BY <1>2
  <2>2. c \in Link /\ x.kid[p][s] \in Link
    BY <1>2, <1>4, TreeFields DEF Links
  <2> QED
    BY <1>4, <1>9, <1>13, <1>14, <2>1, <2>2
<1>18. ASSUME NEW m \in Node, NEW d \in Side
       PROVE  h2[m] = h2[y.kid[m][d]] + (IF m \in y.black THEN 1 ELSE 0)
  <2>0. d = s \/ d = o
    BY <1>1, Basics
  <2>1. x.kid[m][d] \in Link
    BY TreeFields DEF Links
  <2>2. h2[g] = h[p] /\ h2[p] = h[g]
    BY <1>4, <1>13, <1>15
  <2>3. \A l \in Link : l # g /\ l # p => h2[l] = h[l]
    BY <1>15
  <2>4. CASE m = g
    <3>1. y.kid[g][s] = tmp /\ y.kid[g][o] = c
      <4>1. c # g
        BY <1>2, <1>4, <1>5
      <4> QED
        BY <1>1, <1>2, <1>4, <1>11, <4>1
    <3>2. h2[tmp] = h[tmp] /\ h2[c] = h[c]
      <4>1. c # g /\ c # p /\ c \in Link
        BY <1>1, <1>2, <1>4, <1>5, TreeFields DEF Links
      <4> QED
        BY <1>4, <2>3, <4>1
    <3> QED
      BY <1>10, <1>17, <2>0, <2>2, <2>4, <3>1, <3>2
  <2>5. CASE m = p
    <3>1. y.kid[p][o] = g /\ y.kid[p][s] = x.kid[p][s] /\ x.kid[p][s] \notin {g, p}
      BY <1>1, <1>4, <1>5, <1>11
    <3>2. h2[x.kid[p][s]] = h[x.kid[p][s]]
      <4>1. x.kid[p][s] \in Link
        BY <1>4, TreeFields DEF Links
      <4> QED
        BY <2>3, <3>1, <4>1
    <3> QED
      BY <1>4, <1>10, <1>17, <2>0, <2>2, <2>5, <3>1, <3>2
  <2>6. CASE m # g /\ m # p
    <3>1. h2[m] = h[m] /\ (m \in y.black <=> m \in x.black)
      BY <1>10, <1>13, <2>3, <2>6
    <3>2. h2[y.kid[m][d]] = h[x.kid[m][d]]
      <4>1. CASE x.kid[m][d] = g
        BY <1>11, <2>2, <2>6, <4>1
      <4>2. CASE x.kid[m][d] # g
        BY <1>5, <1>11, <2>1, <2>3, <2>6, <4>2
      <4> QED
        BY <4>1, <4>2
    <3> QED
      BY <1>14, <3>1, <3>2
  <2> QED
    BY <2>4, <2>5, <2>6
<1>19. Balanced(y, h2)
  BY <1>16, <1>18 DEF Balanced
<1> QED
  BY <1>12, <1>19 DEF Rest

\* Case 2 of __rb_insert, followed by case 3.
LEMMA InsertDoubleRest ==
    ASSUME NEW x, NEW S, NEW pos, Links(x), Shape(x, S, pos),
           NEW g \in Node, NEW s \in Side, NEW h, NEW p, NEW n,
           InnerChild(x, g, s, p, n), p \notin x.black, Inserting(x, h, n),
           ~IsRed(x, x.kid[g][Other(s)]),
           NEW y, DoubleRotated(x, y, g, p, n, s), DoubleColors(x, y, g, p, n, s),
           InTree(y) = InTree(x)
    PROVE  Rest(y)
<1>1. PICK o \in Side : o = Other(s) /\ Other(o) = s /\ o # s
  BY Basics
<1>2. PICK u, a, b, c : u = x.up[g] /\ a = x.kid[n][s] /\ b = x.kid[n][o] /\ c = x.kid[g][o]
  OBVIOUS
<1>3. InnerSite(x, g, s, p, n, a, b, u)
  BY <1>1, <1>2, InnerFacts
<1>4. /\ p \in Node /\ n \in Node /\ u \in Link /\ a \in Link /\ b \in Link
      /\ p # g /\ n # g /\ n # p /\ u # g /\ u # p /\ u # n
      /\ a # g /\ a # p /\ a # n /\ b # g /\ b # p /\ b # n
      /\ x.up[n] = p /\ x.up[p] = g
      /\ (a # NIL => x.up[a] = n) /\ (b # NIL => x.up[b] = n)
      /\ g \in InTree(x) /\ p \in InTree(x) /\ n \in InTree(x)
  BY <1>3 DEF InnerSite
<1>5. \A m \in Node, d \in Side :
          /\ x.kid[m][d] = g => m = u
          /\ x.kid[m][d] = p => m = g /\ d = s
          /\ x.kid[m][d] = n => m = p /\ d = o
  BY <1>1, <1>3 DEF InnerSite
<1>6. /\ n \notin x.black /\ x.black \subseteq InTree(x)
      /\ \A m \in InTree(x) : m \notin x.black /\ m # n => x.up[m] \in x.black
  BY DEF Inserting, Coloured
<1>7. Balanced(x, h)
  BY DEF Inserting
<1>8. c = NIL \/ c \in x.black
  BY <1>1, <1>2 DEF IsRed
<1>9. g \in x.black /\ (a = NIL \/ a \in x.black) /\ (b = NIL \/ b \in x.black)
  <2>1. g \in x.black
    BY <1>4, <1>6
  <2>2. a # NIL => a \in Node /\ a \in InTree(x)
    BY <1>4, Basics DEF InTree
  <2>3. b # NIL => b \in Node /\ b \in InTree(x)
    BY <1>4, Basics DEF InTree
  <2> QED
    BY <1>4, <1>6, <2>1, <2>2, <2>3
<1>10. \A m \in Node : m \in y.black <=> IF m = g THEN FALSE ELSE IF m = n THEN TRUE
                                         ELSE m \in x.black
  BY <1>1, <1>2, <1>4, <1>9, Basics DEF DoubleColors
<1>11. /\ \A m \in Node : y.up[m] = IF m = n THEN u ELSE IF m = p \/ m = g THEN n
                                    ELSE IF m = a THEN p ELSE IF m = b THEN g
                                    ELSE x.up[m]
       /\ \A m \in Node, d \in Side :
             y.kid[m][d] = IF m = n THEN IF d = s THEN p ELSE g
                           ELSE IF m = p /\ d = o THEN a
                           ELSE IF m = g /\ d = s THEN b
                           ELSE IF x.kid[m][d] = g THEN n
                           ELSE x.kid[m][d]
       /\ y \in Tree
  BY <1>1, <1>2 DEF DoubleRotated
<1>12. Coloured(y, NIL)
  <2>1. y.black \subseteq Node
    BY <1>11, TreeFields
  <2>2. y.black \subseteq InTree(y)
    BY <1>4, <1>6, <1>10, <2>1
  <2>3. ASSUME NEW m \in InTree(y), m \notin y.black
        PROVE  y.up[m] \in y.black
    <3>0. m \in Node /\ m \in InTree(x)
      BY DEF InTree
    <3>1. CASE m = g \/ m = p
      BY <1>4, <1>10, <1>11, <3>1
    <3>2. CASE m # g /\ m # p
      <4>1. m # n /\ m \notin x.black
        BY <1>10, <2>3, <3>0, <3>2
      <4>2. x.up[m] \in x.black /\ m # a /\ m # b
        BY <1>6, <1>9, <3>0, <3>2, <4>1, Basics
      <4>3. x.up[m] # g
        <5>1. SUFFICES ASSUME x.up[m] = g PROVE FALSE
          OBVIOUS
        <5>2. PICK d \in Side : x.kid[g][d] = m
          BY <3>0, <5>1, Basics DEF Links
        <5>3. d = s \/ d = o
          BY <1>1, Basics
        <5>4. m = p \/ m = c
          BY <1>2, <5>2, <5>3 DEF InnerChild
        <5> QED
          BY <1>8, <3>0, <3>2, <4>1, <5>4, Basics
      <4>4. x.up[m] \in Node
        BY <4>2, TreeFields DEF Links
      <4> QED
        BY <1>10, <1>11, <3>0, <3>2, <4>1, <4>2, <4>3, <4>4
    <3> QED
      BY <3>1, <3>2
  <2> QED
    BY <2>2, <2>3 DEF Coloured
<1>13. \A m \in Node : m \in Link /\ m # NIL
  BY Basics
<1>14. /\ h \in [Link -> Nat] /\ h[NIL] = 0 /\ NIL \in Link
       /\ \A m \in Node, d \in Side :
             h[m] = h[x.kid[m][d]] + (IF m \in x.black THEN 1 ELSE 0)
  BY <1>7, Basics DEF Balanced
<1>15. PICK h2 : h2 = [m \in Link |-> IF m = g THEN h[p] ELSE IF m = n THEN h[g] ELSE h[m]]
  OBVIOUS
<1>16. h2 \in [Link -> Nat] /\ h2[NIL] = 0
  BY <1>4, <1>13, <1>14, <1>15
<1>17. PICK k \in Nat : /\ h[p] = k /\ h[n] = k /\ h[a] = k /\ h[b] = k /\ h[c] = k
                        /\ h[x.kid[p][s]] = k /\ h[g] = k + 1
  <2>1. x.kid[g][s] = p /\ x.kid[g][o] = c /\ x.kid[p][o] = n /\ x.kid[n][s] = a /\ x.kid[n][o] = b
    BY <1>1, <1>2 DEF InnerChild
  <2>2. c \in Link /\ x.kid[p][s] \in Link
    BY <1>2, <1>4, TreeFields DEF Links
  <2>3. h[p] \in Nat /\ h[n] \in Nat /\ h[a] \in Nat /\ h[b] \in Nat /\ h[c] \in Nat
        /\ h[g] \in Nat /\ h[x.kid[p][s]] \in Nat
    BY <1>4, <1>13, <1>14, <2>2
  <2>4. h[n] = h[a] /\ h[n] = h[b]
    BY <1>4, <1>6, <1>14, <2>1, <2>3
  <2>5. h[p] = h[n] /\ h[p] = h[x.kid[p][s]]
    BY <1>4, <1>14, <2>1, <2>3
  <2>6. h[g] = h[p] + 1 /\ h[g] = h[c] + 1
    BY <1>9, <1>14, <2>1, <2>3
  <2>7. PICK k \in Nat : k = h[p]
    BY <2>3
  <2>8. h[n] = k /\ h[a] = k /\ h[b] = k /\ h[x.kid[p][s]] = k
    BY <2>4, <2>5, <2>7
  <2>9. h[g] = k + 1 /\ h[c] = k
    BY <2>3, <2>6, <2>7
  <2> QED
    BY <2>7, <2>8, <2>9
<1>18. ASSUME NEW m \in Node, NEW d \in Side
       PROVE  h2[m] = h2[y.kid[m][d]] + (IF m \in y.black THEN 1 ELSE 0)
  <2>0. d = s \/ d = o
    BY <1>1, Basics
  <2>1. x.kid[m][d] \in Link
    BY TreeFields DEF Links
  <2>2. h2[g] = h[p] /\ h2[n] = h[g]
    BY <1>4, <1>13, <1>15
  <2>3. \A l \in Link : l # g /\ l # n => h2[l] = h[l]
    BY <1>15
  <2>4. CASE m = g
    <3>0. c # g /\ c # n /\ c \in Link
      BY <1>1, <1>2, <1>4, <1>5, TreeFields DEF Links
    <3>1. y.kid[g][s] = b /\ y.kid[g][o] = c
      BY <1>1, <1>2, <1>4, <1>11, <3>0
    <3>2. h2[b] = h[b] /\ h2[c] = h[c]
      BY <1>4, <2>3, <3>0
    <3>3. g \notin y.black
      BY <1>10
    <3>4. h[p] = k /\ h[b] = k /\ h[c] = k /\ k = k + 0
      BY <1>17
    <3> QED
      BY <2>0, <2>2, <2>4, <3>1, <3>2, <3>3, <3>4
  <2>5. CASE m = n
    <3>1. y.kid[n][o] = g /\ y.kid[n][s] = p
      BY <1>1, <1>4, <1>11
    <3>2. h2[p] = h[p]
      BY <1>4, <1>13, <2>3
    <3> QED
      BY <1>4, <1>10, <1>17, <2>0, <2>2, <2>5, <3>1, <3>2
  <2>6. CASE m = p
    <3>1. x.kid[p][s] \in Link /\ x.kid[p][s] # g /\ x.kid[p][s] # n
      BY <1>1, <1>4, <1>5, TreeFields DEF Links
    <3>2. y.kid[p][o] = a /\ y.kid[p][s] = x.kid[p][s]
      BY <1>1, <1>4, <1>11, <3>1
    <3>3. h2[p] = h[p] /\ h2[a] = h[a] /\ h2[x.kid[p][s]] = h[x.kid[p][s]]
      BY <1>4, <1>13, <2>3, <3>1
    <3>4. p \notin y.black
      BY <1>4, <1>10
    <3>5. h[p] = k /\ h[a] = k /\ h[x.kid[p][s]] = k /\ k = k + 0
      BY <1>17
    <3> QED
      BY <2>0, <2>6, <3>2, <3>3, <3>4, <3>5
  <2>7. CASE m # g /\ m # n /\ m # p
    <3>1. h2[m] = h[m] /\ (m \in y.black <=> m \in x.black)
      BY <1>10, <1>13, <2>3, <2>7
    <3>2. h2[y.kid[m][d]] = h[x.kid[m][d]]
      <4>1. CASE x.kid[m][d] = g
        BY <1>11, <2>2, <2>7, <4>1
      <4>2. CASE x.kid[m][d] # g
        BY <1>5, <1>11, <2>1, <2>3, <2>7, <4>2
      <4> QED
        BY <4>1, <4>2
    <3> QED
      BY <1>14, <3>1, <3>2
  <2> QED
    BY <2>4, <2>5, <2>6, <2>7
<1>19. Balanced(y, h2)
  BY <1>16, <1>18 DEF Balanced
<1> QED
  BY <1>12, <1>19 DEF Rest

\* Only colours differ.
Recoloured(x, y) ==
    /\ y \in Tree /\ y.root = x.root /\ y.kid = x.kid
    /\ \A m \in Node : y.up[m] = x.up[m]

\* Colours do not matter to the shape.
LEMMA RecolouredShape ==
    ASSUME NEW x, NEW S, NEW pos, Links(x), Shape(x, S, pos), NEW y, Recoloured(x, y)
    PROVE  Links(y) /\ Shape(y, S, pos) /\ InTree(y) = InTree(x)
<1>1. InTree(y) = InTree(x)
  BY DEF InTree, Recoloured
<1>2. Shape(y, S, pos)
  BY <1>1 DEF Shape, Recoloured
<1>3. \A n \in Node, s \in Side : y.kid[n][s] # NIL => y.up[y.kid[n][s]] = n
  <2> TAKE n \in Node, s \in Side
  <2> HAVE y.kid[n][s] # NIL
  <2>1. y.kid[n][s] = x.kid[n][s] /\ x.kid[n][s] \in Node /\ x.up[x.kid[n][s]] = n
    BY TreeFields, Basics DEF Links, Recoloured
  <2> QED
    BY <2>1 DEF Recoloured
<1>4. \A n \in Node : y.up[n] # NIL => \E s \in Side : y.kid[y.up[n]][s] = n
  BY DEF Links, Recoloured
<1>5. y.root # NIL => y.up[y.root] = NIL
  <2>1. x.root # NIL => x.root \in Node
    BY TreeFields, Basics DEF Links
  <2> QED
    BY <2>1 DEF Links, Recoloured
<1>6. \A n \in Node, s \in Side : n \notin InTree(y) => y.kid[n][s] = NIL
  BY <1>1 DEF Links, Recoloured
<1>7. y \in Tree
  BY DEF Recoloured
<1> QED
  BY <1>1, <1>2, <1>3, <1>4, <1>5, <1>6, <1>7 DEF Links

\* The end of __rb_insert at the root.
LEMMA RootRest ==
    ASSUME NEW x, NEW S, NEW pos, Links(x), Shape(x, S, pos),
           NEW h, NEW n, Inserting(x, h, n), x.up[n] = NIL,
           NEW y, Recoloured(x, y),
           \A m \in Node : m \in y.black <=> m = n \/ m \in x.black
    PROVE  Rest(y)
<1>1. InTree(y) = InTree(x)
  BY RecolouredShape
<1>2. /\ n \in InTree(x) /\ n \notin x.black /\ x.black \subseteq InTree(x)
      /\ \A m \in InTree(x) : m \notin x.black /\ m # n => x.up[m] \in x.black
      /\ n \in Node /\ InTree(x) \subseteq Node
  BY DEF Inserting, Coloured, InTree
<1>3. Coloured(y, NIL)
  <2>1. y.black \subseteq InTree(y)
    <3>1. y.black \subseteq Node
      BY TreeFields DEF Recoloured
    <3> QED
      BY <1>1, <1>2, <3>1
  <2>2. ASSUME NEW m \in InTree(y), m \notin y.black PROVE y.up[m] \in y.black
    <3>1. m \in Node /\ m \in InTree(x) /\ y.up[m] = x.up[m]
      BY <1>1, <1>2 DEF Recoloured
    <3>2. x.up[m] \in x.black /\ x.up[m] \in Node
      BY <1>2, <2>2, <3>1
    <3> QED
      BY <3>1, <3>2
  <2> QED
    BY <2>1, <2>2 DEF Coloured
<1>4. /\ h \in [Link -> Nat] /\ h[NIL] = 0 /\ NIL \in Link
      /\ \A m \in Node, d \in Side :
            h[m] = h[x.kid[m][d]] + (IF m \in x.black THEN 1 ELSE 0)
  BY Basics DEF Inserting, Balanced
<1>5. PICK h2 : h2 = [m \in Link |-> IF m = n THEN h[m] + 1 ELSE h[m]]
  OBVIOUS
<1>6. n # NIL /\ Node \subseteq Link
  BY <1>2, Basics
<1>7. h2 \in [Link -> Nat] /\ h2[NIL] = 0
  BY <1>4, <1>5, <1>6
<1>8. ASSUME NEW m \in Node, NEW d \in Side
      PROVE  h2[m] = h2[y.kid[m][d]] + (IF m \in y.black THEN 1 ELSE 0)
  <2>1. y.kid[m][d] = x.kid[m][d] /\ x.kid[m][d] \in Link /\ m \in Link /\ m # NIL
    BY TreeFields, Basics DEF Recoloured, Links
  <2>2. x.kid[m][d] # n
    BY <1>6, <2>1 DEF Links
  <2>3. h2[x.kid[m][d]] = h[x.kid[m][d]] /\ h[x.kid[m][d]] \in Nat
    BY <1>4, <1>5, <2>1, <2>2
  <2>4. h2[m] = IF m = n THEN h[m] + 1 ELSE h[m]
    BY <1>5, <2>1
  <2>5. h[m] = h[x.kid[m][d]] + (IF m \in x.black THEN 1 ELSE 0)
    BY <1>4
  <2>6. CASE m = n
    BY <1>2, <2>1, <2>3, <2>4, <2>5, <2>6
  <2>7. CASE m # n
    BY <2>1, <2>3, <2>4, <2>5, <2>7
  <2> QED
    BY <2>6, <2>7
<1>9. Balanced(y, h2)
  BY <1>7, <1>8 DEF Balanced
<1> QED
  BY <1>3, <1>9 DEF Rest

\* Case 1 of __rb_insert.
LEMMA FlipInserting ==
    ASSUME NEW x, NEW S, NEW pos, Links(x), Shape(x, S, pos),
           NEW h, NEW n, NEW p \in Node, NEW g \in Node, NEW s \in Side, NEW c,
           Inserting(x, h, n), x.up[n] = p, p \notin x.black, x.kid[g][s] = p,
           x.kid[g][Other(s)] = c, IsRed(x, c),
           NEW y, Recoloured(x, y),
           \A m \in Node : m \in y.black <=>
              IF m = g THEN FALSE ELSE m = p \/ m = c \/ m \in x.black
    PROVE  \E h2 : Inserting(y, h2, g)
<1>1. InTree(y) = InTree(x)
  BY RecolouredShape
<1>2. /\ n \in InTree(x) /\ n \notin x.black /\ x.black \subseteq InTree(x)
      /\ \A m \in InTree(x) : m \notin x.black /\ m # n => x.up[m] \in x.black
      /\ n \in Node /\ InTree(x) \subseteq Node
  BY DEF Inserting, Coloured, InTree
<1>3. KidFacts(x, S, pos)
  BY ShapeFacts
<1>4. p # NIL /\ g # NIL /\ c # NIL /\ c \notin x.black /\ Other(s) \in Side
  BY Basics DEF IsRed
<1>5. /\ c \in Node /\ x.up[c] = g /\ x.up[p] = g /\ p # g /\ c # g /\ p # c
  BY <1>3, <1>4, Basics DEF KidFacts
<1>6. p \in InTree(x) /\ c \in InTree(x) /\ g \in InTree(x)
  <2>1. g \in InTree(x)
    BY <1>4 DEF Links
  <2> QED
    BY <1>4, <1>5, <2>1 DEF InTree
<1>7. n # p /\ g \in x.black
  <2>1. n # p
    <3>1. n = p => x.up[p] = p
      OBVIOUS
    <3> QED
      BY <1>5, <3>1
  <2> QED
    BY <1>2, <1>5, <1>6, <2>1
<1>8. \A m \in Node : x.up[m] = g => m = p \/ m = c
  <2> SUFFICES ASSUME NEW m \in Node, x.up[m] = g PROVE m = p \/ m = c
    OBVIOUS
  <2>1. PICK d \in Side : x.kid[g][d] = m
    BY <1>4 DEF Links
  <2>2. d = s \/ d = Other(s)
    BY Basics
  <2> QED
    BY <2>1, <2>2
<1>9. Coloured(y, g)
  <2>1. y.black \subseteq InTree(y)
    <3>1. y.black \subseteq Node
      BY TreeFields DEF Recoloured
    <3> QED
      BY <1>1, <1>2, <1>6, <3>1
  <2>2. ASSUME NEW m \in InTree(y), m \notin y.black, m # g PROVE y.up[m] \in y.black
    <3>1. m \in Node /\ m \in InTree(x) /\ y.up[m] = x.up[m]
      BY <1>1, <1>2 DEF Recoloured
    <3>2. m # p /\ m # c /\ m \notin x.black
      BY <2>2, <3>1
    <3>3. x.up[m] # g
      BY <1>8, <3>1, <3>2
    <3>4. CASE m = n
      BY <1>5, <3>1, <3>4
    <3>5. CASE m # n
      <4>1. x.up[m] \in x.black /\ x.up[m] \in Node
        BY <1>2, <3>1, <3>2, <3>5
      <4> QED
        BY <3>1, <3>3, <4>1
    <3> QED
      BY <3>4, <3>5
  <2> QED
    BY <2>1, <2>2 DEF Coloured
<1>10. /\ h \in [Link -> Nat] /\ h[NIL] = 0 /\ NIL \in Link
       /\ \A m \in Node, d \in Side :
            h[m] = h[x.kid[m][d]] + (IF m \in x.black THEN 1 ELSE 0)
  BY Basics DEF Inserting, Balanced
<1>11. PICK h2 : h2 = [m \in Link |-> IF m = p \/ m = c THEN h[m] + 1 ELSE h[m]]
  OBVIOUS
<1>12. h2 \in [Link -> Nat] /\ h2[NIL] = 0
  BY <1>4, <1>10, <1>11
<1>13. ASSUME NEW m \in Node, NEW d \in Side
       PROVE  h2[m] = h2[y.kid[m][d]] + (IF m \in y.black THEN 1 ELSE 0)
  <2>1. y.kid[m][d] = x.kid[m][d] /\ x.kid[m][d] \in Link /\ m \in Link /\ m # NIL
    BY TreeFields, Basics DEF Recoloured, Links
  <2>2. h[m] = h[x.kid[m][d]] + (IF m \in x.black THEN 1 ELSE 0)
    BY <1>10
  <2>3. h[x.kid[m][d]] \in Nat /\ h[m] \in Nat
    BY <1>10, <2>1
  <2>4. h2[m] = IF m = p \/ m = c THEN h[m] + 1 ELSE h[m]
    BY <1>11, <2>1
  <2>5. h2[x.kid[m][d]] = IF x.kid[m][d] = p \/ x.kid[m][d] = c
                          THEN h[x.kid[m][d]] + 1 ELSE h[x.kid[m][d]]
    BY <1>11, <2>1
  <2>6. x.kid[m][d] = p \/ x.kid[m][d] = c => m = g
    BY <1>3, <1>4, <1>5 DEF KidFacts
  <2>7. CASE m = g
    <3>1. d = s \/ d = Other(s)
      BY Basics
    <3>2. x.kid[m][d] = p \/ x.kid[m][d] = c
      BY <2>7, <3>1
    <3> QED
      BY <1>5, <1>7, <2>1, <2>2, <2>3, <2>4, <2>5, <2>7, <3>2
  <2>8. CASE m = p \/ m = c
    <3>1. m \in y.black /\ m \notin x.black /\ m # g
      BY <1>4, <1>5, <2>8
    <3> QED
      BY <2>1, <2>2, <2>3, <2>4, <2>5, <2>6, <2>8, <3>1
  <2>9. CASE m # g /\ m # p /\ m # c
    <3>1. m \in y.black <=> m \in x.black
      BY <2>9
    <3> QED
      BY <2>1, <2>2, <2>3, <2>4, <2>5, <2>6, <2>9, <3>1
  <2> QED
    BY <2>7, <2>8, <2>9
<1>14. Balanced(y, h2)
  BY <1>12, <1>13 DEF Balanced
<1>15. g \in InTree(y) /\ g \notin y.black
  BY <1>1, <1>6
<1> QED
  BY <1>9, <1>14, <1>15 DEF Inserting

----------------------------------------------------------------------------
(* The invariant of the loops, and the steps of __rb_insert.               *)

\* What holds in each loop.
LoopState(h) ==
    \/ /\ pc = "idle" /\ node = NIL /\ parent = NIL
       /\ Coloured(t, NIL) /\ Balanced(t, h)
    \/ pc = "insert" /\ parent = t.up[node] /\ Inserting(t, h, node)
    \/ pc = "erase" /\ Erasing(t, h, node, parent, NodeSide)

\* The tree is a search tree in some state of a loop.
TreeState(S, pos, h) == Links(t) /\ Shape(t, S, pos) /\ LoopState(h)

\* What a step of a loop keeps: the nodes and their order.
Kept(pos) == /\ InTree(t') = InTree(t)
             /\ \E S2, h2 : TreeState(S2, pos, h2)'

\* A loop may return when the tree is red-black.
LEMMA ReturnsAtRest ==
    ASSUME NEW pos, Return, Links(t'), \E S2 : Shape(t', S2, pos), Rest(t'),
           InTree(t') = InTree(t)
    PROVE  Kept(pos)
<1>1. PICK S2 : Shape(t', S2, pos)
  OBVIOUS
<1>2. PICK h2 : Coloured(t', NIL) /\ Balanced(t', h2)
  BY DEF Rest
<1>3. LoopState(h2)'
  BY <1>2 DEF Return, LoopState
<1>4. TreeState(S2, pos, h2)'
  BY <1>1, <1>3 DEF TreeState
<1> QED
  BY <1>4 DEF Kept

\* What is known in the loop of __rb_insert.
LEMMA InsertState ==
    ASSUME NEW S, NEW pos, NEW h, TreeState(S, pos, h), pc = "insert"
    PROVE  /\ Links(t) /\ Shape(t, S, pos) /\ parent = t.up[node]
           /\ Inserting(t, h, node) /\ node \in Node /\ parent \in Link /\ t \in Tree
<1>1. Links(t) /\ Shape(t, S, pos) /\ parent = t.up[node] /\ Inserting(t, h, node)
  BY DEF TreeState, LoopState
<1>2. node \in Node /\ t \in Tree
  BY <1>1 DEF Inserting, InTree, Links
<1> QED
  BY <1>1, <1>2, TreeFields

\* The node is the root or below a black node: the tree is at rest.
LEMMA InsertDoneKeeps ==
    ASSUME NEW S, NEW pos, NEW h, TreeState(S, pos, h), InsertDone
    PROVE  Kept(pos)
<1>1. pc = "insert" /\ Return
  BY DEF InsertDone
<1>2. /\ Links(t) /\ Shape(t, S, pos) /\ parent = t.up[node]
      /\ Inserting(t, h, node) /\ node \in Node /\ t \in Tree
  BY <1>1, InsertState
<1>3. CASE parent = NIL /\ t' = rb_set_parent_color(t, node, NIL, TRUE)
  <2>1. ColorSet(t, t', node, NIL, TRUE)
    BY <1>2, <1>3, SetColorFields, Basics
  <2>2. Recoloured(t, t')
    BY <1>2, <1>3, <2>1 DEF ColorSet, Recoloured
  <2>3. \A m \in Node : m \in t'.black <=> m = node \/ m \in t.black
    BY <2>1 DEF ColorSet
  <2>4. Rest(t')
    <3>1. t.up[node] = NIL
      BY <1>2, <1>3
    <3> QED
      BY <1>2, <2>2, <2>3, <3>1, RootRest
  <2>5. Links(t') /\ Shape(t', S, pos) /\ InTree(t') = InTree(t)
    BY <1>2, <2>2, RecolouredShape
  <2> QED
    BY <1>1, <2>4, <2>5, ReturnsAtRest
<1>4. CASE IsBlack(t, parent) /\ UNCHANGED t
  <2>1. t' = t /\ t.up[node] \in t.black
    BY <1>2, <1>4 DEF IsBlack
  <2>2. Coloured(t, NIL) /\ Balanced(t, h)
    BY <1>2, <2>1 DEF Inserting, Coloured
  <2>3. Rest(t')
    BY <2>1, <2>2 DEF Rest
  <2> QED
    BY <1>1, <1>2, <2>1, <2>3, ReturnsAtRest
<1> QED
  BY <1>3, <1>4 DEF InsertDone

\* The parent of a red parent.
LEMMA Grandparent ==
    ASSUME NEW S, NEW pos, NEW h, TreeState(S, pos, h), pc = "insert", IsRed(t, parent)
    PROVE  /\ parent \in Node /\ gparent \in Node /\ parent \notin t.black
           /\ ParentSide \in Side /\ t.kid[gparent][ParentSide] = parent
           /\ parent # NIL /\ gparent # NIL
<1>1. /\ Links(t) /\ Shape(t, S, pos) /\ parent = t.up[node]
      /\ Inserting(t, h, node) /\ node \in Node /\ parent \in Link /\ t \in Tree
  BY InsertState
<1>2. parent \in Node /\ parent \notin t.black /\ parent # NIL
  BY <1>1, Basics DEF IsRed
<1>3. KidFacts(t, S, pos)
  BY <1>1, ShapeFacts
<1>4. PICK d \in Side : t.kid[parent][d] = node
  BY <1>1, <1>2 DEF Links
<1>5. node # parent /\ node # NIL
  BY <1>1, <1>2, <1>3, <1>4, Basics DEF KidFacts
<1>6. parent \in InTree(t)
  BY <1>1, <1>2, <1>4, <1>5 DEF Links
<1>7. gparent \in t.black /\ gparent = t.up[parent]
  BY <1>1, <1>2, <1>5, <1>6 DEF Inserting, Coloured, gparent
<1>8. gparent \in Node /\ gparent # NIL
  BY <1>1, <1>7, TreeFields, Basics
<1>9. PICK e \in Side : t.kid[gparent][e] = parent
  BY <1>1, <1>2, <1>7, <1>8 DEF Links
<1>10. ParentSide \in Side /\ t.kid[gparent][ParentSide] = parent
  BY <1>9, Basics DEF ParentSide
<1> QED
  BY <1>2, <1>8, <1>10

\* Case 1: the grandparent is the red node of the next turn.
LEMMA InsertFlipKeeps ==
    ASSUME NEW S, NEW pos, NEW h, TreeState(S, pos, h), InsertFlip
    PROVE  Kept(pos)
<1>1. pc = "insert" /\ IsRed(t, parent) /\ IsRed(t, Uncle) /\ pc' = "insert"
  BY DEF InsertFlip
<1>2. /\ Links(t) /\ Shape(t, S, pos) /\ t.up[node] = parent
      /\ Inserting(t, h, node) /\ node \in Node /\ t \in Tree
  BY <1>1, InsertState
<1>3. PICK g \in Node, s \in Side, c \in {Uncle} : g = gparent /\ s = ParentSide
  BY <1>1, Grandparent
<1>4. /\ parent \in Node /\ parent \notin t.black /\ t.kid[g][s] = parent /\ parent # NIL
      /\ t.kid[g][Other(s)] = c /\ t.up[parent] = g /\ g # NIL
  <2>1. c = Uncle
    OBVIOUS
  <2> QED
    BY <1>1, <1>3, <2>1, Grandparent DEF Uncle, gparent
<1>5. IsRed(t, c)
  <2>1. c = Uncle
    OBVIOUS
  <2> QED
    BY <1>1, <2>1
<1>6. KidFacts(t, S, pos)
  BY <1>2, ShapeFacts
<1>7. c \in Node /\ t.up[c] = g /\ g \in Link /\ c # NIL
  BY <1>4, <1>5, <1>6, Basics DEF KidFacts, IsRed
<1>8. PICK x1 : x1 = rb_set_parent_color(t, c, g, TRUE)
  OBVIOUS
<1>9. ColorSet(t, x1, c, g, TRUE)
  BY <1>2, <1>7, <1>8, SetColorFields
<1>10. PICK x2 : x2 = rb_set_parent_color(x1, parent, g, TRUE)
  OBVIOUS
<1>11. ColorSet(x1, x2, parent, g, TRUE)
  <2>1. x1 \in Tree
    BY <1>9 DEF ColorSet
  <2> QED
    BY <1>4, <1>7, <1>10, <2>1, SetColorFields
<1>12. PICK u \in Link : u = t.up[g]
  BY <1>2, TreeFields
<1>13. t' = rb_set_parent_color(x2, g, u, FALSE)
  <2>1. c = Uncle
    OBVIOUS
  <2> QED
    BY <1>3, <1>8, <1>10, <1>12, <2>1 DEF InsertFlip
<1>14. ColorSet(x2, t', g, u, FALSE)
  <2>1. x2 \in Tree
    BY <1>11 DEF ColorSet
  <2> QED
    BY <1>13, <2>1, SetColorFields
<1>15. Recoloured(t, t')
  BY <1>4, <1>7, <1>9, <1>11, <1>12, <1>14 DEF ColorSet, Recoloured
<1>16. \A m \in Node : m \in t'.black <=>
              IF m = g THEN FALSE ELSE m = parent \/ m = c \/ m \in t.black
  BY <1>9, <1>11, <1>14 DEF ColorSet
<1>17. PICK h2 : Inserting(t', h2, g)
  BY <1>2, <1>4, <1>5, <1>15, <1>16, FlipInserting
<1>18. Links(t') /\ Shape(t', S, pos) /\ InTree(t') = InTree(t)
  BY <1>2, <1>15, RecolouredShape
<1>19. node' = g /\ parent' = t'.up[g]
  BY <1>3, <1>15 DEF InsertFlip, Recoloured
<1>20. LoopState(h2)'
  BY <1>1, <1>17, <1>19 DEF LoopState
<1>21. TreeState(S, pos, h2)'
  BY <1>18, <1>20 DEF TreeState
<1> QED
  BY <1>18, <1>21 DEF Kept

\* Cases 2 and 3: after the rotations the tree is at rest.
LEMMA InsertRotateKeeps ==
    ASSUME NEW S, NEW pos, NEW h, TreeState(S, pos, h), InsertRotate
    PROVE  Kept(pos)
<1>1. pc = "insert" /\ IsRed(t, parent) /\ ~IsRed(t, Uncle) /\ Return
  BY DEF InsertRotate
<1>2. /\ Links(t) /\ Shape(t, S, pos) /\ t.up[node] = parent
      /\ Inserting(t, h, node) /\ node \in Node /\ t \in Tree
  BY <1>1, InsertState
<1>3. PICK g \in Node, s \in Side : g = gparent /\ s = ParentSide
  BY <1>1, Grandparent
<1>4. /\ parent \in Node /\ parent \notin t.black /\ t.kid[g][s] = parent /\ parent # NIL
  BY <1>1, <1>3, Grandparent
<1>5. ~IsRed(t, t.kid[g][Other(s)])
  BY <1>1, <1>3 DEF Uncle
<1>6. CASE node = t.kid[parent][Other(s)]
  <2>1. t' = RotateAtGrandparent(RotateAtParent(t, node, parent, s), node, g, s)
    BY <1>3, <1>6 DEF InsertRotate
  <2>2. InnerChild(t, g, s, parent, node)
    BY <1>2, <1>4, <1>6, Basics DEF InnerChild
  <2>3. DoubleRotated(t, t', g, parent, node, s) /\ DoubleColors(t, t', g, parent, node, s)
    BY <1>2, <2>1, <2>2, InsertDouble
  <2>4. Links(t') /\ InTree(t') = InTree(t) /\ \E S2 : Shape(t', S2, pos)
    BY <1>2, <2>2, <2>3, DoubleRotation
  <2>5. Rest(t')
    BY <1>2, <1>4, <1>5, <2>2, <2>3, <2>4, InsertDoubleRest
  <2> QED
    BY <1>1, <2>4, <2>5, ReturnsAtRest
<1>7. CASE node # t.kid[parent][Other(s)]
  <2>1. t' = RotateAtGrandparent(t, parent, g, s)
    BY <1>3, <1>7 DEF InsertRotate
  <2>2. RotationSite(t, g, s, parent, t.kid[parent][Other(s)], t.up[g])
    BY <1>2, <1>4, RotationFacts
  <2>3. GrandWrites(t, t', parent, g, s) /\ GrandColors(t, t', parent, g, s)
    <3>1. parent # g /\ t.kid[parent][Other(s)] # g /\ t.up[g] # g /\ t.up[g] # parent
      BY <2>2 DEF RotationSite
    <3> QED
      BY <1>2, <1>4, <2>1, <3>1, GrandFields
  <2>4. Rotated(t, t', g, parent, s)
    BY <1>2, <1>4, <2>3, GrandRotates
  <2>5. Links(t') /\ InTree(t') = InTree(t) /\ \E S2 : Shape(t', S2, pos)
    BY <1>2, <1>4, <2>4, RotationShape
  <2>6. Rest(t')
    BY <1>2, <1>4, <1>5, <1>7, <2>3, <2>4, <2>5, InsertSingleRest
  <2> QED
    BY <1>1, <2>5, <2>6, ReturnsAtRest
<1> QED
  BY <1>6, <1>7

----------------------------------------------------------------------------
(* The steps of ____rb_erase_color.                                        *)

\* The heights around a node n below which a black node is missing: p is its
\* parent, at side s of which it is, sib the sibling.
LEMMA ErasingFacts ==
    ASSUME NEW x, NEW S, NEW pos, Links(x), Shape(x, S, pos), NEW h, NEW n,
           NEW p, NEW s \in Side, Erasing(x, h, n, p, s), NEW sib,
           x.kid[p][Other(s)] = sib
    PROVE  /\ p \in Node /\ p # NIL /\ n \in Link /\ sib \in Node /\ sib # NIL
           /\ x.kid[p][s] = n /\ (n = NIL \/ n \in x.black) /\ n # sib /\ sib # p
           /\ h[n] \in Nat /\ h[sib] = h[n] + 1
           /\ h[p] = h[n] + 1 + (IF p \in x.black THEN 1 ELSE 0)
           /\ \A d \in Side : h[sib] = h[x.kid[sib][d]] + (IF sib \in x.black THEN 1 ELSE 0)
<1>1. p \in Node /\ p # NIL /\ x.kid[p][s] = n /\ (n = NIL \/ n \in x.black)
  BY Basics DEF Erasing, InTree
<1>2. Other(s) \in Side /\ Other(s) # s
  BY Basics
<1>3. KidFacts(x, S, pos)
  BY ShapeFacts
<1>4. n \in Link /\ sib \in Link
  BY <1>1, <1>2, <1>3 DEF KidFacts
<1>5. /\ h \in [Link -> Nat] /\ h[NIL] = 0
      /\ \A m \in Node, d \in Side :
          h[m] = h[x.kid[m][d]] + (IF m \in x.black THEN 1 ELSE 0)
                                + (IF m = p /\ d = s THEN 1 ELSE 0)
  BY DEF Erasing, Gapped
<1>6. h[n] \in Nat /\ h[sib] \in Nat
  BY <1>4, <1>5
<1>7. h[p] = h[n] + (IF p \in x.black THEN 1 ELSE 0) + 1
  BY <1>1, <1>5
<1>8. h[p] = h[sib] + (IF p \in x.black THEN 1 ELSE 0) + 0
  BY <1>1, <1>2, <1>5
<1>9. h[sib] = h[n] + 1 /\ h[p] = h[n] + 1 + (IF p \in x.black THEN 1 ELSE 0)
  BY <1>6, <1>7, <1>8
<1>10. sib # NIL
  BY <1>5, <1>6, <1>9
<1>11. sib \in Node /\ sib # p /\ sib # n
  BY <1>1, <1>2, <1>3, <1>10, Basics DEF KidFacts
<1>12. ASSUME NEW d \in Side
       PROVE  h[sib] = h[x.kid[sib][d]] + (IF sib \in x.black THEN 1 ELSE 0)
  <2>1. h[sib] = h[x.kid[sib][d]] + (IF sib \in x.black THEN 1 ELSE 0) + 0
    BY <1>5, <1>11
  <2>2. h[x.kid[sib][d]] \in Nat
    BY <1>3, <1>5, <1>11 DEF KidFacts
  <2> QED
    BY <2>1, <2>2
<1> QED
  BY <1>1, <1>4, <1>6, <1>9, <1>10, <1>11, <1>12

\* Case 1: after the rotation the sibling is black.
LEMMA RedSiblingErasing ==
    ASSUME NEW x, NEW S, NEW pos, Links(x), Shape(x, S, pos), NEW h, NEW n,
           NEW p, NEW s \in Side, Erasing(x, h, n, p, s), NEW sib,
           x.kid[p][Other(s)] = sib, sib \notin x.black,
           NEW y, Rotated(x, y, p, sib, Other(s)), GrandColors(x, y, sib, p, Other(s)),
           InTree(y) = InTree(x)
    PROVE  (\E h2 : Erasing(y, h2, n, p, s)) /\ y.kid[p][Other(s)] \in y.black
<1>1. PICK o \in Side : o = Other(s) /\ Other(o) = s /\ o # s
  BY Basics
<1>2. /\ p \in Node /\ p # NIL /\ n \in Link /\ sib \in Node /\ sib # NIL
      /\ x.kid[p][s] = n /\ (n = NIL \/ n \in x.black) /\ n # sib /\ sib # p
      /\ h[n] \in Nat /\ h[sib] = h[n] + 1
      /\ h[p] = h[n] + 1 + (IF p \in x.black THEN 1 ELSE 0)
      /\ \A d \in Side : h[sib] = h[x.kid[sib][d]] + 0
  BY ErasingFacts
<1>3. PICK tmp, u, out : tmp = x.kid[sib][s] /\ u = x.up[p] /\ out = x.kid[sib][o]
  OBVIOUS
<1>4. RotationSite(x, p, o, sib, tmp, u)
  BY <1>1, <1>2, <1>3, RotationFacts
<1>5. /\ tmp \in Link /\ u \in Link /\ tmp # p /\ tmp # sib /\ u # p /\ u # sib
      /\ x.up[sib] = p /\ (tmp # NIL => x.up[tmp] = sib /\ tmp \in InTree(x))
      /\ p \in InTree(x) /\ sib \in InTree(x)
  BY <1>4 DEF RotationSite
<1>6. \A m \in Node, d \in Side :
          /\ x.kid[m][d] = p => m = u
          /\ x.kid[m][d] = sib => m = p /\ d = o
  BY <1>1, <1>4 DEF RotationSite
<1>7. /\ x.black \subseteq InTree(x)
      /\ \A m \in InTree(x) : m \notin x.black /\ m # NIL => x.up[m] \in x.black
      /\ InTree(x) \subseteq Node
  BY DEF Erasing, Coloured, InTree
<1>8. p \in x.black
  BY <1>2, <1>5, <1>7
<1>9. /\ h \in [Link -> Nat] /\ h[NIL] = 0 /\ NIL \in Link
      /\ \A m \in Node, d \in Side :
          h[m] = h[x.kid[m][d]] + (IF m \in x.black THEN 1 ELSE 0)
                                + (IF m = p /\ d = s THEN 1 ELSE 0)
  BY Basics DEF Erasing, Gapped
<1>10. out \in Link
  BY <1>2, <1>3, TreeFields DEF Links
<1>11. PICK k \in Nat : h[n] = k /\ h[sib] = k + 1 /\ h[p] = k + 2 /\ h[tmp] = k + 1 /\ h[out] = k + 1
  <2>1. h[tmp] \in Nat /\ h[out] \in Nat
    BY <1>5, <1>9, <1>10
  <2>2. h[sib] = h[tmp] + 0 /\ h[sib] = h[out] + 0
    BY <1>2, <1>3
  <2>3. PICK k \in Nat : h[n] = k
    BY <1>2
  <2> QED
    BY <1>2, <1>8, <2>1, <2>2, <2>3
<1>12. tmp # NIL /\ tmp \in Node
  <2>1. h[tmp] # 0
    BY <1>11
  <2> QED
    BY <1>5, <1>9, <2>1, Basics
<1>13. tmp \in x.black
  BY <1>5, <1>7, <1>12
<1>14. \A m \in Node : m \in y.black <=> IF m = p THEN FALSE ELSE IF m = sib THEN TRUE
                                         ELSE m \in x.black
  BY <1>1, <1>3, <1>8, <1>13 DEF GrandColors
<1>15. /\ y \in Tree
       /\ \A m \in Node : y.up[m] = IF m = p THEN sib ELSE IF m = sib THEN u
                                    ELSE IF m = tmp THEN p ELSE x.up[m]
       /\ \A m \in Node, d \in Side :
             y.kid[m][d] = IF m = p /\ d = o THEN tmp
                           ELSE IF m = sib /\ d = s THEN p
                           ELSE IF x.kid[m][d] = p THEN sib
                           ELSE x.kid[m][d]
  BY <1>1, <1>3 DEF Rotated
<1>16. y.kid[p][o] = tmp /\ y.kid[p][s] = n
  <2>1. n # p
    <3>1. n = p => p = u
      BY <1>2, <1>6
    <3> QED
      BY <1>5, <3>1
  <2> QED
    BY <1>1, <1>2, <1>15, <2>1
<1>17. Coloured(y, NIL)
  <2>1. y.black \subseteq InTree(y)
    <3>1. y.black \subseteq Node
      BY <1>15, TreeFields
    <3> QED
      BY <1>5, <1>7, <1>14, <3>1
  <2>2. ASSUME NEW m \in InTree(y), m \notin y.black PROVE y.up[m] \in y.black
    <3>1. m \in Node /\ m \in InTree(x)
      BY <1>7
    <3>2. CASE m = p
      BY <1>2, <1>14, <1>15, <3>2
    <3>3. CASE m # p
      <4>1. m # sib /\ m \notin x.black /\ m # tmp /\ m # NIL
        BY <1>13, <1>14, <2>2, <3>1, <3>3, Basics
      <4>2. x.up[m] \in x.black /\ y.up[m] = x.up[m] /\ x.up[m] \in Node
        BY <1>7, <1>15, <3>1, <3>3, <4>1
      <4>3. x.up[m] # p
        <5>1. SUFFICES ASSUME x.up[m] = p PROVE FALSE
          OBVIOUS
        <5>2. PICK d \in Side : x.kid[p][d] = m
          BY <1>2, <3>1, <5>1 DEF Links
        <5>3. d = s \/ d = o
          BY <1>1, Basics
        <5> QED
          BY <1>1, <1>2, <4>1, <5>2, <5>3
      <4> QED
        BY <1>14, <4>2, <4>3
    <3> QED
      BY <3>2, <3>3
  <2> QED
    BY <2>1, <2>2 DEF Coloured
<1>18. PICK h2 : h2 = [m \in Link |-> IF m = p THEN k + 1 ELSE IF m = sib THEN k + 2 ELSE h[m]]
  OBVIOUS
<1>19. h2 \in [Link -> Nat] /\ h2[NIL] = 0
  BY <1>2, <1>9, <1>11, <1>18
<1>20. \A m \in Node : m \in Link
  BY Basics
<1>21. ASSUME NEW m \in Node, NEW d \in Side
       PROVE  h2[m] = h2[y.kid[m][d]] + (IF m \in y.black THEN 1 ELSE 0)
                                + (IF m = p /\ d = s THEN 1 ELSE 0)
  <2>0. d = s \/ d = o
    BY <1>1, Basics
  <2>1. x.kid[m][d] \in Link
    BY TreeFields DEF Links
  <2>2. h2[p] = k + 1 /\ h2[sib] = k + 2 /\ \A l \in Link : l # p /\ l # sib => h2[l] = h[l]
    BY <1>2, <1>18, <1>20
  <2>3. CASE m = p
    <3>1. h2[tmp] = k + 1 /\ h2[n] = k
      <4>1. n # p
        <5>1. n = p => p = u
          BY <1>2, <1>6
        <5> QED
          BY <1>5, <5>1
      <4> QED
        BY <1>2, <1>5, <1>11, <2>2, <4>1
    <3>2. p \notin y.black
      BY <1>2, <1>14
    <3> QED
      BY <1>1, <1>16, <2>0, <2>2, <2>3, <3>1, <3>2
  <2>4. CASE m = sib
    <3>1. out # p /\ out # sib
      BY <1>2, <1>3, <1>5, <1>6
    <3>2. y.kid[sib][s] = p /\ y.kid[sib][o] = out
      BY <1>1, <1>2, <1>3, <1>15, <3>1
    <3>3. h2[out] = k + 1 /\ sib \in y.black
      BY <1>2, <1>10, <1>11, <1>14, <2>2, <3>1
    <3> QED
      BY <1>2, <2>0, <2>2, <2>4, <3>2, <3>3
  <2>5. CASE m # p /\ m # sib
    <3>1. h2[m] = h[m] /\ (m \in y.black <=> m \in x.black)
      BY <1>14, <1>20, <2>2, <2>5
    <3>2. h2[y.kid[m][d]] = h[x.kid[m][d]]
      <4>1. CASE x.kid[m][d] = p
        BY <1>11, <1>15, <2>2, <2>5, <4>1
      <4>2. CASE x.kid[m][d] # p
        BY <1>6, <1>15, <2>1, <2>2, <2>5, <4>2
      <4> QED
        BY <4>1, <4>2
    <3> QED
      BY <1>9, <2>5, <3>1, <3>2
  <2> QED
    BY <2>3, <2>4, <2>5
<1>22. Gapped(y, h2, p, s)
  BY <1>19, <1>21 DEF Gapped
<1>23. n = NIL \/ n \in y.black
  <2>1. n # p /\ n # sib
    <3>1. n = p => p = u
      BY <1>2, <1>6
    <3> QED
      BY <1>2, <1>5, <3>1
  <2> QED
    BY <1>2, <1>14, <2>1, Basics
<1>24. Erasing(y, h2, n, p, s)
  BY <1>5, <1>16, <1>17, <1>22, <1>23 DEF Erasing
<1>25. tmp \in y.black
  BY <1>5, <1>12, <1>13, <1>14
<1> QED
  BY <1>1, <1>16, <1>24, <1>25

\* The tree after case 1: it still lacks a black node below the parent, and
\* the sibling is black.
LEMMA FixedFacts ==
    ASSUME NEW S, NEW pos, NEW h, TreeState(S, pos, h), pc = "erase"
    PROVE  /\ Links(Fixed) /\ InTree(Fixed) = InTree(t) /\ NodeSide \in Side
           /\ \E S2 : Shape(Fixed, S2, pos)
           /\ \E h2 : Erasing(Fixed, h2, node, parent, NodeSide)
           /\ Sibling \in Fixed.black
<1>1. Links(t) /\ Shape(t, S, pos) /\ Erasing(t, h, node, parent, NodeSide) /\ t \in Tree
  BY DEF TreeState, LoopState, Links
<1>2. PICK s \in Side : s = NodeSide
  BY Basics DEF NodeSide
<1>3. PICK o \in Side : o = Other(s) /\ Other(o) = s /\ o # s
  BY Basics
<1>4. PICK sib : t.kid[parent][o] = sib
  OBVIOUS
<1>5. /\ parent \in Node /\ sib \in Node /\ sib # NIL /\ sib # parent
      /\ h[node] \in Nat /\ h[sib] = h[node] + 1
      /\ \A d \in Side : h[sib] = h[t.kid[sib][d]] + (IF sib \in t.black THEN 1 ELSE 0)
  BY <1>1, <1>2, <1>3, <1>4, ErasingFacts
<1>6. PICK y : y = Fixed
  OBVIOUS
<1>7. CASE sib \in t.black
  <2>1. ~IsRed(t, sib)
    BY <1>7 DEF IsRed
  <2>2. Fixed = t
    BY <1>2, <1>3, <1>4, <2>1 DEF Fixed, RedSibling
  <2>3. Sibling = sib
    BY <1>2, <1>3, <1>4, <2>2 DEF Sibling
  <2> QED
    BY <1>1, <1>2, <1>7, <2>2, <2>3
<1>8. CASE sib \notin t.black
  <2>1. IsRed(t, sib)
    BY <1>5, <1>8 DEF IsRed
  <2>2. PICK tmp : tmp = t.kid[sib][s]
    OBVIOUS
  <2>3. tmp # NIL
    <3>1. h[NIL] = 0
      BY <1>1 DEF Erasing, Gapped
    <3>2. h[sib] = h[tmp] + 0
      BY <1>5, <1>8, <2>2
    <3> QED
      BY <1>5, <3>1, <3>2
  <2>4. RotationSite(t, parent, o, sib, t.kid[sib][Other(o)], t.up[parent])
    BY <1>1, <1>4, <1>5, RotationFacts
  <2>5. /\ t.kid[sib][Other(o)] # parent /\ t.up[parent] # parent /\ t.up[parent] # sib
    BY <2>4 DEF RotationSite
  <2>6. y = RotateAtGrandparent(t, sib, parent, o)
    BY <1>2, <1>3, <1>4, <1>6, <2>1, <2>2, <2>3
    DEF Fixed, RedSibling, RotateAtGrandparent, SetIfNode
  <2>7. GrandWrites(t, y, sib, parent, o) /\ GrandColors(t, y, sib, parent, o)
    BY <1>1, <1>5, <2>5, <2>6, GrandFields
  <2>8. Rotated(t, y, parent, sib, o)
    BY <1>1, <1>4, <1>5, <2>7, GrandRotates
  <2>9. Links(y) /\ InTree(y) = InTree(t) /\ \E S2 : Shape(y, S2, pos)
    BY <1>1, <1>4, <1>5, <2>8, RotationShape
  <2>10. (\E h2 : Erasing(y, h2, node, parent, s)) /\ y.kid[parent][o] \in y.black
    BY <1>1, <1>2, <1>3, <1>4, <1>8, <2>7, <2>8, <2>9, RedSiblingErasing
  <2>11. Sibling = y.kid[parent][o]
    BY <1>2, <1>3, <1>6 DEF Sibling
  <2> QED
    BY <1>2, <1>6, <2>9, <2>10, <2>11
<1> QED
  BY <1>7, <1>8

\* Case 2: the sibling sib of n turns red, and maybe the parent p black.
LEMMA FlipHeights ==
    ASSUME NEW x, NEW S, NEW pos, Links(x), Shape(x, S, pos), NEW h, NEW n,
           NEW p, NEW s \in Side, Erasing(x, h, n, p, s), NEW sib,
           x.kid[p][Other(s)] = sib, sib \in x.black,
           \A d \in Side : ~IsRed(x, x.kid[sib][d]),
           NEW y, Recoloured(x, y),
           \A m \in Node : m \in y.black <=>
              IF m = sib THEN FALSE ELSE m = p \/ m \in x.black
    PROVE  /\ p \notin x.black => Rest(y)
           /\ p \in x.black /\ x.up[p] = NIL => Rest(y)
           /\ \A d \in Side : p \in x.black /\ x.up[p] # NIL /\ x.kid[x.up[p]][d] = p =>
                 \E h2 : Erasing(y, h2, p, x.up[p], d)
<1>1. PICK o \in Side : o = Other(s) /\ Other(o) = s /\ o # s
  BY Basics
<1>2. /\ p \in Node /\ p # NIL /\ n \in Link /\ sib \in Node /\ sib # NIL
      /\ x.kid[p][s] = n /\ (n = NIL \/ n \in x.black) /\ n # sib /\ sib # p
      /\ h[n] \in Nat /\ h[sib] = h[n] + 1
      /\ h[p] = h[n] + 1 + (IF p \in x.black THEN 1 ELSE 0)
      /\ \A d \in Side : h[sib] = h[x.kid[sib][d]] + 1
  BY ErasingFacts
<1>3. /\ x.black \subseteq InTree(x)
      /\ \A m \in InTree(x) : m \notin x.black /\ m # NIL => x.up[m] \in x.black
      /\ InTree(x) \subseteq Node /\ p \in InTree(x)
  BY DEF Erasing, Coloured, InTree
<1>4. /\ h \in [Link -> Nat] /\ h[NIL] = 0 /\ NIL \in Link
      /\ \A m \in Node, d \in Side :
          h[m] = h[x.kid[m][d]] + (IF m \in x.black THEN 1 ELSE 0)
                                + (IF m = p /\ d = s THEN 1 ELSE 0)
  BY Basics DEF Erasing, Gapped
<1>5. KidFacts(x, S, pos) /\ y \in Tree /\ y.kid = x.kid /\ InTree(y) = InTree(x)
  BY ShapeFacts, RecolouredShape DEF Recoloured
<1>6. \A m \in Node : y.up[m] = x.up[m]
  BY DEF Recoloured
<1>7. \A m \in Node, d \in Side : x.kid[m][d] = sib => m = p /\ d = o
  <2> TAKE m \in Node, d \in Side
  <2> HAVE x.kid[m][d] = sib
  <2>1. x.up[sib] = m /\ x.up[sib] = p
    BY <1>1, <1>2, <1>5 DEF KidFacts
  <2>2. d = s \/ d = o
    BY <1>1, Basics
  <2> QED
    BY <1>1, <1>2, <2>1, <2>2
<1>8. Coloured(y, NIL)
  <2>1. y.black \subseteq InTree(y)
    <3>1. y.black \subseteq Node
      BY <1>5, TreeFields
    <3> QED
      BY <1>3, <1>5, <3>1
  <2>2. ASSUME NEW m \in InTree(y), m \notin y.black PROVE y.up[m] \in y.black
    <3>1. m \in Node /\ m \in InTree(x)
      BY <1>3, <1>5
    <3>2. CASE m = sib
      <4>1. x.up[sib] = p
        BY <1>1, <1>2, <1>5 DEF KidFacts
      <4> QED
        BY <1>2, <1>6, <3>2, <4>1
    <3>3. CASE m # sib
      <4>1. m \notin x.black /\ m # p /\ m # NIL
        BY <1>2, <2>2, <3>1, <3>3, Basics
      <4>2. x.up[m] \in x.black /\ x.up[m] \in Node
        BY <1>3, <3>1, <4>1
      <4>3. x.up[m] # sib
        <5>1. SUFFICES ASSUME x.up[m] = sib PROVE FALSE
          OBVIOUS
        <5>2. PICK d \in Side : x.kid[sib][d] = m
          BY <1>2, <3>1, <5>1 DEF Links
        <5> QED
          BY <4>1, <5>2 DEF IsRed
      <4> QED
        BY <1>6, <3>1, <4>2, <4>3
    <3> QED
      BY <3>2, <3>3
  <2> QED
    BY <2>1, <2>2 DEF Coloured
<1>9. \A m \in Node : m \in Link
  BY Basics
<1>10. PICK k \in Nat : h[n] = k /\ h[sib] = k + 1
  BY <1>2
<1>11. PICK h2 : h2 = [m \in Link |-> IF m = p THEN k + 1 ELSE IF m = sib THEN k ELSE h[m]]
  OBVIOUS
<1>12. h2[p] = k + 1 /\ h2[sib] = k /\ \A l \in Link : l # p /\ l # sib => h2[l] = h[l]
  BY <1>2, <1>9, <1>11
<1>13. h2 \in [Link -> Nat] /\ h2[NIL] = 0
  BY <1>2, <1>4, <1>11
<1>14. n # p /\ n # sib
  BY <1>2, <1>5 DEF KidFacts
<1>15. ASSUME NEW m \in Node, NEW d \in Side
       PROVE  h2[m] = h2[x.kid[m][d]] + (IF m \in y.black THEN 1 ELSE 0)
                         + (IF x.kid[m][d] = p /\ p \in x.black THEN 1 ELSE 0)
  <2>0. d = s \/ d = o
    BY <1>1, Basics
  <2>1. x.kid[m][d] \in Link
    BY TreeFields DEF Links
  <2>2. CASE m = p
    <3>1. x.kid[p][d] # p
      BY <1>2, <1>5 DEF KidFacts
    <3>2. h2[x.kid[p][d]] = k
      BY <1>1, <1>2, <1>10, <1>12, <1>14, <2>0
    <3>3. p \in y.black
      BY <1>2
    <3> QED
      BY <1>12, <2>2, <3>1, <3>2, <3>3
  <2>3. CASE m = sib
    <3>1. x.kid[sib][d] # p
      <4>1. SUFFICES ASSUME x.kid[sib][d] = p PROVE FALSE
        OBVIOUS
      <4>2. sib \in S[sib] /\ S[sib] \subseteq S[p] /\ p \in S[p] /\ S[p] \subseteq S[sib] /\ p \notin S[sib]
        BY <1>1, <1>2, <1>5, <4>1 DEF KidFacts
      <4> QED
        BY <4>2
    <3>2. x.kid[sib][d] # sib
      BY <1>2, <1>7
    <3>3. h2[x.kid[sib][d]] = h[x.kid[sib][d]]
      BY <1>12, <2>1, <2>3, <3>1, <3>2
    <3>4. h[x.kid[sib][d]] = k
      <4>1. h[x.kid[sib][d]] \in Nat /\ h[sib] = h[x.kid[sib][d]] + 1
        BY <1>2, <1>4, <2>1, <2>3
      <4> QED
        BY <1>10, <4>1
    <3>5. sib \notin y.black
      BY <1>2
    <3> QED
      BY <1>12, <2>3, <3>1, <3>3, <3>4, <3>5
  <2>4. CASE m # p /\ m # sib
    <3>1. h2[m] = h[m] /\ (m \in y.black <=> m \in x.black)
      BY <1>9, <1>12, <2>4
    <3>2. x.kid[m][d] # sib
      BY <1>7, <2>4
    <3>3. h[m] = h[x.kid[m][d]] + (IF m \in x.black THEN 1 ELSE 0) + 0
      BY <1>4, <2>4
    <3>4. h[x.kid[m][d]] \in Nat
      BY <1>4, <2>1
    <3>5. CASE x.kid[m][d] = p
      <4>1. h[p] = k + 1 + (IF p \in x.black THEN 1 ELSE 0)
        BY <1>2, <1>10
      <4>2. h2[p] = k + 1
        BY <1>12
      <4>3. h[m] = h[p] + (IF m \in x.black THEN 1 ELSE 0) + 0
        BY <3>3, <3>5
      <4> QED
        BY <3>1, <3>5, <4>1, <4>2, <4>3
    <3>6. CASE x.kid[m][d] # p
      <4>1. h2[x.kid[m][d]] = h[x.kid[m][d]]
        BY <1>12, <2>1, <3>2, <3>6
      <4> QED
        BY <3>1, <3>3, <3>4, <3>6, <4>1
    <3> QED
      BY <3>5, <3>6
  <2> QED
    BY <2>2, <2>3, <2>4
<1>16. (\A m \in Node, d \in Side : x.kid[m][d] = p => p \notin x.black) => Rest(y)
  <2> HAVE \A m \in Node, d \in Side : x.kid[m][d] = p => p \notin x.black
  <2>1. ASSUME NEW m \in Node, NEW d \in Side
        PROVE  h2[m] = h2[y.kid[m][d]] + (IF m \in y.black THEN 1 ELSE 0)
    <3>1. h2[m] = h2[x.kid[m][d]] + (IF m \in y.black THEN 1 ELSE 0) + 0
      BY <1>15
    <3>2. h2[x.kid[m][d]] \in Nat
      BY <1>13, TreeFields DEF Links
    <3> QED
      BY <1>5, <3>1, <3>2
  <2>2. Balanced(y, h2)
    BY <1>13, <2>1 DEF Balanced
  <2> QED
    BY <1>8, <2>2 DEF Rest
<1>17. x.up[p] = NIL => Rest(y)
  <2> HAVE x.up[p] = NIL
  <2>1. \A m \in Node, d \in Side : x.kid[m][d] # p
    BY <1>2, Basics DEF Links
  <2> QED
    BY <1>16, <2>1
<1>18. ASSUME NEW d \in Side, p \in x.black, x.up[p] # NIL, x.kid[x.up[p]][d] = p
       PROVE  Erasing(y, h2, p, x.up[p], d)
  <2>1. PICK u \in Node : u = x.up[p]
    BY <1>2, <1>18, TreeFields, Basics DEF Links
  <2>2. \A m \in Node, e \in Side : x.kid[m][e] = p <=> m = u /\ e = d
    <3> TAKE m \in Node, e \in Side
    <3>1. x.kid[m][e] = p => m = u
      BY <1>2, <2>1 DEF Links
    <3>2. x.kid[u][d] = p
      BY <1>18, <2>1
    <3>3. x.kid[u][d] # x.kid[u][Other(d)]
      BY <1>2, <1>5, <2>1, <3>2 DEF KidFacts
    <3>4. e = d \/ e = Other(d)
      BY Basics
    <3> QED
      BY <3>1, <3>2, <3>3, <3>4
  <2>3. Gapped(y, h2, u, d)
    <3>1. ASSUME NEW m \in Node, NEW e \in Side
          PROVE  h2[m] = h2[y.kid[m][e]] + (IF m \in y.black THEN 1 ELSE 0)
                             + (IF m = u /\ e = d THEN 1 ELSE 0)
      BY <1>5, <1>15, <1>18, <2>2
    <3> QED
      BY <1>13, <3>1 DEF Gapped
  <2>4. u \in InTree(x)
    <3>1. x.kid[u][d] # NIL
      BY <1>2, <1>18, <2>1
    <3> QED
      BY <3>1 DEF Links
  <2>5. p \in y.black
    BY <1>2
  <2> QED
    BY <1>5, <1>8, <1>18, <2>1, <2>3, <2>4, <2>5 DEF Erasing
<1>19. p \notin x.black => Rest(y)
  BY <1>16
<1> QED
  BY <1>17, <1>18, <1>19

\* Case 2 of ____rb_erase_color: at rest, or one black node is missing below
\* the next parent.
LEMMA EraseFlipKeeps ==
    ASSUME NEW S, NEW pos, NEW h, TreeState(S, pos, h), EraseFlip
    PROVE  Kept(pos)
<1>1. pc = "erase" /\ BlackNephews
  BY DEF EraseFlip
<1>a. PICK s \in Side : s = NodeSide
  BY <1>1, FixedFacts
<1>b. PICK x, sib, p, u : x = Fixed /\ sib = Sibling /\ p = parent /\ u = x.up[p]
  OBVIOUS
<1>2. x = Fixed /\ s = NodeSide /\ sib = Sibling /\ p = parent /\ u = x.up[p]
  BY <1>a, <1>b
<1>3. /\ Links(x) /\ InTree(x) = InTree(t) /\ sib \in x.black
      /\ \E S2 : Shape(x, S2, pos)
      /\ \E h2 : Erasing(x, h2, node, p, s)
  BY <1>1, <1>2, FixedFacts
<1>4. PICK S2 : Shape(x, S2, pos)
  BY <1>3
<1>5. PICK h2 : Erasing(x, h2, node, p, s)
  BY <1>3
<1>6. x.kid[p][Other(s)] = sib
  BY <1>2 DEF Sibling
<1>7. /\ p \in Node /\ p # NIL /\ sib \in Node /\ sib # NIL /\ sib # p /\ x.kid[p][s] = node
  BY <1>3, <1>4, <1>5, <1>6, ErasingFacts
<1>8. \A d \in Side : ~IsRed(x, x.kid[sib][d])
  BY <1>1, <1>2 DEF BlackNephews
<1>9. u \in Link /\ x \in Tree /\ x.up[sib] = p /\ p \in Link
  BY <1>2, <1>3, <1>6, <1>7, TreeFields, Basics DEF Links
<1>10. PICK x1 : x1 = rb_set_parent_color(x, sib, p, FALSE)
  OBVIOUS
<1>11. ColorSet(x, x1, sib, p, FALSE)
  BY <1>7, <1>9, <1>10, SetColorFields
<1>12. x1 \in Tree
  BY <1>11 DEF ColorSet
<1>13. /\ IsRed(x, p) => t' = rb_set_parent_color(x1, p, u, TRUE) /\ Return
       /\ ~IsRed(x, p) => /\ t' = x1
                          /\ u = NIL => Return
                          /\ u # NIL => node' = p /\ parent' = u /\ pc' = pc
  BY <1>2, <1>10 DEF EraseFlip
<1>14. IsRed(x, p) <=> p \notin x.black
  BY <1>7 DEF IsRed
<1>15. /\ Recoloured(x, t')
       /\ \A m \in Node : m \in t'.black <=>
             IF m = sib THEN FALSE ELSE m = p \/ m \in x.black
  <2>1. CASE p \notin x.black
    <3>1. ColorSet(x1, t', p, u, TRUE)
      BY <1>7, <1>9, <1>12, <1>13, <1>14, <2>1, SetColorFields
    <3> QED
      BY <1>2, <1>7, <1>9, <1>11, <3>1 DEF ColorSet, Recoloured
  <2>2. CASE p \in x.black
    BY <1>7, <1>9, <1>11, <1>13, <1>14, <2>2 DEF ColorSet, Recoloured
  <2> QED
    BY <2>1, <2>2
<1>16. Links(t') /\ Shape(t', S2, pos) /\ InTree(t') = InTree(t)
  BY <1>3, <1>4, <1>15, RecolouredShape
<1>17. /\ p \notin x.black => Rest(t')
       /\ p \in x.black /\ x.up[p] = NIL => Rest(t')
       /\ \A d \in Side : p \in x.black /\ x.up[p] # NIL /\ x.kid[x.up[p]][d] = p =>
                 \E h3 : Erasing(t', h3, p, x.up[p], d)
  BY <1>3, <1>4, <1>5, <1>6, <1>8, <1>15, FlipHeights
<1>18. CASE p \notin x.black
  BY <1>13, <1>14, <1>16, <1>17, <1>18, ReturnsAtRest
<1>19. CASE p \in x.black /\ u = NIL
  BY <1>2, <1>13, <1>14, <1>16, <1>17, <1>19, ReturnsAtRest
<1>20. CASE p \in x.black /\ u # NIL
  <2>1. node' = p /\ parent' = u /\ pc' = "erase"
    BY <1>1, <1>13, <1>14, <1>20
  <2>2. PICK e \in Side : x.kid[u][e] = p
    BY <1>2, <1>3, <1>7, <1>20 DEF Links
  <2>3. t'.kid[u][e] = p
    BY <1>15, <2>2 DEF Recoloured
  <2>4. NodeSide' = IF p # t'.kid[u]["right"] THEN "left" ELSE "right"
    BY <2>1 DEF NodeSide
  <2>5. x.kid[u][NodeSide'] = p /\ NodeSide' \in Side
    BY <1>15, <2>2, <2>3, <2>4, Basics DEF Recoloured
  <2>6. PICK h3 : Erasing(t', h3, p, u, NodeSide')
    BY <1>2, <1>17, <1>20, <2>5
  <2>7. LoopState(h3)'
    BY <2>1, <2>6 DEF LoopState
  <2>8. TreeState(S2, pos, h3)'
    BY <1>16, <2>7 DEF TreeState
  <2> QED
    BY <1>16, <2>8 DEF Kept
<1> QED
  BY <1>18, <1>19, <1>20

----------------------------------------------------------------------------
(* Cases 3 and 4 of ____rb_erase_color.                                    *)

\* The writes of RotateSiblingUp are those of a rotation of sib above g.
UpColors(w, y, sib, g, out) ==
    \A m \in Node : m \in y.black <=>
        IF m = g THEN TRUE ELSE IF m = sib THEN g \in w.black
        ELSE m \in w.black \/ m = out

\* The pointers after RotateSiblingUp.
SiblingUpWrites(w, y, sib, g, o, in, out, u) ==
    /\ y \in Tree
    /\ y.root = IF u = NIL THEN sib ELSE w.root
    /\ \A m \in Node : y.up[m] = IF m = g THEN sib
                                 ELSE IF m = sib THEN u
                                 ELSE IF m = in THEN g
                                 ELSE IF m = out THEN sib
                                 ELSE w.up[m]
    /\ \A m \in Node, d \in Side :
          y.kid[m][d] = IF m = g /\ d = o THEN in
                        ELSE IF m = sib /\ d = Other(o) THEN g
                        ELSE IF m = u /\ d = SideOf(w, u, g) THEN sib
                        ELSE w.kid[m][d]

\* RotateSiblingUp does those writes.
LEMMA SiblingUpFields ==
    ASSUME NEW w \in Tree, parent \in Node, NEW sib \in Node, NEW out \in Node,
           NEW s \in Side, NEW in, in = w.kid[sib][s], NEW u, u = w.up[parent],
           sib # parent, out # parent, out # sib, in # parent, in # sib, in # out,
           u # parent, u # sib
    PROVE  /\ SiblingUpWrites(w, RotateSiblingUp(w, sib, out, s), sib, parent, Other(s), in, out, u)
           /\ UpColors(w, RotateSiblingUp(w, sib, out, s), sib, parent, out)
<1>1. PICK o \in Side : o = Other(s) /\ Other(o) = s
  BY Basics
<1>2. in \in Link /\ u \in Link /\ parent \in Link /\ sib \in Link
  BY TreeFields, Basics
<1>3. PICK g \in Node : g = parent
  OBVIOUS
<1>4. PICK x0 : x0 = SetKid(w, g, o, in)
  OBVIOUS
<1>5. KidSet(w, x0, g, o, in)
  BY <1>2, <1>4, SetKidFields
<1>6. x0 \in Tree /\ g \in Link
  BY <1>2, <1>3, <1>5 DEF KidSet
<1>7. PICK x1 : x1 = SetKid(x0, sib, s, g)
  OBVIOUS
<1>8. KidSet(x0, x1, sib, s, g)
  BY <1>6, <1>7, SetKidFields
<1>9. x1 \in Tree
  BY <1>8 DEF KidSet
<1>10. PICK x2 : x2 = rb_set_parent_color(x1, out, sib, TRUE)
  OBVIOUS
<1>11. ColorSet(x1, x2, out, sib, TRUE)
  BY <1>2, <1>9, <1>10, SetColorFields
<1>12. x2 \in Tree
  BY <1>11 DEF ColorSet
<1>13. PICK x3 : x3 = IF in = NIL THEN x2 ELSE rb_set_parent(x2, in, g)
  OBVIOUS
<1>14. UpSet(x2, x3, in, g)
  <2>1. CASE in = NIL
    BY <1>12, <1>13, <2>1, Basics DEF UpSet
  <2>2. CASE in # NIL
    BY <1>2, <1>6, <1>12, <1>13, <2>2, SetParentFields, Basics
  <2> QED
    BY <2>1, <2>2
<1>15. x3 \in Tree
  BY <1>14 DEF UpSet
<1>16. PICK y : y = __rb_rotate_set_parents(x3, g, sib, TRUE)
  OBVIOUS
<1>17. ParentsRotated(x3, y, g, sib, x3.up[g], TRUE)
  BY <1>3, <1>15, <1>16, RotateParentsFields
<1>18. y = RotateSiblingUp(w, sib, out, s)
  BY <1>1, <1>3, <1>4, <1>7, <1>10, <1>13, <1>16 DEF RotateSiblingUp
<1>19. x3.up[g] = u
  BY <1>3, <1>5, <1>8, <1>11, <1>14 DEF KidSet, ColorSet, UpSet
<1>20. \A m \in Node, d \in Side :
          x3.kid[m][d] = IF m = g /\ d = o THEN in
                         ELSE IF m = sib /\ d = s THEN g ELSE w.kid[m][d]
  BY <1>3, <1>5, <1>8, <1>11, <1>14 DEF KidSet, ColorSet, UpSet
<1>21. u # NIL => SideOf(x3, u, g) = SideOf(w, u, g)
  <2>1. u # NIL => u \in Node /\ u # g /\ u # sib
    BY <1>2, <1>3, Basics
  <2> QED
    BY <1>20, <2>1, Basics DEF SideOf
<1>22. \A m \in Node : y.up[m] = IF m = g THEN sib
                                 ELSE IF m = sib THEN u
                                 ELSE IF m = in THEN g
                                 ELSE IF m = out THEN sib
                                 ELSE w.up[m]
  BY <1>5, <1>8, <1>11, <1>14, <1>17, <1>19 DEF KidSet, ColorSet, UpSet, ParentsRotated
<1>23. ASSUME NEW m \in Node, NEW d \in Side
       PROVE  y.kid[m][d] = IF m = g /\ d = o THEN in
                            ELSE IF m = sib /\ d = s THEN g
                            ELSE IF m = u /\ d = SideOf(w, u, g) THEN sib
                            ELSE w.kid[m][d]
  <2>1. y.kid[m][d] = IF m = u /\ d = SideOf(x3, u, g) THEN sib ELSE x3.kid[m][d]
    BY <1>17, <1>19 DEF ParentsRotated
  <2>2. u # g /\ u # sib /\ (m = u => u # NIL)
    BY <1>3, Basics
  <2> QED
    BY <1>20, <1>21, <2>1, <2>2
<1>24. y \in Tree /\ y.root = IF u = NIL THEN sib ELSE w.root
  BY <1>5, <1>8, <1>11, <1>14, <1>17, <1>19 DEF KidSet, ColorSet, UpSet, ParentsRotated
<1>25. UpColors(w, y, sib, g, out)
  BY <1>3, <1>5, <1>8, <1>11, <1>14, <1>17 DEF KidSet, ColorSet, UpSet, ParentsRotated, UpColors
<1>26. SiblingUpWrites(w, y, sib, g, o, in, out, u)
  BY <1>1, <1>22, <1>23, <1>24 DEF SiblingUpWrites
<1> QED
  BY <1>1, <1>3, <1>18, <1>25, <1>26

\* Case 4: the sibling takes the place and the colour of the parent p.
LEMMA SiblingUpRest ==
    ASSUME NEW x, NEW S, NEW pos, Links(x), Shape(x, S, pos), NEW h, NEW n,
           NEW p, NEW s \in Side, Erasing(x, h, n, p, s), NEW sib,
           x.kid[p][Other(s)] = sib, sib \in x.black, NEW out,
           x.kid[sib][Other(s)] = out, IsRed(x, out),
           NEW y, Rotated(x, y, p, sib, Other(s)), UpColors(x, y, sib, p, out),
           InTree(y) = InTree(x)
    PROVE  Rest(y)
<1>1. PICK o \in Side : o = Other(s) /\ Other(o) = s /\ o # s
  BY Basics
<1>2. /\ p \in Node /\ p # NIL /\ n \in Link /\ sib \in Node /\ sib # NIL
      /\ x.kid[p][s] = n /\ (n = NIL \/ n \in x.black) /\ n # sib /\ sib # p
      /\ h[n] \in Nat /\ h[sib] = h[n] + 1
      /\ h[p] = h[n] + 1 + (IF p \in x.black THEN 1 ELSE 0)
      /\ \A d \in Side : h[sib] = h[x.kid[sib][d]] + 1
  BY ErasingFacts
<1>3. PICK in, u : in = x.kid[sib][s] /\ u = x.up[p]
  OBVIOUS
<1>4. RotationSite(x, p, o, sib, in, u)
  BY <1>1, <1>2, <1>3, RotationFacts
<1>5. /\ in \in Link /\ u \in Link /\ in # p /\ in # sib /\ u # p /\ u # sib
      /\ x.up[sib] = p /\ (in # NIL => x.up[in] = sib /\ in \in InTree(x))
      /\ p \in InTree(x) /\ sib \in InTree(x)
  BY <1>4 DEF RotationSite
<1>6. \A m \in Node, d \in Side :
          /\ x.kid[m][d] = p => m = u
          /\ x.kid[m][d] = sib => m = p /\ d = o
  BY <1>1, <1>4 DEF RotationSite
<1>7. /\ x.black \subseteq InTree(x)
      /\ \A m \in InTree(x) : m \notin x.black /\ m # NIL => x.up[m] \in x.black
      /\ InTree(x) \subseteq Node
  BY DEF Erasing, Coloured, InTree
<1>8. KidFacts(x, S, pos)
  BY ShapeFacts
<1>9. /\ h \in [Link -> Nat] /\ h[NIL] = 0 /\ NIL \in Link
      /\ \A m \in Node, d \in Side :
          h[m] = h[x.kid[m][d]] + (IF m \in x.black THEN 1 ELSE 0)
                                + (IF m = p /\ d = s THEN 1 ELSE 0)
  BY Basics DEF Erasing, Gapped
<1>10. /\ out \in Node /\ out \notin x.black /\ out # sib /\ out # p /\ out # in /\ out # n
       /\ x.up[out] = sib /\ out \in InTree(x)
  <2>1. out # NIL /\ out \notin x.black
    BY DEF IsRed
  <2>2. out \in Node /\ x.up[out] = sib /\ out # sib /\ out # in
    BY <1>1, <1>2, <1>3, <1>8, <2>1 DEF KidFacts
  <2>3. out # p
    BY <1>1, <1>2, <1>5, <1>6
  <2> QED
    BY <1>2, <2>1, <2>2, <2>3 DEF InTree
<1>11. PICK k \in Nat : h[n] = k /\ h[sib] = k + 1 /\ h[in] = k /\ h[out] = k
                        /\ h[p] = k + 1 + (IF p \in x.black THEN 1 ELSE 0)
  <2>1. h[in] \in Nat /\ h[out] \in Nat
    BY <1>5, <1>9, <1>10, Basics
  <2>2. h[sib] = h[in] + 1 /\ h[sib] = h[out] + 1
    BY <1>1, <1>2, <1>3
  <2>3. PICK k \in Nat : h[n] = k
    BY <1>2
  <2> QED
    BY <1>2, <2>1, <2>2, <2>3
<1>12. n # p
  BY <1>2, <1>8 DEF KidFacts
<1>13. \A m \in Node : m \in y.black <=> IF m = p THEN TRUE ELSE IF m = sib THEN p \in x.black
                                         ELSE m \in x.black \/ m = out
  BY DEF UpColors
<1>14. /\ y \in Tree
       /\ \A m \in Node : y.up[m] = IF m = p THEN sib ELSE IF m = sib THEN u
                                    ELSE IF m = in THEN p ELSE x.up[m]
       /\ \A m \in Node, d \in Side :
             y.kid[m][d] = IF m = p /\ d = o THEN in
                           ELSE IF m = sib /\ d = s THEN p
                           ELSE IF x.kid[m][d] = p THEN sib
                           ELSE x.kid[m][d]
  BY <1>1, <1>3 DEF Rotated
<1>15. Coloured(y, NIL)
  <2>1. y.black \subseteq InTree(y)
    <3>1. y.black \subseteq Node
      BY <1>14, TreeFields
    <3> QED
      BY <1>5, <1>7, <1>10, <1>13, <3>1
  <2>2. ASSUME NEW m \in InTree(y), m \notin y.black PROVE y.up[m] \in y.black
    <3>1. m \in Node /\ m \in InTree(x) /\ m # p /\ m # NIL
      BY <1>2, <1>7, <1>13, <2>2, Basics
    <3>2. CASE m = sib
      <4>1. p \notin x.black
        BY <1>2, <1>13, <2>2, <3>2
      <4>2. u \in x.black /\ u \in Node
        BY <1>2, <1>3, <1>5, <1>7, <4>1
      <4> QED
        BY <1>2, <1>5, <1>13, <1>14, <3>2, <4>2
    <3>3. CASE m = in
      BY <1>2, <1>5, <1>13, <1>14, <3>1, <3>3
    <3>4. CASE m # sib /\ m # in
      <4>1. m \notin x.black /\ m # out
        BY <1>13, <2>2, <3>1, <3>4
      <4>2. x.up[m] \in x.black /\ y.up[m] = x.up[m] /\ x.up[m] \in Node
        BY <1>7, <1>14, <3>1, <3>4, <4>1
      <4>3. x.up[m] # sib
        <5>1. SUFFICES ASSUME x.up[m] = sib PROVE FALSE
          OBVIOUS
        <5>2. PICK d \in Side : x.kid[sib][d] = m
          BY <1>2, <3>1, <5>1 DEF Links
        <5>3. d = s \/ d = o
          BY <1>1, Basics
        <5> QED
          BY <1>1, <1>3, <3>4, <4>1, <5>2, <5>3
      <4> QED
        BY <1>13, <4>2, <4>3
    <3> QED
      BY <3>2, <3>3, <3>4
  <2> QED
    BY <2>1, <2>2 DEF Coloured
<1>16. PICK b \in Nat : b = IF p \in x.black THEN 1 ELSE 0
  OBVIOUS
<1>17. PICK h2 : h2 = [m \in Link |-> IF m = p \/ m = out THEN k + 1
                                      ELSE IF m = sib THEN k + 1 + b ELSE h[m]]
  OBVIOUS
<1>18. h2 \in [Link -> Nat] /\ h2[NIL] = 0
  BY <1>2, <1>9, <1>10, <1>11, <1>17, Basics
<1>19. \A m \in Node : m \in Link
  BY Basics
<1>20. /\ h2[p] = k + 1 /\ h2[out] = k + 1 /\ h2[sib] = k + 1 + b
       /\ \A l \in Link : l # p /\ l # sib /\ l # out => h2[l] = h[l]
  BY <1>2, <1>10, <1>17, <1>19
<1>21. ASSUME NEW m \in Node, NEW d \in Side
       PROVE  h2[m] = h2[y.kid[m][d]] + (IF m \in y.black THEN 1 ELSE 0)
  <2>0. d = s \/ d = o
    BY <1>1, Basics
  <2>1. x.kid[m][d] \in Link
    BY TreeFields DEF Links
  <2>2. CASE m = p
    <3>1. y.kid[p][o] = in /\ y.kid[p][s] = n
      BY <1>1, <1>2, <1>12, <1>14
    <3>2. h2[in] = k /\ h2[n] = k
      BY <1>2, <1>5, <1>10, <1>11, <1>12, <1>20
    <3>3. p \in y.black
      BY <1>2, <1>13
    <3> QED
      BY <1>20, <2>0, <2>2, <3>1, <3>2, <3>3
  <2>3. CASE m = sib
    <3>1. y.kid[sib][s] = p /\ y.kid[sib][o] = out
      BY <1>1, <1>2, <1>10, <1>14
    <3>2. h2[y.kid[sib][d]] = k + 1
      BY <1>20, <2>0, <3>1
    <3>3. b = IF sib \in y.black THEN 1 ELSE 0
      BY <1>2, <1>13, <1>16
    <3>4. h2[sib] = k + 1 + b
      BY <1>20
    <3> QED
      BY <2>3, <3>2, <3>3, <3>4
  <2>4. CASE m = out
    <3>1. x.kid[out][d] # p /\ x.kid[out][d] # sib /\ x.kid[out][d] # out
      <4>1. x.kid[out][d] # sib
        BY <1>6, <1>10
      <4>2. x.kid[out][d] # out
        BY <1>8, <1>10, Basics DEF KidFacts
      <4>3. x.kid[out][d] # p
        <5>1. SUFFICES ASSUME x.kid[out][d] = p PROVE FALSE
          OBVIOUS
        <5>2. p \in S[p] /\ S[p] \subseteq S[out] /\ S[out] \subseteq S[sib] /\ p \notin S[sib]
          BY <1>1, <1>2, <1>8, <1>10, <5>1 DEF KidFacts
        <5> QED
          BY <5>2
      <4> QED
        BY <4>1, <4>2, <4>3
    <3>2. y.kid[out][d] = x.kid[out][d]
      BY <1>10, <1>14, <3>1
    <3>3. h2[x.kid[out][d]] = h[x.kid[out][d]] /\ h[x.kid[out][d]] \in Nat
      BY <1>9, <1>20, <2>1, <2>4, <3>1
    <3>4. h[out] = h[x.kid[out][d]] + 0 + 0
      BY <1>9, <1>10
    <3>5. out \in y.black
      BY <1>10, <1>13
    <3>6. h2[x.kid[out][d]] = k
      BY <1>11, <3>3, <3>4
    <3> QED
      BY <1>20, <2>4, <3>2, <3>5, <3>6
  <2>5. CASE m # p /\ m # sib /\ m # out
    <3>1. h2[m] = h[m] /\ (m \in y.black <=> m \in x.black)
      BY <1>13, <1>19, <1>20, <2>5
    <3>2. h2[y.kid[m][d]] = h[x.kid[m][d]]
      <4>1. CASE x.kid[m][d] = p
        <5>1. y.kid[m][d] = sib
          BY <1>14, <2>5, <4>1
        <5>2. h[p] = k + 1 + b
          BY <1>11, <1>16
        <5> QED
          BY <1>20, <4>1, <5>1, <5>2
      <4>2. CASE x.kid[m][d] # p
        <5>1. x.kid[m][d] # out
          BY <1>8, <1>10, <2>5, Basics DEF KidFacts
        <5> QED
          BY <1>6, <1>14, <1>20, <2>1, <2>5, <4>2, <5>1
      <4> QED
        BY <4>1, <4>2
    <3>3. h[m] = h[x.kid[m][d]] + (IF m \in x.black THEN 1 ELSE 0) + 0
      BY <1>9, <2>5
    <3>4. h[x.kid[m][d]] \in Nat
      BY <1>9, <2>1
    <3> QED
      BY <3>1, <3>2, <3>3, <3>4
  <2> QED
    BY <2>2, <2>3, <2>4, <2>5
<1>22. Balanced(y, h2)
  BY <1>18, <1>21 DEF Balanced
<1> QED
  BY <1>15, <1>22 DEF Rest

\* Cases 3 and 4: the inner nephew in takes the place and the colour of p.
NephewColors(x, y, sib, p, in, tmp) ==
    \A m \in Node : m \in y.black <=>
        IF m = p THEN TRUE ELSE IF m = in THEN p \in x.black
        ELSE m \in x.black \/ m = sib \/ m = tmp

\* Cases 3 and 4 together give the missing black node back.
LEMMA NephewUpRest ==
    ASSUME NEW x, NEW S, NEW pos, Links(x), Shape(x, S, pos), NEW h, NEW n,
           NEW p, NEW s \in Side, Erasing(x, h, n, p, s), NEW sib, NEW in,
           x.kid[p][Other(s)] = sib, sib \in x.black,
           InnerChild(x, p, Other(s), sib, in), in \notin x.black,
           NEW y, DoubleRotated(x, y, p, sib, in, Other(s)),
           NephewColors(x, y, sib, p, in, x.kid[in][Other(s)]), InTree(y) = InTree(x)
    PROVE  Rest(y)
<1>1. PICK o \in Side : o = Other(s) /\ Other(o) = s /\ o # s
  BY Basics
<1>2. /\ p \in Node /\ p # NIL /\ n \in Link /\ sib \in Node /\ sib # NIL
      /\ x.kid[p][s] = n /\ (n = NIL \/ n \in x.black) /\ n # sib /\ sib # p
      /\ h[n] \in Nat /\ h[sib] = h[n] + 1
      /\ h[p] = h[n] + 1 + (IF p \in x.black THEN 1 ELSE 0)
      /\ \A d \in Side : h[sib] = h[x.kid[sib][d]] + 1
  BY ErasingFacts
<1>3. PICK a, tmp, u, out : a = x.kid[in][s] /\ tmp = x.kid[in][o] /\ u = x.up[p]
                            /\ out = x.kid[sib][o]
  OBVIOUS
<1>4. InnerSite(x, p, o, sib, in, tmp, a, u)
  BY <1>1, <1>2, <1>3, InnerFacts
<1>5. /\ in \in Node /\ a \in Link /\ tmp \in Link /\ u \in Link
      /\ in # p /\ in # sib /\ u # p /\ u # sib /\ u # in
      /\ a # p /\ a # sib /\ a # in /\ tmp # p /\ tmp # sib /\ tmp # in
      /\ x.up[sib] = p /\ x.up[in] = sib
      /\ (a # NIL => x.up[a] = in) /\ (tmp # NIL => x.up[tmp] = in)
      /\ p \in InTree(x) /\ sib \in InTree(x) /\ in \in InTree(x)
  BY <1>4 DEF InnerSite
<1>6. \A m \in Node, d \in Side :
          /\ x.kid[m][d] = p => m = u
          /\ x.kid[m][d] = sib => m = p /\ d = o
          /\ x.kid[m][d] = in => m = sib /\ d = s
  BY <1>1, <1>4 DEF InnerSite
<1>7. /\ x.black \subseteq InTree(x)
      /\ \A m \in InTree(x) : m \notin x.black /\ m # NIL => x.up[m] \in x.black
      /\ InTree(x) \subseteq Node
  BY DEF Erasing, Coloured, InTree
<1>8. KidFacts(x, S, pos)
  BY ShapeFacts
<1>9. /\ h \in [Link -> Nat] /\ h[NIL] = 0 /\ NIL \in Link
      /\ \A m \in Node, d \in Side :
          h[m] = h[x.kid[m][d]] + (IF m \in x.black THEN 1 ELSE 0)
                                + (IF m = p /\ d = s THEN 1 ELSE 0)
  BY Basics DEF Erasing, Gapped
<1>10. (a = NIL \/ a \in x.black) /\ (tmp = NIL \/ tmp \in x.black)
  <2>1. a # NIL => a \in Node /\ a \in InTree(x)
    BY <1>5, Basics DEF InTree
  <2>2. tmp # NIL => tmp \in Node /\ tmp \in InTree(x)
    BY <1>5, Basics DEF InTree
  <2> QED
    BY <1>5, <1>7, <2>1, <2>2
<1>11. out \in Link /\ out # p /\ out # sib /\ out # in
  BY <1>1, <1>2, <1>3, <1>5, <1>6, TreeFields DEF Links
<1>12. n # p /\ n # in
  BY <1>1, <1>2, <1>5, <1>6, <1>8 DEF KidFacts
<1>13. x.kid[sib][s] = in
  BY <1>1 DEF InnerChild
<1>14. PICK k \in Nat : /\ h[n] = k /\ h[sib] = k + 1 /\ h[in] = k /\ h[out] = k
                        /\ h[a] = k /\ h[tmp] = k
                        /\ h[p] = k + 1 + (IF p \in x.black THEN 1 ELSE 0)
  <2>1. h[in] \in Nat /\ h[out] \in Nat /\ h[a] \in Nat /\ h[tmp] \in Nat
    BY <1>5, <1>9, <1>11, Basics
  <2>2. h[sib] = h[in] + 1 /\ h[sib] = h[out] + 1
    BY <1>1, <1>2, <1>3, <1>13
  <2>3. h[in] = h[a] + 0 + 0 /\ h[in] = h[tmp] + 0 + 0
    BY <1>1, <1>3, <1>5, <1>9
  <2>4. PICK k \in Nat : h[n] = k
    BY <1>2
  <2>5. h[in] = k /\ h[out] = k /\ h[sib] = k + 1
    BY <1>2, <2>1, <2>2, <2>4
  <2> QED
    BY <1>2, <2>1, <2>3, <2>4, <2>5
<1>15. \A m \in Node : m \in y.black <=> IF m = p THEN TRUE ELSE IF m = in THEN p \in x.black
                                         ELSE m \in x.black
  BY <1>1, <1>2, <1>3, <1>10, Basics DEF NephewColors
<1>16. /\ y \in Tree
       /\ \A m \in Node : y.up[m] = IF m = in THEN u ELSE IF m = sib \/ m = p THEN in
                                    ELSE IF m = tmp THEN sib ELSE IF m = a THEN p
                                    ELSE x.up[m]
       /\ \A m \in Node, d \in Side :
             y.kid[m][d] = IF m = in THEN IF d = o THEN sib ELSE p
                           ELSE IF m = sib /\ d = s THEN tmp
                           ELSE IF m = p /\ d = o THEN a
                           ELSE IF x.kid[m][d] = p THEN in
                           ELSE x.kid[m][d]
  BY <1>1, <1>3 DEF DoubleRotated
<1>17. Coloured(y, NIL)
  <2>1. y.black \subseteq InTree(y)
    <3>1. y.black \subseteq Node
      BY <1>16, TreeFields
    <3> QED
      BY <1>5, <1>7, <1>15, <3>1
  <2>2. ASSUME NEW m \in InTree(y), m \notin y.black PROVE y.up[m] \in y.black
    <3>1. m \in Node /\ m \in InTree(x) /\ m # p /\ m # NIL
      BY <1>2, <1>7, <1>15, <2>2, Basics
    <3>2. CASE m = in
      <4>1. p \notin x.black
        BY <1>5, <1>15, <2>2, <3>2
      <4>2. u \in x.black /\ u \in Node
        BY <1>2, <1>3, <1>5, <1>7, <4>1
      <4> QED
        BY <1>5, <1>15, <1>16, <3>2, <4>2
    <3>3. CASE m # in
      <4>1. m \notin x.black /\ m # sib /\ m # a /\ m # tmp
        BY <1>10, <1>15, <2>2, <3>1, <3>3
      <4>2. x.up[m] \in x.black /\ y.up[m] = x.up[m] /\ x.up[m] \in Node
        BY <1>7, <1>16, <3>1, <3>3, <4>1
      <4>3. x.up[m] # in
        BY <4>2
      <4> QED
        BY <1>15, <4>2, <4>3
    <3> QED
      BY <3>2, <3>3
  <2> QED
    BY <2>1, <2>2 DEF Coloured
<1>18. PICK b \in Nat : b = IF p \in x.black THEN 1 ELSE 0
  OBVIOUS
<1>19. PICK h2 : h2 = [m \in Link |-> IF m = p THEN k + 1
                                      ELSE IF m = in THEN k + 1 + b ELSE h[m]]
  OBVIOUS
<1>20. h2 \in [Link -> Nat] /\ h2[NIL] = 0
  BY <1>2, <1>5, <1>9, <1>14, <1>19, Basics
<1>21. \A m \in Node : m \in Link
  BY Basics
<1>22. /\ h2[p] = k + 1 /\ h2[in] = k + 1 + b
       /\ \A l \in Link : l # p /\ l # in => h2[l] = h[l]
  BY <1>2, <1>5, <1>19, <1>21
<1>23. ASSUME NEW m \in Node, NEW d \in Side
       PROVE  h2[m] = h2[y.kid[m][d]] + (IF m \in y.black THEN 1 ELSE 0)
  <2>0. d = s \/ d = o
    BY <1>1, Basics
  <2>1. x.kid[m][d] \in Link
    BY TreeFields DEF Links
  <2>2. CASE m = p
    <3>1. y.kid[p][o] = a /\ y.kid[p][s] = n
      BY <1>1, <1>2, <1>5, <1>12, <1>16
    <3>2. h2[a] = k /\ h2[n] = k
      BY <1>2, <1>5, <1>12, <1>14, <1>22
    <3>3. p \in y.black
      BY <1>2, <1>15
    <3> QED
      BY <1>22, <2>0, <2>2, <3>1, <3>2, <3>3
  <2>3. CASE m = in
    <3>1. y.kid[in][s] = p /\ y.kid[in][o] = sib
      BY <1>1, <1>5, <1>16
    <3>2. h2[sib] = k + 1
      BY <1>2, <1>5, <1>14, <1>21, <1>22
    <3>3. h2[y.kid[in][d]] = k + 1
      BY <1>22, <2>0, <3>1, <3>2
    <3>4. b = IF in \in y.black THEN 1 ELSE 0
      BY <1>5, <1>15, <1>18
    <3>5. h2[in] = k + 1 + b
      BY <1>22
    <3> QED
      BY <2>3, <3>3, <3>4, <3>5
  <2>4. CASE m = sib
    <3>1. y.kid[sib][s] = tmp /\ y.kid[sib][o] = out
      BY <1>1, <1>2, <1>3, <1>5, <1>11, <1>16
    <3>2. h2[tmp] = k /\ h2[out] = k /\ h2[sib] = k + 1
      BY <1>2, <1>5, <1>11, <1>14, <1>21, <1>22
    <3>3. sib \in y.black
      BY <1>2, <1>5, <1>15
    <3> QED
      BY <2>0, <2>4, <3>1, <3>2, <3>3
  <2>5. CASE m # p /\ m # sib /\ m # in
    <3>1. h2[m] = h[m] /\ (m \in y.black <=> m \in x.black)
      BY <1>15, <1>21, <1>22, <2>5
    <3>2. h2[y.kid[m][d]] = h[x.kid[m][d]]
      <4>1. CASE x.kid[m][d] = p
        <5>1. y.kid[m][d] = in
          BY <1>16, <2>5, <4>1
        <5>2. h[p] = k + 1 + b
          BY <1>14, <1>18
        <5> QED
          BY <1>22, <4>1, <5>1, <5>2
      <4>2. CASE x.kid[m][d] # p
        BY <1>6, <1>16, <1>22, <2>1, <2>5, <4>2
      <4> QED
        BY <4>1, <4>2
    <3>3. h[m] = h[x.kid[m][d]] + (IF m \in x.black THEN 1 ELSE 0) + 0
      BY <1>9, <2>5
    <3>4. h[x.kid[m][d]] \in Nat
      BY <1>9, <2>1
    <3> QED
      BY <3>1, <3>2, <3>3, <3>4
  <2> QED
    BY <2>2, <2>3, <2>4, <2>5
<1>24. Balanced(y, h2)
  BY <1>20, <1>23 DEF Balanced
<1> QED
  BY <1>17, <1>24 DEF Rest

\* RotateAtSibling, followed by RotateSiblingUp, is a double rotation.
LEMMA NephewUp ==
    ASSUME NEW x, NEW S, NEW pos, Links(x), Shape(x, S, pos), parent \in Node,
           NEW s \in Side, NEW sib, NEW in, InnerChild(x, parent, Other(s), sib, in),
           NEW y, y = RotateSiblingUp(RotateAtSibling(x, sib, s), in, sib, s)
    PROVE  /\ DoubleRotated(x, y, parent, sib, in, Other(s))
           /\ NephewColors(x, y, sib, parent, in, x.kid[in][Other(s)])
<1>1. PICK o \in Side : o = Other(s) /\ Other(o) = s /\ o # s
  BY Basics
<1>2. PICK g \in Node : g = parent
  OBVIOUS
<1>3. PICK a, tmp, u : a = x.kid[in][s] /\ tmp = x.kid[in][o] /\ u = x.up[g]
  OBVIOUS
<1>4. InnerSite(x, g, o, sib, in, tmp, a, u)
  BY <1>1, <1>2, <1>3, InnerFacts
<1>5. /\ sib \in Node /\ in \in Node /\ tmp \in Link /\ a \in Link /\ u \in Link
      /\ sib # g /\ in # g /\ in # sib /\ u # g /\ u # sib /\ u # in
      /\ a # g /\ a # sib /\ a # in /\ tmp # g /\ tmp # sib /\ tmp # in
      /\ (a # NIL => a # tmp) /\ (u # NIL => u # a /\ u # tmp)
      /\ x.up[sib] = g /\ x.up[in] = sib
      /\ (tmp # NIL => x.up[tmp] = in) /\ (a # NIL => x.up[a] = in)
      /\ (u = NIL <=> x.root = g)
  BY <1>4 DEF InnerSite
<1>6. x.kid[sib][s] = in /\ x.kid[g][o] = sib /\ x \in Tree
  BY <1>1, <1>2 DEF InnerChild, Links
<1>7. PICK x1 : x1 = SetKid(x, sib, s, tmp)
  OBVIOUS
<1>8. KidSet(x, x1, sib, s, tmp)
  BY <1>5, <1>6, <1>7, SetKidFields
<1>9. x1 \in Tree /\ sib \in Link /\ in \in Link
  BY <1>5, <1>8, Basics DEF KidSet
<1>10. PICK x2 : x2 = SetKid(x1, in, o, sib)
  OBVIOUS
<1>11. KidSet(x1, x2, in, o, sib)
  BY <1>5, <1>9, <1>10, SetKidFields
<1>12. x2 \in Tree
  BY <1>11 DEF KidSet
<1>13. PICK x3 : x3 = SetKid(x2, g, o, in)
  OBVIOUS
<1>14. KidSet(x2, x3, g, o, in)
  BY <1>9, <1>12, <1>13, SetKidFields
<1>15. x3 \in Tree
  BY <1>14 DEF KidSet
<1>16. PICK w : w = SetIfNode(x3, tmp, sib, TRUE)
  OBVIOUS
<1>17. ColorSet(x3, w, tmp, sib, TRUE)
  BY <1>5, <1>9, <1>15, <1>16, SetIfNodeFields
<1>18. w = RotateAtSibling(x, sib, s)
  BY <1>1, <1>2, <1>3, <1>6, <1>7, <1>10, <1>13, <1>16 DEF RotateAtSibling
<1>19. /\ w \in Tree /\ w.root = x.root
       /\ \A m \in Node : w.up[m] = IF m = tmp THEN sib ELSE x.up[m]
       /\ \A m \in Node : m \in w.black <=> m \in x.black \/ m = tmp
       /\ \A m \in Node, d \in Side :
             w.kid[m][d] = IF m = sib /\ d = s THEN tmp
                           ELSE IF m = in /\ d = o THEN sib
                           ELSE IF m = g /\ d = o THEN in
                           ELSE x.kid[m][d]
  BY <1>5, <1>8, <1>11, <1>14, <1>17 DEF KidSet, ColorSet
<1>20. w.kid[in][s] = a /\ w.up[g] = u
  BY <1>1, <1>3, <1>5, <1>19
<1>21. y = RotateSiblingUp(w, in, sib, s)
  BY <1>18
<1>22. a # sib
  BY <1>5
<1>23. /\ SiblingUpWrites(w, RotateSiblingUp(w, in, sib, s), in, parent, Other(s), a, sib, u)
       /\ UpColors(w, RotateSiblingUp(w, in, sib, s), in, parent, sib)
  BY <1>2, <1>5, <1>19, <1>20, SiblingUpFields
<1>24. SiblingUpWrites(w, y, in, g, o, a, sib, u) /\ UpColors(w, y, in, g, sib)
  BY <1>1, <1>2, <1>21, <1>23
<1>25. NephewColors(x, y, sib, g, in, tmp)
  BY <1>5, <1>19, <1>24 DEF UpColors, NephewColors
<1>26. u # NIL => SideOf(w, u, g) = SideOf(x, u, g)
  <2>1. u # NIL => u \in Node
    BY <1>5, Basics
  <2> QED
    BY <1>5, <1>19, <2>1, Basics DEF SideOf
<1>27. ASSUME NEW m \in Node, NEW d \in Side
       PROVE  (m = u /\ d = SideOf(x, u, g)) <=> x.kid[m][d] = g
  <2>1. ASSUME x.kid[m][d] = g PROVE m = u /\ d = SideOf(x, u, g)
    <3>1. m = u
      BY <1>4, <2>1 DEF InnerSite
    <3> QED
      BY <2>1, <3>1, SideOfChild, Basics
  <2>2. ASSUME m = u, d = SideOf(x, u, g) PROVE x.kid[m][d] = g
    <3>1. PICK e \in Side : x.kid[u][e] = g
      BY <1>4, <2>2, Basics DEF InnerSite
    <3>2. SideOf(x, u, g) = e
      BY <2>2, <3>1, SideOfChild, Basics
    <3> QED
      BY <2>2, <3>1, <3>2
  <2> QED
    BY <2>1, <2>2
<1>28. ASSUME NEW m \in Node, NEW d \in Side
       PROVE  y.kid[m][d] = IF m = in THEN IF d = o THEN sib ELSE g
                            ELSE IF m = sib /\ d = s THEN tmp
                            ELSE IF m = g /\ d = o THEN a
                            ELSE IF x.kid[m][d] = g THEN in
                            ELSE x.kid[m][d]
  <2>1. y.kid[m][d] = IF m = g /\ d = o THEN a
                      ELSE IF m = in /\ d = s THEN g
                      ELSE IF m = u /\ d = SideOf(w, u, g) THEN in
                      ELSE w.kid[m][d]
    BY <1>1, <1>24 DEF SiblingUpWrites
  <2>2. m = u => SideOf(w, u, g) = SideOf(x, u, g)
    BY <1>26, Basics
  <2>3. d = s \/ d = o
    BY <1>1, Basics
  <2>4. y.kid[m][d] = IF m = g /\ d = o THEN a
                      ELSE IF m = in /\ d = s THEN g
                      ELSE IF x.kid[m][d] = g THEN in
                      ELSE w.kid[m][d]
    BY <1>27, <2>1, <2>2
  <2>5. x.kid[m][d] = g => m # in /\ m # sib /\ m # g
    BY <1>5, <1>27
  <2> QED
    BY <1>1, <1>5, <1>19, <2>3, <2>4, <2>5
<1>29. \A m \in Node : y.up[m] = IF m = in THEN u ELSE IF m = sib \/ m = g THEN in
                                 ELSE IF m = tmp THEN sib ELSE IF m = a THEN g
                                 ELSE x.up[m]
  <2> TAKE m \in Node
  <2>1. y.up[m] = IF m = g THEN in
                  ELSE IF m = in THEN u
                  ELSE IF m = a THEN g
                  ELSE IF m = sib THEN in
                  ELSE w.up[m]
    BY <1>24 DEF SiblingUpWrites
  <2>2. m # NIL
    BY Basics
  <2> QED
    BY <1>5, <1>19, <2>1, <2>2
<1>30. y \in Tree /\ y.root = IF x.root = g THEN in ELSE x.root
  BY <1>5, <1>19, <1>24 DEF SiblingUpWrites
<1>31. DoubleRotated(x, y, g, sib, in, o)
  BY <1>1, <1>3, <1>28, <1>29, <1>30 DEF DoubleRotated
<1> QED
  BY <1>1, <1>2, <1>3, <1>25, <1>31

\* RotateSiblingUp is a rotation with these colours.
LEMMA SiblingUp ==
    ASSUME NEW x, NEW S, NEW pos, Links(x), Shape(x, S, pos), parent \in Node,
           NEW s \in Side, NEW sib, x.kid[parent][Other(s)] = sib, sib # NIL,
           NEW out, x.kid[sib][Other(s)] = out, out # NIL,
           NEW y, y = RotateSiblingUp(x, sib, out, s)
    PROVE  /\ Rotated(x, y, parent, sib, Other(s))
           /\ UpColors(x, y, sib, parent, out)
<1>1. PICK o \in Side : o = Other(s) /\ Other(o) = s /\ o # s
  BY Basics
<1>2. PICK g \in Node : g = parent
  OBVIOUS
<1>3. PICK in, u : in = x.kid[sib][s] /\ u = x.up[g]
  OBVIOUS
<1>4. RotationSite(x, g, o, sib, in, u)
  BY <1>1, <1>2, <1>3, RotationFacts
<1>5. /\ sib \in Node /\ in \in Link /\ u \in Link /\ sib # g
      /\ in # g /\ in # sib /\ u # g /\ u # sib /\ x.up[sib] = g
      /\ (u = NIL <=> x.root = g)
      /\ \A m \in Node, d \in Side : x.kid[m][d] = g => m = u
  BY <1>4 DEF RotationSite
<1>6. KidFacts(x, S, pos) /\ x \in Tree
  BY ShapeFacts DEF Links
<1>7. out \in Node /\ out # sib /\ out # in /\ x.up[out] = sib
  BY <1>1, <1>3, <1>5, <1>6 DEF KidFacts
<1>8. out # g
  BY <1>1, <1>5
<1>9. /\ SiblingUpWrites(x, RotateSiblingUp(x, sib, out, s), sib, parent, Other(s), in, out, u)
      /\ UpColors(x, RotateSiblingUp(x, sib, out, s), sib, parent, out)
  BY <1>2, <1>3, <1>5, <1>6, <1>7, <1>8, SiblingUpFields
<1>10. SiblingUpWrites(x, y, sib, g, o, in, out, u) /\ UpColors(x, y, sib, g, out)
  BY <1>1, <1>2, <1>9
<1>11. \A m \in Node : y.up[m] = IF m = g THEN sib ELSE IF m = sib THEN u
                                 ELSE IF m = in THEN g ELSE x.up[m]
  BY <1>7, <1>10 DEF SiblingUpWrites
<1>12. GrandWrites(x, y, sib, g, o)
  BY <1>1, <1>3, <1>10, <1>11 DEF SiblingUpWrites, GrandWrites
<1>13. x.kid[g][o] = sib
  BY <1>1, <1>2
<1>14. Rotated(x, y, g, sib, o)
  BY <1>12, <1>13, GrandRotates
<1> QED
  BY <1>1, <1>2, <1>10, <1>14

\* Cases 3 and 4: after the rotations the tree is at rest.
LEMMA EraseRotateKeeps ==
    ASSUME NEW S, NEW pos, NEW h, TreeState(S, pos, h), EraseRotate
    PROVE  Kept(pos)
<1>1. pc = "erase" /\ ~BlackNephews /\ Return
  BY DEF EraseRotate
<1>a. PICK s \in Side : s = NodeSide
  BY <1>1, FixedFacts
<1>b. PICK x, sib, out, in : x = Fixed /\ sib = Sibling /\ out = x.kid[sib][Other(s)]
                             /\ in = x.kid[sib][s]
  OBVIOUS
<1>2. /\ Links(x) /\ InTree(x) = InTree(t) /\ sib \in x.black
      /\ \E S2 : Shape(x, S2, pos)
      /\ \E h2 : Erasing(x, h2, node, parent, s)
  BY <1>1, <1>a, <1>b, FixedFacts
<1>3. PICK S2 : Shape(x, S2, pos)
  BY <1>2
<1>4. PICK h2 : Erasing(x, h2, node, parent, s)
  BY <1>2
<1>5. x.kid[parent][Other(s)] = sib
  BY <1>a, <1>b DEF Sibling
<1>6. parent \in Node /\ sib \in Node /\ sib # NIL
  BY <1>2, <1>3, <1>4, <1>5, ErasingFacts
<1>7. t' = IF IsRed(x, out) THEN RotateSiblingUp(x, sib, out, s)
           ELSE RotateSiblingUp(RotateAtSibling(x, sib, s), in, sib, s)
  BY <1>a, <1>b DEF EraseRotate
<1>8. CASE IsRed(x, out)
  <2>1. out # NIL /\ t' = RotateSiblingUp(x, sib, out, s)
    BY <1>7, <1>8 DEF IsRed
  <2>2. Rotated(x, t', parent, sib, Other(s)) /\ UpColors(x, t', sib, parent, out)
    BY <1>b, <1>2, <1>3, <1>5, <1>6, <2>1, SiblingUp
  <2>3. Links(t') /\ InTree(t') = InTree(x) /\ \E S3 : Shape(t', S3, pos)
    BY <1>2, <1>3, <1>5, <1>6, <2>2, RotationShape, Basics
  <2>4. Rest(t')
    BY <1>b, <1>2, <1>3, <1>4, <1>5, <1>8, <2>2, <2>3, SiblingUpRest
  <2> QED
    BY <1>1, <1>2, <2>3, <2>4, ReturnsAtRest
<1>9. CASE ~IsRed(x, out)
  <2>1. IsRed(x, in)
    BY <1>1, <1>a, <1>b, <1>9, Basics DEF BlackNephews
  <2>2. in # NIL /\ in \notin x.black
    BY <2>1 DEF IsRed
  <2>3. InnerChild(x, parent, Other(s), sib, in)
    BY <1>b, <1>5, <1>6, <2>2, Basics DEF InnerChild
  <2>4. /\ DoubleRotated(x, t', parent, sib, in, Other(s))
        /\ NephewColors(x, t', sib, parent, in, x.kid[in][Other(s)])
    BY <1>2, <1>3, <1>6, <1>7, <1>9, <2>3, NephewUp
  <2>5. Links(t') /\ InTree(t') = InTree(x) /\ \E S3 : Shape(t', S3, pos)
    BY <1>2, <1>3, <1>6, <2>3, <2>4, DoubleRotation, Basics
  <2>6. Rest(t')
    BY <1>2, <1>3, <1>4, <1>5, <2>2, <2>3, <2>4, <2>5, NephewUpRest
  <2> QED
    BY <1>1, <1>2, <2>5, <2>6, ReturnsAtRest
<1> QED
  BY <1>8, <1>9

\* Each step of the two loops keeps the tree a search tree over the same
\* nodes in the same order, and the invariant of the loop that runs.
THEOREM RebalanceKeeps ==
    ASSUME NEW S, NEW pos, NEW h, TreeState(S, pos, h), Rebalance
    PROVE  Kept(pos)
BY InsertDoneKeeps, InsertFlipKeeps, InsertRotateKeeps, EraseFlipKeeps, EraseRotateKeeps
DEF Rebalance

----------------------------------------------------------------------------
(* rb_link_node.                                                           *)

\* The subtrees of nodes in the tree hold nodes of the tree only, the others
\* are single nodes.
Clean(x, S) == \A m \in Node : IF m \in InTree(x) THEN S[m] \subseteq InTree(x)
                               ELSE S[m] = {m}

\* Every shape can be made clean.
LEMMA CleanShape ==
    ASSUME NEW x, NEW S, NEW pos, Links(x), Shape(x, S, pos)
    PROVE  \E S2 : Shape(x, S2, pos) /\ Clean(x, S2)
<1>1. PICK S2 : S2 = [l \in Link |-> IF l = NIL THEN {}
                       ELSE IF l \in InTree(x) THEN S[l] \cap InTree(x) ELSE {l}]
  OBVIOUS
<1>2. KidFacts(x, S, pos) /\ x \in Tree
  BY ShapeFacts DEF Links
<1>3. /\ S2[NIL] = {}
      /\ \A m \in Node : S2[m] = IF m \in InTree(x) THEN S[m] \cap InTree(x) ELSE {m}
  BY <1>1, Basics
<1>4. S2 \in [Link -> SUBSET Node]
  <2>1. InTree(x) \subseteq Node
    BY DEF InTree
  <2> QED
    BY <1>1, <2>1, Basics
<1>5. \A m \in Node, d \in Side : m \in InTree(x) =>
         S2[x.kid[m][d]] = S[x.kid[m][d]] \cap InTree(x)
  <2> TAKE m \in Node, d \in Side
  <2> HAVE m \in InTree(x)
  <2>1. CASE x.kid[m][d] = NIL
    BY <1>3, <2>1 DEF Shape
  <2>2. CASE x.kid[m][d] # NIL
    <3>1. x.kid[m][d] \in Node /\ x.up[x.kid[m][d]] = m
      BY <1>2, <2>2 DEF KidFacts
    <3>2. x.kid[m][d] \in InTree(x)
      BY <3>1, Basics DEF InTree
    <3> QED
      BY <1>3, <3>1, <3>2
  <2> QED
    BY <2>1, <2>2
<1>6. \A m \in Node, d \in Side : m \notin InTree(x) => S2[x.kid[m][d]] = {}
  BY <1>3 DEF Links
<1>7. S2[x.root] = InTree(x)
  <2>1. CASE x.root = NIL
    BY <1>3, <2>1 DEF Shape
  <2>2. CASE x.root # NIL
    <3>1. x.root \in Node /\ x.root \in InTree(x)
      BY <1>2, <2>2, TreeFields, Basics DEF InTree
    <3>2. S[x.root] = InTree(x)
      BY DEF Shape
    <3>3. S2[x.root] = S[x.root] \cap InTree(x)
      BY <1>3, <3>1
    <3> QED
      BY <3>2, <3>3
  <2> QED
    BY <2>1, <2>2
<1>8. ASSUME NEW m \in Node
      PROVE  S2[m] = {m} \cup S2[x.kid[m]["left"]] \cup S2[x.kid[m]["right"]]
  <2>1. S[m] = {m} \cup S[x.kid[m]["left"]] \cup S[x.kid[m]["right"]]
    BY DEF Shape
  <2>2. CASE m \in InTree(x)
    <3>1. S2[x.kid[m]["left"]] = S[x.kid[m]["left"]] \cap InTree(x)
      BY <1>5, <2>2, Basics
    <3>2. S2[x.kid[m]["right"]] = S[x.kid[m]["right"]] \cap InTree(x)
      BY <1>5, <2>2, Basics
    <3>3. S2[m] = S[m] \cap InTree(x)
      BY <1>3, <2>2
    <3> QED
      BY <2>1, <2>2, <3>1, <3>2, <3>3
  <2>3. CASE m \notin InTree(x)
    <3>1. S2[x.kid[m]["left"]] = {} /\ S2[x.kid[m]["right"]] = {}
      BY <1>6, <2>3, Basics
    <3>2. S2[m] = {m}
      BY <1>3, <2>3
    <3> QED
      BY <3>1, <3>2
  <2> QED
    BY <2>2, <2>3
<1>9. ASSUME NEW m \in Node, NEW d \in Side, NEW a \in S2[x.kid[m][d]]
      PROVE  At(pos, a, d, m)
  <2>1. a \in S[x.kid[m][d]]
    BY <1>5, <1>6
  <2> QED
    BY <2>1 DEF Shape
<1>10. Clean(x, S2)
  BY <1>3 DEF Clean
<1>11. pos \in [Node -> Int]
  BY DEF Shape
<1>12. Shape(x, S2, pos)
  BY <1>3, <1>4, <1>7, <1>8, <1>9, <1>11 DEF Shape
<1> QED
  BY <1>10, <1>12

\* Where the order puts a new node n at side s of p.
PosWith(pos, n, p, s) ==
    [m \in Node |-> IF m # n THEN 2 * pos[m]
                    ELSE IF p = NIL THEN 0
                    ELSE IF s = "left" THEN 2 * pos[p] - 1 ELSE 2 * pos[p] + 1]

\* A place in the tree x where a node can be linked.
FreePlace(x, p, s) ==
    /\ s \in Side
    /\ \/ p = NIL /\ x.root = NIL
       \/ p \in InTree(x) /\ x.kid[p][s] = NIL

\* y is x after rb_link_node.
Linked(x, y, n, p, s) ==
    /\ y \in Tree
    /\ y.root = IF p = NIL THEN n ELSE x.root
    /\ \A m \in Node : y.up[m] = IF m = n THEN p ELSE x.up[m]
    /\ \A m \in Node, d \in Side :
          y.kid[m][d] = IF m = p /\ d = s THEN n
                        ELSE IF m = n THEN NIL ELSE x.kid[m][d]
    /\ \A m \in Node : m \in y.black <=> m \in x.black /\ m # n

\* rb_link_node makes n a red leaf.
LEMMA LinkFields ==
    ASSUME NEW x \in Tree, NEW n \in Node, NEW p \in Link, NEW s \in Side, p # n
    PROVE  Linked(x, rb_link_node(x, n, p, s), n, p, s)
<1>1. PICK x1 : x1 = [x EXCEPT !.up[n] = p, !.kid[n] = NoKids, !.black = @ \ {n}]
  OBVIOUS
<1>2. NoKids \in [Side -> Link] /\ \A d \in Side : NoKids[d] = NIL
  BY Basics DEF NoKids
<1>3. /\ x1 \in Tree /\ x1.root = x.root
      /\ \A m \in Node : x1.up[m] = IF m = n THEN p ELSE x.up[m]
      /\ \A m \in Node, d \in Side : x1.kid[m][d] = IF m = n THEN NIL ELSE x.kid[m][d]
      /\ \A m \in Node : m \in x1.black <=> m \in x.black /\ m # n
  BY <1>1, <1>2 DEF Tree
<1>4. CASE p = NIL
  <2>1. PICK y : y = [x1 EXCEPT !.root = n]
    OBVIOUS
  <2>2. y \in Tree /\ y.root = n /\ y.up = x1.up /\ y.kid = x1.kid /\ y.black = x1.black
    BY <1>3, <2>1, Basics DEF Tree
  <2>3. rb_link_node(x, n, p, s) = y
    BY <1>1, <1>4, <2>1 DEF rb_link_node
  <2> QED
    BY <1>3, <1>4, <2>2, <2>3, Basics DEF Linked
<1>5. CASE p # NIL
  <2>1. p \in Node /\ n \in Link
    BY <1>5, Basics
  <2>2. rb_link_node(x, n, p, s) = SetKid(x1, p, s, n)
    BY <1>1, <1>5 DEF rb_link_node
  <2>3. KidSet(x1, SetKid(x1, p, s, n), p, s, n)
    BY <1>3, <2>1, SetKidFields
  <2> QED
    BY <1>3, <1>5, <2>2, <2>3 DEF KidSet, Linked
<1> QED
  BY <1>4, <1>5

\* A linked node keeps the order.
LEMMA LinkShape ==
    ASSUME NEW x, NEW S, NEW pos, Links(x), Shape(x, S, pos),
           NEW n \in Node, n \notin InTree(x), NEW p, NEW s, FreePlace(x, p, s),
           NEW y, Linked(x, y, n, p, s)
    PROVE  /\ Links(y) /\ InTree(y) = InTree(x) \cup {n}
           /\ \E S2 : Shape(y, S2, PosWith(pos, n, p, s))
<1>1. PICK S1 : Shape(x, S1, pos) /\ Clean(x, S1)
  BY CleanShape
<1>2. KidFacts(x, S1, pos) /\ x \in Tree
  BY <1>1, ShapeFacts DEF Links
<1>3. /\ s \in Side /\ p \in Link /\ p # n /\ n # NIL /\ n \in Link
      /\ (p = NIL => x.root = NIL) /\ (p # NIL => p \in Node /\ p \in InTree(x) /\ x.kid[p][s] = NIL)
  BY Basics DEF FreePlace, InTree
<1>4. /\ x.root # n /\ x.up[n] = NIL /\ \A d \in Side : x.kid[n][d] = NIL
      /\ \A m \in Node, d \in Side : x.kid[m][d] # n
  <2>1. x.root # n /\ x.up[n] = NIL
    BY DEF InTree
  <2>2. \A d \in Side : x.kid[n][d] = NIL
    BY DEF Links
  <2>3. \A m \in Node, d \in Side : x.kid[m][d] # n
    BY <1>2, <1>3, <2>1, Basics DEF KidFacts
  <2> QED
    BY <2>1, <2>2, <2>3
<1>5. /\ y \in Tree
      /\ y.root = IF p = NIL THEN n ELSE x.root
      /\ \A m \in Node : y.up[m] = IF m = n THEN p ELSE x.up[m]
      /\ \A m \in Node, d \in Side :
            y.kid[m][d] = IF m = p /\ d = s THEN n
                          ELSE IF m = n THEN NIL ELSE x.kid[m][d]
  BY DEF Linked
<1>6. x.root = NIL => InTree(x) = {}
  BY DEF Shape
<1>7. InTree(y) = InTree(x) \cup {n}
  <2>1. ASSUME NEW m \in Node PROVE m \in InTree(y) <=> m \in InTree(x) \/ m = n
    <3>1. m \in InTree(y) <=> m = y.root \/ y.up[m] # NIL
      BY DEF InTree
    <3>2. m \in InTree(x) <=> m = x.root \/ x.up[m] # NIL
      BY DEF InTree
    <3>3. m # NIL
      BY Basics
    <3>4. CASE p = NIL
      BY <1>3, <1>5, <1>6, <3>1, <3>2, <3>3, <3>4
    <3>5. CASE p # NIL
      BY <1>5, <3>1, <3>2, <3>3, <3>5
    <3> QED
      BY <3>4, <3>5
  <2>2. InTree(y) \subseteq Node /\ InTree(x) \subseteq Node
    BY DEF InTree
  <2> QED
    BY <2>1, <2>2
<1>8. Links(y)
  <2>1. ASSUME NEW m \in Node, NEW d \in Side, y.kid[m][d] # NIL
        PROVE  y.up[y.kid[m][d]] = m
    <3>1. CASE m = p /\ d = s
      BY <1>5, <3>1
    <3>2. CASE ~(m = p /\ d = s)
      <4>1. y.kid[m][d] = x.kid[m][d] /\ x.kid[m][d] # NIL
        BY <1>5, <2>1, <3>2
      <4>2. x.kid[m][d] \in Node /\ x.up[x.kid[m][d]] = m /\ x.kid[m][d] # n
        BY <1>2, <1>4, <4>1 DEF KidFacts
      <4> QED
        BY <1>5, <4>1, <4>2
    <3> QED
      BY <3>1, <3>2
  <2>2. ASSUME NEW m \in Node, y.up[m] # NIL
        PROVE  \E d \in Side : y.kid[y.up[m]][d] = m
    <3>1. CASE m = n
      BY <1>3, <1>5, <2>2, <3>1
    <3>2. CASE m # n
      <4>1. y.up[m] = x.up[m] /\ x.up[m] # NIL /\ x.up[m] \in Node
        BY <1>2, <1>5, <2>2, <3>2, TreeFields, Basics
      <4>2. PICK d \in Side : x.kid[x.up[m]][d] = m
        BY <4>1 DEF Links
      <4>3. x.up[m] # n /\ ~(x.up[m] = p /\ d = s)
        BY <1>3, <1>4, <4>1, <4>2, Basics
      <4> QED
        BY <1>5, <4>1, <4>2, <4>3
    <3> QED
      BY <3>1, <3>2
  <2>3. y.root # NIL => y.up[y.root] = NIL
    <3>1. CASE p = NIL
      BY <1>5, <3>1
    <3>2. CASE p # NIL
      <4>1. x.root # NIL => x.root \in Node /\ x.up[x.root] = NIL
        BY <1>2, TreeFields, Basics DEF Links
      <4> QED
        BY <1>4, <1>5, <3>2, <4>1
    <3> QED
      BY <3>1, <3>2
  <2>4. ASSUME NEW m \in Node, NEW d \in Side, m \notin InTree(y) PROVE y.kid[m][d] = NIL
    <3>1. m \notin InTree(x) /\ m # n
      BY <1>7, <2>4
    <3>2. m # p
      BY <1>3, <3>1, Basics
    <3> QED
      BY <1>5, <3>1, <3>2 DEF Links
  <2> QED
    BY <1>5, <2>1, <2>2, <2>3, <2>4 DEF Links
<1>9. PICK S2 : S2 = [l \in Link |-> IF l = n THEN {n} ELSE IF p \in S1[l] THEN S1[l] \cup {n} ELSE S1[l]]
  OBVIOUS
<1>10. /\ S2[n] = {n}
       /\ \A l \in Link : l # n => S2[l] = IF p \in S1[l] THEN S1[l] \cup {n} ELSE S1[l]
  BY <1>3, <1>9
<1>11. S2 \in [Link -> SUBSET Node]
  <2>1. ASSUME NEW l \in Link
        PROVE  (IF l = n THEN {n} ELSE IF p \in S1[l] THEN S1[l] \cup {n} ELSE S1[l]) \in SUBSET Node
    BY <1>2 DEF KidFacts
  <2> QED
    BY <1>9, <2>1
<1>12. S2[NIL] = {}
  <2>1. S1[NIL] = {}
    BY <1>1 DEF Shape
  <2> QED
    BY <1>3, <1>10, <2>1, Basics
<1>13. S2[y.root] = InTree(y)
  <2>1. CASE p = NIL
    BY <1>3, <1>5, <1>6, <1>7, <1>10, <2>1
  <2>2. CASE p # NIL
    <3>1. x.root \in Link /\ S1[x.root] = InTree(x)
      BY <1>1, <1>2, TreeFields DEF Shape
    <3> QED
      BY <1>3, <1>4, <1>5, <1>7, <1>10, <2>2, <3>1
  <2> QED
    BY <2>1, <2>2
<1>14. ASSUME NEW m \in Node
       PROVE  S2[m] = {m} \cup S2[y.kid[m]["left"]] \cup S2[y.kid[m]["right"]]
  <2>1. S1[m] = {m} \cup S1[x.kid[m]["left"]] \cup S1[x.kid[m]["right"]]
    BY <1>1 DEF Shape
  <2>2. CASE m = n
    <3>1. y.kid[n]["left"] = NIL /\ y.kid[n]["right"] = NIL
      BY <1>3, <1>5, Basics
    <3> QED
      BY <1>10, <1>12, <2>2, <3>1
  <2>3. CASE m = p
    <3>1. PICK o \in Side : o = Other(s) /\ o # s
      BY <1>3, Basics
    <3>2. y.kid[p][s] = n /\ y.kid[p][o] = x.kid[p][o]
      BY <1>3, <1>5, <2>3, <3>1
    <3>3. x.kid[p][s] = NIL /\ S1[NIL] = {}
      BY <1>1, <1>3, <2>3, Basics DEF Shape
    <3>4. S1[p] = {p} \cup S1[x.kid[p][s]] \cup S1[x.kid[p][o]]
      BY <1>3, <2>1, <2>3, <3>1, Basics
    <3>5. S2[p] = S1[p] \cup {n}
      BY <1>2, <1>3, <1>10, <2>3 DEF KidFacts
    <3>6. p \notin S1[x.kid[p][o]] /\ x.kid[p][o] # n /\ x.kid[p][o] \in Link
      <4>1. x.kid[p][o] = NIL \/ p \notin S1[x.kid[p][o]]
        BY <1>2, <2>3, <3>1 DEF KidFacts
      <4> QED
        BY <1>2, <1>4, <2>3, <3>1, <3>3, <4>1 DEF KidFacts
    <3>7. S2[x.kid[p][o]] = S1[x.kid[p][o]]
      BY <1>10, <3>6
    <3>8. S2[p] = {p} \cup S2[y.kid[p][s]] \cup S2[y.kid[p][o]]
      BY <1>10, <3>2, <3>3, <3>4, <3>5, <3>7
    <3> QED
      BY <1>3, <2>3, <3>1, <3>8, Basics
  <2>4. CASE m # n /\ m # p
    <3>1. y.kid[m]["left"] = x.kid[m]["left"] /\ y.kid[m]["right"] = x.kid[m]["right"]
      BY <1>5, <2>4, Basics
    <3>2. /\ x.kid[m]["left"] \in Link /\ x.kid[m]["right"] \in Link
          /\ x.kid[m]["left"] # n /\ x.kid[m]["right"] # n /\ m \in Link
      BY <1>2, <1>4, Basics DEF KidFacts
    <3>3. p \in S1[m] <=> p \in S1[x.kid[m]["left"]] \/ p \in S1[x.kid[m]["right"]]
      BY <2>1, <2>4
    <3> QED
      BY <1>10, <2>1, <2>4, <3>1, <3>2, <3>3
  <2> QED
    BY <2>2, <2>3, <2>4
<1>15. PICK pos2 : pos2 = PosWith(pos, n, p, s)
  OBVIOUS
<1>16. /\ pos2 \in [Node -> Int]
       /\ \A m \in Node : m # n => pos2[m] = 2 * pos[m]
       /\ p # NIL => pos2[n] = IF s = "left" THEN 2 * pos[p] - 1 ELSE 2 * pos[p] + 1
  <2>1. \A m \in Node : pos[m] \in Int
    BY <1>2 DEF KidFacts
  <2>2. p # NIL => pos[p] \in Int
    BY <1>3, <2>1
  <2>3. pos2 = [m \in Node |-> IF m # n THEN 2 * pos[m]
                    ELSE IF p = NIL THEN 0
                    ELSE IF s = "left" THEN 2 * pos[p] - 1 ELSE 2 * pos[p] + 1]
    BY <1>15 DEF PosWith
  <2> QED
    BY <2>1, <2>2, <2>3
<1>17. ASSUME NEW m \in Node, NEW d \in Side, NEW a \in S2[y.kid[m][d]]
       PROVE  At(pos2, a, d, m)
  <2>1. CASE m = p /\ d = s
    <3>1. a = n /\ p # NIL /\ pos[p] \in Int
      BY <1>2, <1>5, <1>10, <2>1, Basics DEF KidFacts
    <3> QED
      BY <1>3, <1>16, <2>1, <3>1, Basics DEF At
  <2>2. CASE m = n
    <3>1. y.kid[n][d] = NIL
      BY <1>3, <1>5
    <3> QED
      BY <1>12, <2>2, <3>1
  <2>3. CASE m # n /\ ~(m = p /\ d = s)
    <3>1. y.kid[m][d] = x.kid[m][d] /\ x.kid[m][d] \in Link /\ x.kid[m][d] # n
      BY <1>2, <1>4, <1>5, <2>3 DEF KidFacts
    <3>2. pos[m] \in Int /\ pos2[m] = 2 * pos[m]
      BY <1>2, <1>16, <2>3 DEF KidFacts
    <3>3. n \notin S1[x.kid[m][d]]
      <4>1. CASE x.kid[m][d] = NIL
        BY <1>1, <4>1 DEF Shape
      <4>2. CASE x.kid[m][d] # NIL
        <5>1. x.kid[m][d] \in Node /\ x.kid[m][d] # n
          BY <3>1, <4>2, Basics
        <5> QED
          BY <1>1, <5>1 DEF Clean
      <4> QED
        BY <4>1, <4>2
    <3>4. CASE a = n
      <4>1. p \in S1[x.kid[m][d]]
        BY <1>10, <3>1, <3>3, <3>4
      <4>2. At(pos, p, d, m) /\ p \in Node
        BY <1>1, <1>2, <3>1, <4>1 DEF Shape, KidFacts
      <4>3. pos[p] \in Int /\ p # NIL
        BY <1>2, <4>2, Basics DEF KidFacts
      <4>4. CASE d = "left"
        BY <1>16, <3>2, <3>4, <4>2, <4>3, <4>4 DEF At
      <4>5. CASE d = "right"
        BY <1>16, <3>2, <3>4, <4>2, <4>3, <4>5, Basics DEF At
      <4> QED
        BY <4>4, <4>5, Basics
    <3>5. CASE a # n
      <4>1. a \in S1[x.kid[m][d]]
        BY <1>10, <3>1, <3>5
      <4>2. At(pos, a, d, m) /\ a \in Node
        BY <1>1, <1>2, <3>1, <4>1 DEF Shape, KidFacts
      <4>3. pos[a] \in Int /\ pos2[a] = 2 * pos[a]
        BY <1>2, <1>16, <3>5, <4>2 DEF KidFacts
      <4> QED
        BY <3>2, <4>2, <4>3 DEF At
    <3> QED
      BY <3>4, <3>5
  <2> QED
    BY <2>1, <2>2, <2>3
<1>18. Shape(y, S2, pos2)
  BY <1>11, <1>12, <1>13, <1>14, <1>16, <1>17 DEF Shape
<1> QED
  BY <1>7, <1>8, <1>15, <1>18

\* A linked node is red: no path has more or fewer black nodes.
LEMMA LinkInserting ==
    ASSUME NEW x, NEW S, NEW pos, Links(x), Shape(x, S, pos), NEW h,
           Coloured(x, NIL), Balanced(x, h),
           NEW n \in Node, n \notin InTree(x), NEW p, NEW s, FreePlace(x, p, s),
           NEW y, Linked(x, y, n, p, s), InTree(y) = InTree(x) \cup {n}
    PROVE  \E h2 : Inserting(y, h2, n)
<1>1. KidFacts(x, S, pos)
  BY ShapeFacts
<1>2. /\ s \in Side /\ p # n /\ n # NIL /\ n \in Link /\ (p # NIL => x.kid[p][s] = NIL)
  BY Basics DEF FreePlace, InTree
<1>3. \A m \in Node, d \in Side : x.kid[m][d] # n
  <2>1. x.up[n] = NIL
    BY DEF InTree
  <2> QED
    BY <1>1, <1>2, <2>1, Basics DEF KidFacts
<1>4. /\ \A m \in Node : y.up[m] = IF m = n THEN p ELSE x.up[m]
      /\ \A m \in Node, d \in Side :
            y.kid[m][d] = IF m = p /\ d = s THEN n
                          ELSE IF m = n THEN NIL ELSE x.kid[m][d]
      /\ \A m \in Node : m \in y.black <=> m \in x.black /\ m # n
      /\ y \in Tree
  BY DEF Linked
<1>5. /\ x.black \subseteq InTree(x) /\ InTree(x) \subseteq Node
      /\ \A m \in InTree(x) : m \notin x.black /\ m # NIL => x.up[m] \in x.black
  BY DEF Coloured, InTree
<1>6. Coloured(y, n)
  <2>1. y.black \subseteq InTree(y)
    BY <1>4, <1>5, TreeFields
  <2>2. ASSUME NEW m \in InTree(y), m \notin y.black, m # n PROVE y.up[m] \in y.black
    <3>1. m \in InTree(x) /\ m \in Node /\ m \notin x.black /\ m # NIL
      BY <1>4, <1>5, <2>2, Basics
    <3>2. x.up[m] \in x.black /\ x.up[m] # n /\ x.up[m] \in Node
      BY <1>5, <3>1
    <3> QED
      BY <1>4, <2>2, <3>1, <3>2
  <2> QED
    BY <2>1, <2>2 DEF Coloured
<1>7. /\ h \in [Link -> Nat] /\ h[NIL] = 0 /\ NIL \in Link
      /\ \A m \in Node, d \in Side :
            h[m] = h[x.kid[m][d]] + (IF m \in x.black THEN 1 ELSE 0)
  BY Basics DEF Balanced
<1>8. PICK h2 : h2 = [l \in Link |-> IF l = n THEN 0 ELSE h[l]]
  OBVIOUS
<1>9. h2 \in [Link -> Nat] /\ h2[NIL] = 0 /\ h2[n] = 0 /\ \A l \in Link : l # n => h2[l] = h[l]
  BY <1>2, <1>7, <1>8
<1>10. ASSUME NEW m \in Node, NEW d \in Side
       PROVE  h2[m] = h2[y.kid[m][d]] + (IF m \in y.black THEN 1 ELSE 0)
  <2>1. m # NIL /\ m \in Link
    BY Basics
  <2>2. CASE m = p /\ d = s
    <3>1. x.kid[m][d] = NIL /\ y.kid[m][d] = n /\ h2[m] = h[m] /\ (m \in y.black <=> m \in x.black)
      BY <1>2, <1>4, <1>9, <2>1, <2>2
    <3> QED
      BY <1>7, <1>9, <3>1
  <2>3. CASE m = n
    BY <1>2, <1>4, <1>9, <2>3
  <2>4. CASE m # n /\ ~(m = p /\ d = s)
    <3>1. x.kid[m][d] \in Link /\ x.kid[m][d] # n
      BY <1>1, <1>3 DEF KidFacts
    <3>2. h2[y.kid[m][d]] = h[x.kid[m][d]] /\ h2[m] = h[m] /\ (m \in y.black <=> m \in x.black)
      BY <1>4, <1>9, <2>1, <2>4, <3>1
    <3> QED
      BY <1>7, <3>2
  <2> QED
    BY <2>2, <2>3, <2>4
<1>11. Balanced(y, h2)
  BY <1>9, <1>10 DEF Balanced
<1> QED
  BY <1>4, <1>6, <1>11 DEF Inserting

\* rb_insert_color at a free place.
LEMMA LinkKeeps ==
    ASSUME NEW S, NEW pos, NEW h, TreeState(S, pos, h), NEW n \in Node, n \notin InTree(t),
           NEW p, NEW s, FreePlace(t, p, s), rb_insert_color(n, p, s)
    PROVE  /\ InTree(t') = InTree(t) \cup {n}
           /\ \E S2, h2 : TreeState(S2, PosWith(pos, n, p, s), h2)'
<1>1. /\ pc = "idle" /\ t' = rb_link_node(t, n, p, s)
      /\ pc' = "insert" /\ node' = n /\ parent' = p
  BY DEF rb_insert_color
<1>2. Links(t) /\ Shape(t, S, pos) /\ Coloured(t, NIL) /\ Balanced(t, h) /\ t \in Tree
  BY <1>1 DEF TreeState, LoopState, Links
<1>3. s \in Side /\ p \in Link /\ p # n
  BY Basics DEF FreePlace, InTree
<1>4. Linked(t, t', n, p, s)
  BY <1>1, <1>2, <1>3, LinkFields
<1>5. /\ Links(t') /\ InTree(t') = InTree(t) \cup {n}
      /\ \E S2 : Shape(t', S2, PosWith(pos, n, p, s))
  BY <1>2, <1>4, LinkShape
<1>6. PICK S2 : Shape(t', S2, PosWith(pos, n, p, s))
  BY <1>5
<1>7. PICK h2 : Inserting(t', h2, n)
  BY <1>2, <1>4, <1>5, LinkInserting
<1>8. t'.up[n] = p
  BY <1>4 DEF Linked
<1>9. LoopState(h2)'
  BY <1>1, <1>7, <1>8 DEF LoopState
<1>10. TreeState(S2, PosWith(pos, n, p, s), h2)'
  BY <1>5, <1>6, <1>9 DEF TreeState
<1> QED
  BY <1>5, <1>10

----------------------------------------------------------------------------
(* Inductions along the tree.                                              *)

\* There are finitely many nodes.
LEMMA NodeFinite == IsFiniteSet(Node)
<1>1. 1 \in Int /\ NumNodes \in Int
  BY TreeAssumption
<1>2. IsFiniteSet(1..NumNodes)
  BY <1>1, FS_Interval, Zenon
<1> QED
  BY <1>2 DEF Node

\* Downwards: a set that holds every node whose children it holds.
LEMMA DownInduction ==
    ASSUME NEW x, NEW S, NEW pos, Links(x), Shape(x, S, pos), NEW T,
           \A m \in Node : (\A d \in Side : x.kid[m][d] = NIL \/ x.kid[m][d] \in T) => m \in T
    PROVE  Node \subseteq T
<1> DEFINE U == { S[m] : m \in Node \ T }
<1>1. KidFacts(x, S, pos)
  BY ShapeFacts
<1>2. SUFFICES ASSUME NEW b \in Node \ T PROVE FALSE
  OBVIOUS
<1>3. U \subseteq SUBSET Node /\ U # {}
  BY <1>1, <1>2, Basics DEF KidFacts
<1>4. IsWellFoundedOn(StrictSubsetOrdering(Node), SUBSET Node)
  <2>1. FiniteSubsetsOf(Node) = SUBSET Node
    BY NodeFinite, FS_FiniteSubsetsOfFinite
  <2>2. IsWellFoundedOn(StrictSubsetOrdering(Node), FiniteSubsetsOf(Node))
    BY FS_StrictSubsetOrderingWellFounded
  <2> QED
    BY <2>1, <2>2
<1>5. PICK u \in U : \A v \in U : ~ (<<v, u>> \in StrictSubsetOrdering(Node))
  <2> HIDE DEF U
  <2> QED
    BY <1>3, <1>4, WFMin
<1>6. PICK m \in Node \ T : u = S[m]
  OBVIOUS
<1>7. PICK d \in Side : x.kid[m][d] # NIL /\ x.kid[m][d] \notin T
  BY <1>6
<1>8. PICK k : k = x.kid[m][d]
  OBVIOUS
<1>9. k \in Node \ T /\ S[k] \subseteq S[m] /\ m \in S[m] /\ m \notin S[k]
  BY <1>1, <1>6, <1>7, <1>8 DEF KidFacts
<1>10. S[k] \in SUBSET Node /\ S[m] \in SUBSET Node /\ S[k] \in U
  BY <1>1, <1>6, <1>9, Basics DEF KidFacts
<1>11. <<S[k], S[m]>> \in StrictSubsetOrdering(Node)
  BY <1>9, <1>10 DEF StrictSubsetOrdering
<1> QED
  BY <1>5, <1>6, <1>10, <1>11

\* The subtree of a node of a subtree lies in it.
LEMMA SubtreesNest ==
    ASSUME NEW x, NEW S, NEW pos, Links(x), Shape(x, S, pos)
    PROVE  \A m \in Node : \A a \in S[m] : S[a] \subseteq S[m]
<1> DEFINE T == { m \in Node : \A a \in S[m] : S[a] \subseteq S[m] }
<1>1. KidFacts(x, S, pos)
  BY ShapeFacts
<1>2. ASSUME NEW m \in Node, \A d \in Side : x.kid[m][d] = NIL \/ x.kid[m][d] \in T
      PROVE  m \in T
  <2>1. ASSUME NEW a \in S[m] PROVE S[a] \subseteq S[m]
    <3>1. CASE a = m
      BY <3>1
    <3>2. CASE a # m
      <4>1. PICK d \in Side : a \in S[x.kid[m][d]]
        BY <3>2, Basics DEF Shape
      <4>2. x.kid[m][d] # NIL
        BY <4>1 DEF Shape
      <4>3. S[a] \subseteq S[x.kid[m][d]]
        BY <1>2, <4>1, <4>2
      <4> QED
        BY <1>1, <4>3 DEF KidFacts
    <3> QED
      BY <3>1, <3>2
  <2> QED
    BY <2>1
<1>3. Node \subseteq T
  <2> HIDE DEF T
  <2> QED
    BY <1>2, DownInduction
<1> QED
  BY <1>3

\* Upwards: a set that holds the root, and every node whose parent it holds.
LEMMA UpInduction ==
    ASSUME NEW x, NEW S, NEW pos, Links(x), Shape(x, S, pos), NEW T,
           x.root # NIL => x.root \in T,
           \A m \in InTree(x) : x.up[m] # NIL /\ x.up[m] \in InTree(x) /\ x.up[m] \in T => m \in T
    PROVE  InTree(x) \subseteq T
<1> DEFINE D == { m \in Node : m \in T /\ m \in InTree(x) => S[m] \subseteq T }
<1>1. KidFacts(x, S, pos)
  BY ShapeFacts
<1>2. ASSUME NEW m \in Node, \A d \in Side : x.kid[m][d] = NIL \/ x.kid[m][d] \in D
      PROVE  m \in D
  <2>1. SUFFICES ASSUME m \in T, m \in InTree(x), NEW a \in S[m] PROVE a \in T
    OBVIOUS
  <2>2. CASE a = m
    BY <2>1, <2>2
  <2>3. CASE a # m
    <3>1. PICK d \in Side : a \in S[x.kid[m][d]]
      BY <2>3, Basics DEF Shape
    <3>2. x.kid[m][d] # NIL
      BY <3>1 DEF Shape
    <3>3. x.kid[m][d] \in Node /\ x.up[x.kid[m][d]] = m /\ m # NIL
      BY <1>1, <3>2, Basics DEF KidFacts
    <3>4. x.kid[m][d] \in InTree(x)
      BY <3>3 DEF InTree
    <3>5. x.kid[m][d] \in T
      BY <2>1, <3>3, <3>4
    <3> QED
      BY <1>2, <3>1, <3>2, <3>4, <3>5
  <2> QED
    BY <2>2, <2>3
<1>3. Node \subseteq D
  <2> HIDE DEF D
  <2> QED
    BY <1>2, DownInduction
<1>4. CASE x.root = NIL
  BY <1>4 DEF Shape
<1>5. CASE x.root # NIL
  <2>1. x.root \in Node /\ x.root \in InTree(x)
    BY <1>5, TreeFields, Basics DEF Links, InTree
  <2>2. S[x.root] \subseteq T
    BY <1>3, <1>5, <2>1
  <2> QED
    BY <2>2 DEF Shape
<1> QED
  BY <1>4, <1>5

\* A function of the nodes can be defined by a recursion over the children.
Recurses(x, f, V, base, G) ==
    /\ f \in [Link -> V] /\ f[NIL] = base
    /\ \A m \in Node : f[m] = G[<<m, f[x.kid[m]["left"]], f[x.kid[m]["right"]]>>]

\* Such a function exists.
LEMMA Recursion ==
    ASSUME NEW x, NEW S, NEW pos, Links(x), Shape(x, S, pos), NEW V, NEW base \in V,
           NEW G \in [Node \X V \X V -> V]
    PROVE  \E f : Recurses(x, f, V, base, G)
<1> DEFINE Good(f, a) == f[a] = G[<<a, f[x.kid[a]["left"]], f[x.kid[a]["right"]]>>]
           Part(m) == \E f \in [Link -> V] : f[NIL] = base /\ \A a \in S[m] : Good(f, a)
           T == { m \in Node : Part(m) }
<1>1. KidFacts(x, S, pos)
  BY ShapeFacts
<1>2. \A m \in Node, v, w \in V : G[<<m, v, w>>] \in V
  OBVIOUS
<1>3. ASSUME NEW m \in Node, \A d \in Side : x.kid[m][d] = NIL \/ x.kid[m][d] \in T
      PROVE  m \in T
  <2>1. PICK l \in Link, r \in Link : l = x.kid[m]["left"] /\ r = x.kid[m]["right"]
    BY <1>1, Basics DEF KidFacts
  <2>2. PICK fl \in [Link -> V] : fl[NIL] = base /\ \A a \in S[l] : Good(fl, a)
    <3>1. CASE l = NIL
      <4>1. [a \in Link |-> base] \in [Link -> V] /\ S[l] = {}
        BY <3>1 DEF Shape
      <4>2. [a \in Link |-> base][NIL] = base
        BY Basics
      <4> HIDE DEF Good
      <4> QED
        BY <4>1, <4>2
    <3>2. CASE l # NIL
      <4>1. l \in T
        BY <1>3, <2>1, <3>2, Basics
      <4>2. Part(l)
        <5> HIDE DEF Part
        <5> QED
          BY <4>1
      <4> QED
        BY <4>2
    <3> QED
      BY <3>1, <3>2
  <2>3. PICK fr \in [Link -> V] : fr[NIL] = base /\ \A a \in S[r] : Good(fr, a)
    <3>1. CASE r = NIL
      <4>1. [a \in Link |-> base] \in [Link -> V] /\ S[r] = {}
        BY <3>1 DEF Shape
      <4>2. [a \in Link |-> base][NIL] = base
        BY Basics
      <4> HIDE DEF Good
      <4> QED
        BY <4>1, <4>2
    <3>2. CASE r # NIL
      <4>1. r \in T
        BY <1>3, <2>1, <3>2, Basics
      <4>2. Part(r)
        <5> HIDE DEF Part
        <5> QED
          BY <4>1
      <4> QED
        BY <4>2
    <3> QED
      BY <3>1, <3>2
  <2>4. fl[l] \in V /\ fr[r] \in V
    BY <2>1, <2>2, <2>3
  <2>5. PICK v \in V : v = G[<<m, fl[l], fr[r]>>]
    BY <1>2, <2>4
  <2>6. PICK f : f = [a \in Link |-> IF a = m THEN v ELSE IF a \in S[l] THEN fl[a]
                                     ELSE IF a \in S[r] THEN fr[a] ELSE base]
    OBVIOUS
  <2>7. m \notin S[l] /\ m \notin S[r] /\ S[l] \cap S[r] = {} /\ S[l] \subseteq Node /\ S[r] \subseteq Node
        /\ m \in Link /\ NIL \notin Node /\ NIL \in Link /\ Node \subseteq Link
    <3>1. l # NIL => m \notin S[l]
      BY <1>1, <2>1, Basics DEF KidFacts
    <3>2. r # NIL => m \notin S[r]
      BY <1>1, <2>1, Basics DEF KidFacts
    <3>3. S[NIL] = {}
      BY DEF Shape
    <3>4. S[l] \cap S[r] = {}
      <4>1. "left" \in Side /\ Other("left") = "right"
        BY Basics
      <4>2. S[x.kid[m]["left"]] \cap S[x.kid[m][Other("left")]] = {}
        BY <1>1, <4>1 DEF KidFacts
      <4> QED
        BY <2>1, <4>1, <4>2
    <3>5. S[l] \subseteq Node /\ S[r] \subseteq Node
      BY <1>1 DEF KidFacts
    <3> QED
      BY <3>1, <3>2, <3>3, <3>4, <3>5, Basics
  <2>8. /\ f[m] = v /\ f[NIL] = base
        /\ \A a \in S[l] : f[a] = fl[a]
        /\ \A a \in S[r] : f[a] = fr[a]
    BY <2>6, <2>7
  <2>9. f \in [Link -> V]
    BY <2>2, <2>3, <2>5, <2>6
  <2>10. /\ l = NIL \/ l \in S[l]
         /\ r = NIL \/ r \in S[r]
    BY <1>1, <2>1, Basics DEF KidFacts
  <2>11. f[l] = fl[l] /\ f[r] = fr[r]
    BY <2>2, <2>3, <2>8, <2>10
  <2>12. Good(f, m)
    BY <2>1, <2>5, <2>8, <2>11
  <2>13. ASSUME NEW c \in Link, NEW a \in S[c], NEW d \in Side
         PROVE  x.kid[a][d] = NIL \/ x.kid[a][d] \in S[c]
    <3>1. c \in Node
      BY <2>13, Basics DEF Shape
    <3>2. a \in Node /\ S[a] \subseteq S[c]
      BY <1>1, <3>1, SubtreesNest DEF KidFacts
    <3>3. x.kid[a][d] # NIL => x.kid[a][d] \in S[x.kid[a][d]] /\ S[x.kid[a][d]] \subseteq S[a]
      BY <1>1, <3>2 DEF KidFacts
    <3> QED
      BY <3>2, <3>3
  <2>14. ASSUME NEW a \in S[l] PROVE Good(f, a)
    <3>1. f[a] = fl[a]
      BY <2>8
    <3>2. ASSUME NEW d \in Side PROVE f[x.kid[a][d]] = fl[x.kid[a][d]]
      BY <2>2, <2>8, <2>13
    <3>3. f[x.kid[a]["left"]] = fl[x.kid[a]["left"]] /\ f[x.kid[a]["right"]] = fl[x.kid[a]["right"]]
      BY <3>2, Basics
    <3> QED
      BY <2>2, <3>1, <3>3
  <2>15. ASSUME NEW a \in S[r] PROVE Good(f, a)
    <3>1. f[a] = fr[a]
      BY <2>8
    <3>2. ASSUME NEW d \in Side PROVE f[x.kid[a][d]] = fr[x.kid[a][d]]
      BY <2>3, <2>8, <2>13
    <3>3. f[x.kid[a]["left"]] = fr[x.kid[a]["left"]] /\ f[x.kid[a]["right"]] = fr[x.kid[a]["right"]]
      BY <3>2, Basics
    <3> QED
      BY <2>3, <3>1, <3>3
  <2>16. S[m] = {m} \cup S[l] \cup S[r]
    BY <2>1 DEF Shape
  <2>17. \A a \in S[m] : Good(f, a)
    <3> HIDE DEF Good
    <3> QED
      BY <2>12, <2>14, <2>15, <2>16
  <2>18. Part(m)
    <3> HIDE DEF Good
    <3> QED
      BY <2>8, <2>9, <2>17
  <2> QED
    BY <2>18
<1>4. Node \subseteq T
  <2> HIDE DEF T
  <2> QED
    BY <1>3, DownInduction
<1>5. \A m \in Node : Part(m)
  <2> HIDE DEF Part
  <2> QED
    BY <1>4
<1>6. PICK g \in [Link -> V] : g[NIL] = base /\ \A a \in InTree(x) : Good(g, a)
  <2>1. CASE x.root = NIL
    <3>1. [a \in Link |-> base] \in [Link -> V] /\ InTree(x) = {}
      BY <2>1 DEF Shape
    <3>2. [a \in Link |-> base][NIL] = base
      BY Basics
    <3> HIDE DEF Good
    <3> QED
      BY <3>1, <3>2
  <2>2. CASE x.root # NIL
    <3>1. x.root \in Node /\ S[x.root] = InTree(x)
      BY <2>2, TreeFields, Basics DEF Links, Shape
    <3>2. Part(x.root)
      <4> HIDE DEF Part
      <4> QED
        BY <1>5, <3>1
    <3> QED
      BY <3>1, <3>2
  <2> QED
    BY <2>1, <2>2
<1>7. PICK f : f = [a \in Link |-> IF a = NIL THEN base ELSE IF a \in InTree(x) THEN g[a]
                                   ELSE G[<<a, base, base>>]]
  OBVIOUS
<1>8. f \in [Link -> V] /\ f[NIL] = base
  <2>1. \A a \in Link : a # NIL => a \in Node
    BY Basics
  <2> QED
    BY <1>2, <1>6, <1>7, <2>1, Basics
<1>9. ASSUME NEW m \in Node PROVE Good(f, m)
  <2>1. m \in Link /\ m # NIL
    BY Basics
  <2>2. CASE m \in InTree(x)
    <3>1. f[m] = g[m]
      BY <1>7, <2>1, <2>2
    <3>2. ASSUME NEW d \in Side PROVE f[x.kid[m][d]] = g[x.kid[m][d]]
      <4>1. x.kid[m][d] # NIL => x.kid[m][d] \in Node /\ x.up[x.kid[m][d]] = m
        BY <1>1 DEF KidFacts
      <4>2. x.kid[m][d] # NIL => x.kid[m][d] \in InTree(x)
        BY <2>1, <4>1 DEF InTree
      <4> QED
        BY <1>6, <1>7, <1>8, <4>1, <4>2, Basics
    <3>3. f[x.kid[m]["left"]] = g[x.kid[m]["left"]] /\ f[x.kid[m]["right"]] = g[x.kid[m]["right"]]
      BY <3>2, Basics
    <3> QED
      BY <1>6, <2>2, <3>1, <3>3
  <2>3. CASE m \notin InTree(x)
    <3>1. x.kid[m]["left"] = NIL /\ x.kid[m]["right"] = NIL
      BY <2>3, Basics DEF Links
    <3> QED
      BY <1>7, <1>8, <2>1, <2>3, <3>1
  <2> QED
    BY <2>2, <2>3
<1>10. Recurses(x, f, V, base, G)
  BY <1>8, <1>9 DEF Recurses
<1> QED
  BY <1>10

\* The parent of a node of a subtree lies in it, but for the top.
LEMMA ParentsNest ==
    ASSUME NEW x, NEW S, NEW pos, Links(x), Shape(x, S, pos)
    PROVE  \A m \in Node : \A a \in S[m] : a = m \/ x.up[a] \in S[m]
<1> DEFINE T == { m \in Node : \A a \in S[m] : a = m \/ x.up[a] \in S[m] }
<1>1. KidFacts(x, S, pos)
  BY ShapeFacts
<1>2. ASSUME NEW m \in Node, \A d \in Side : x.kid[m][d] = NIL \/ x.kid[m][d] \in T
      PROVE  m \in T
  <2>1. ASSUME NEW a \in S[m], a # m PROVE x.up[a] \in S[m]
    <3>1. PICK d \in Side : a \in S[x.kid[m][d]]
      BY <2>1, Basics DEF Shape
    <3>2. x.kid[m][d] # NIL
      BY <3>1 DEF Shape
    <3>3. x.up[x.kid[m][d]] = m /\ m \in S[m] /\ S[x.kid[m][d]] \subseteq S[m]
      BY <1>1, <3>2 DEF KidFacts
    <3> QED
      BY <1>2, <3>1, <3>2, <3>3
  <2> QED
    BY <2>1
<1>3. Node \subseteq T
  <2> HIDE DEF T
  <2> QED
    BY <1>2, DownInduction
<1> QED
  BY <1>3

\* A function of the nodes can be defined by a recursion over the parent.
Ascends(x, f, V, base, G) ==
    /\ f \in [Node -> V]
    /\ \A m \in Node : f[m] = G[<<m, IF x.up[m] = NIL THEN base ELSE f[x.up[m]]>>]

\* Such a function exists.
LEMMA Ascent ==
    ASSUME NEW x, NEW S, NEW pos, Links(x), Shape(x, S, pos), NEW V, NEW base \in V,
           NEW G \in [Node \X V -> V]
    PROVE  \E f : Ascends(x, f, V, base, G)
<1> DEFINE Good(f, a) == f[a] = G[<<a, f[x.up[a]]>>]
           Part(m, v) == \E f \in [Node -> V] : f[m] = v /\ \A a \in S[m] : a = m \/ Good(f, a)
           T == { m \in Node : \A v \in V : Part(m, v) }
<1>1. KidFacts(x, S, pos)
  BY ShapeFacts
<1>2. \A m \in Node, v \in V : G[<<m, v>>] \in V
  OBVIOUS
<1>3. ASSUME NEW m \in Node, \A d \in Side : x.kid[m][d] = NIL \/ x.kid[m][d] \in T
      PROVE  m \in T
  <2>1. PICK l \in Link, r \in Link : l = x.kid[m]["left"] /\ r = x.kid[m]["right"]
    BY <1>1, Basics DEF KidFacts
  <2>2. SUFFICES ASSUME NEW v \in V PROVE Part(m, v)
    <3> HIDE DEF Part
    <3> QED
      OBVIOUS
  <2>3. ASSUME NEW c \in Link, c = l \/ c = r
        PROVE  \E f \in [Node -> V] : c # NIL => f[c] = G[<<c, v>>] /\ \A a \in S[c] : a = c \/ Good(f, a)
    <3>1. CASE c = NIL
      <4>1. [a \in Node |-> base] \in [Node -> V]
        OBVIOUS
      <4> HIDE DEF Good
      <4> QED
        BY <3>1, <4>1
    <3>2. CASE c # NIL
      <4>1. c \in T /\ c \in Node
        <5> HIDE DEF T
        <5> QED
          BY <1>3, <2>1, <2>3, <3>2, Basics
      <4>2. Part(c, G[<<c, v>>])
        <5> HIDE DEF Part
        <5> QED
          BY <1>2, <4>1
      <4> HIDE DEF Good
      <4> QED
        BY <4>2
    <3> QED
      BY <3>1, <3>2
  <2>4. PICK fl \in [Node -> V] : l # NIL => fl[l] = G[<<l, v>>] /\ \A a \in S[l] : a = l \/ Good(fl, a)
    BY <2>3
  <2>5. PICK fr \in [Node -> V] : r # NIL => fr[r] = G[<<r, v>>] /\ \A a \in S[r] : a = r \/ Good(fr, a)
    BY <2>3
  <2>6. PICK f : f = [a \in Node |-> IF a = m THEN v ELSE IF a \in S[l] THEN fl[a]
                                     ELSE IF a \in S[r] THEN fr[a] ELSE base]
    OBVIOUS
  <2>7. m \notin S[l] /\ m \notin S[r] /\ S[l] \cap S[r] = {} /\ S[l] \subseteq Node /\ S[r] \subseteq Node
    <3>1. l # NIL => m \notin S[l]
      BY <1>1, <2>1, Basics DEF KidFacts
    <3>2. r # NIL => m \notin S[r]
      BY <1>1, <2>1, Basics DEF KidFacts
    <3>3. S[NIL] = {}
      BY DEF Shape
    <3>4. S[l] \cap S[r] = {}
      <4>1. "left" \in Side /\ Other("left") = "right"
        BY Basics
      <4>2. S[x.kid[m]["left"]] \cap S[x.kid[m][Other("left")]] = {}
        BY <1>1, <4>1 DEF KidFacts
      <4> QED
        BY <2>1, <4>1, <4>2
    <3>5. S[l] \subseteq Node /\ S[r] \subseteq Node
      BY <1>1 DEF KidFacts
    <3> QED
      BY <3>1, <3>2, <3>3, <3>4, <3>5
  <2>8. /\ f[m] = v
        /\ \A a \in S[l] : f[a] = fl[a]
        /\ \A a \in S[r] : f[a] = fr[a]
    BY <2>6, <2>7
  <2>9. f \in [Node -> V]
    BY <2>4, <2>5, <2>6
  <2>10. ASSUME NEW a \in S[l] PROVE Good(f, a)
    <3>1. l # NIL /\ l \in Node
      BY Basics DEF Shape
    <3>2. CASE a = l
      <4>1. x.up[l] = m /\ l \in S[l]
        BY <1>1, <2>1, <3>1, Basics DEF KidFacts
      <4> QED
        BY <2>4, <2>8, <3>1, <3>2, <4>1
    <3>3. CASE a # l
      <4>1. x.up[a] \in S[l]
        BY <3>1, <3>3, ParentsNest
      <4>2. Good(fl, a)
        <5> HIDE DEF Good
        <5> QED
          BY <2>4, <3>1, <3>3
      <4> QED
        BY <2>8, <4>1, <4>2
    <3> QED
      BY <3>2, <3>3
  <2>11. ASSUME NEW a \in S[r] PROVE Good(f, a)
    <3>1. r # NIL /\ r \in Node
      BY Basics DEF Shape
    <3>2. CASE a = r
      <4>1. x.up[r] = m /\ r \in S[r]
        BY <1>1, <2>1, <3>1, Basics DEF KidFacts
      <4> QED
        BY <2>5, <2>8, <3>1, <3>2, <4>1
    <3>3. CASE a # r
      <4>1. x.up[a] \in S[r]
        BY <3>1, <3>3, ParentsNest
      <4>2. Good(fr, a)
        <5> HIDE DEF Good
        <5> QED
          BY <2>5, <3>1, <3>3
      <4> QED
        BY <2>8, <4>1, <4>2
    <3> QED
      BY <3>2, <3>3
  <2>12. S[m] = {m} \cup S[l] \cup S[r]
    BY <2>1 DEF Shape
  <2>13. \A a \in S[m] : a = m \/ Good(f, a)
    <3> HIDE DEF Good
    <3> QED
      BY <2>10, <2>11, <2>12
  <2> HIDE DEF Good
  <2> QED
    BY <2>8, <2>9, <2>13
<1>4. Node \subseteq T
  <2> HIDE DEF T
  <2> QED
    BY <1>3, DownInduction
<1>5. \A m \in Node, v \in V : Part(m, v)
  <2> HIDE DEF Part
  <2> QED
    BY <1>4
<1>6. PICK g \in [Node -> V] : /\ x.root # NIL => g[x.root] = G[<<x.root, base>>]
                               /\ \A a \in InTree(x) : a = x.root \/ Good(g, a)
  <2>1. CASE x.root = NIL
    <3>1. [a \in Node |-> base] \in [Node -> V] /\ InTree(x) = {}
      BY <2>1 DEF Shape
    <3> HIDE DEF Good
    <3> QED
      BY <2>1, <3>1
  <2>2. CASE x.root # NIL
    <3>1. x.root \in Node /\ S[x.root] = InTree(x)
      BY <2>2, TreeFields, Basics DEF Links, Shape
    <3>2. Part(x.root, G[<<x.root, base>>])
      <4> HIDE DEF Part
      <4> QED
        BY <1>2, <1>5, <3>1
    <3> HIDE DEF Good
    <3> QED
      BY <3>1, <3>2
  <2> QED
    BY <2>1, <2>2
<1>7. PICK f : f = [a \in Node |-> IF a \in InTree(x) THEN g[a] ELSE G[<<a, base>>]]
  OBVIOUS
<1>8. f \in [Node -> V]
  BY <1>2, <1>6, <1>7
<1>9. ASSUME NEW m \in Node
      PROVE  f[m] = G[<<m, IF x.up[m] = NIL THEN base ELSE f[x.up[m]]>>]
  <2>1. CASE m \notin InTree(x)
    <3>1. x.up[m] = NIL
      BY <2>1 DEF InTree
    <3> QED
      BY <1>7, <2>1, <3>1
  <2>2. CASE m = x.root
    <3>1. x.up[m] = NIL /\ m \in InTree(x) /\ m # NIL
      BY <2>2, Basics DEF Links, InTree
    <3> QED
      BY <1>6, <1>7, <2>2, <3>1
  <2>3. CASE m \in InTree(x) /\ m # x.root
    <3>1. x.up[m] # NIL
      BY <2>3 DEF InTree
    <3>2. x.up[m] \in InTree(x) /\ x.up[m] \in Node
      <4>1. x.up[m] \in Node
        BY <3>1, TreeFields, Basics DEF Links
      <4>2. PICK d \in Side : x.kid[x.up[m]][d] = m
        BY <3>1 DEF Links
      <4> QED
        BY <4>1, <4>2, Basics DEF Links
    <3>3. Good(g, m)
      <4> HIDE DEF Good
      <4> QED
        BY <1>6, <2>3
    <3> QED
      BY <1>7, <2>3, <3>1, <3>2, <3>3
  <2> QED
    BY <2>1, <2>2, <2>3
<1>10. Ascends(x, f, V, base, G)
  BY <1>8, <1>9 DEF Ascends
<1> QED
  BY <1>10

----------------------------------------------------------------------------
(* rb_first, rb_last, rb_next and rb_prev.                                 *)

\* Lying at a side is a strict order.
LEMMA AtFacts ==
    ASSUME NEW pos \in [Node -> Int], NEW a \in Node, NEW b \in Node, NEW c \in Node,
           NEW s \in Side
    PROVE  /\ At(pos, a, s, b) <=> At(pos, b, Other(s), a)
           /\ At(pos, a, s, b) /\ At(pos, b, s, c) => At(pos, a, s, c)
           /\ ~At(pos, a, s, a)
           /\ ~(At(pos, a, s, b) /\ At(pos, a, Other(s), b))
<1>1. pos[a] \in Int /\ pos[b] \in Int /\ pos[c] \in Int
  OBVIOUS
<1>2. CASE s = "left"
  BY <1>1, <1>2, Basics DEF At
<1>3. CASE s = "right"
  BY <1>1, <1>3, Basics DEF At
<1> QED
  BY <1>2, <1>3, Basics

\* The function that Furthest is defined by.
FurthestFun(x, s) ==
    CHOOSE f : f = [m \in Node |-> IF x.kid[m][s] = NIL THEN m ELSE f[x.kid[m][s]]]

\* Furthest unfolds.
LEMMA FurthestStep ==
    ASSUME NEW x, NEW S, NEW pos, Links(x), Shape(x, S, pos), NEW s \in Side
    PROVE  \A m \in Node : Furthest(x, m, s) = IF x.kid[m][s] = NIL THEN m
                                               ELSE Furthest(x, x.kid[m][s], s)
<1>1. PICK G : G = [q \in Node \X Link \X Link |-> IF x.kid[q[1]][s] = NIL THEN q[1]
                                   ELSE IF s = "left" THEN q[2] ELSE q[3]]
  OBVIOUS
<1>2. G \in [Node \X Link \X Link -> Link]
  BY <1>1, Basics
<1>3. \A m \in Node, v, w \in Link : G[<<m, v, w>>] = IF x.kid[m][s] = NIL THEN m
                                   ELSE IF s = "left" THEN v ELSE w
  BY <1>1
<1>4. PICK g : Recurses(x, g, Link, NIL, G)
  BY <1>2, Recursion, Basics
<1>5. PICK f : f = [m \in Node |-> g[m]]
  OBVIOUS
<1>6. \A m \in Node, d \in Side : x.kid[m][d] \in Link
  BY TreeFields DEF Links
<1>7. ASSUME NEW m \in Node
      PROVE  f[m] = IF x.kid[m][s] = NIL THEN m ELSE f[x.kid[m][s]]
  <2>1. g[m] = G[<<m, g[x.kid[m]["left"]], g[x.kid[m]["right"]]>>]
    BY <1>4 DEF Recurses
  <2>2. g[x.kid[m]["left"]] \in Link /\ g[x.kid[m]["right"]] \in Link
    BY <1>4, <1>6, Basics DEF Recurses
  <2>3. g[m] = IF x.kid[m][s] = NIL THEN m ELSE g[x.kid[m][s]]
    BY <1>3, <2>1, <2>2, Basics
  <2>4. x.kid[m][s] # NIL => x.kid[m][s] \in Node
    BY <1>6, Basics
  <2> QED
    BY <1>5, <2>3, <2>4
<1>8. f = [m \in Node |-> IF x.kid[m][s] = NIL THEN m ELSE f[x.kid[m][s]]]
  BY <1>5, <1>7
<1>9. FurthestFun(x, s) = [m \in Node |-> IF x.kid[m][s] = NIL THEN m
                                          ELSE FurthestFun(x, s)[x.kid[m][s]]]
  BY <1>8 DEF FurthestFun
<1>10. \A m : Furthest(x, m, s) = FurthestFun(x, s)[m]
  BY DEF Furthest, FurthestFun
<1> QED
  BY <1>9, <1>10

\* Furthest finds the last node of a subtree at side s.
LEMMA FurthestFacts ==
    ASSUME NEW x, NEW S, NEW pos, Links(x), Shape(x, S, pos), NEW s \in Side
    PROVE  \A m \in Node : /\ Furthest(x, m, s) \in S[m]
                           /\ x.kid[Furthest(x, m, s)][s] = NIL
                           /\ \A a \in S[m] : \/ a = Furthest(x, m, s)
                                              \/ At(pos, a, Other(s), Furthest(x, m, s))
<1> DEFINE Is(m, f) == /\ f \in S[m] /\ x.kid[f][s] = NIL
                       /\ \A a \in S[m] : a = f \/ At(pos, a, Other(s), f)
           T == { m \in Node : Is(m, Furthest(x, m, s)) }
<1>1. KidFacts(x, S, pos) /\ pos \in [Node -> Int]
  BY ShapeFacts DEF Shape
<1>2. ASSUME NEW m \in Node, \A d \in Side : x.kid[m][d] = NIL \/ x.kid[m][d] \in T
      PROVE  m \in T
  <2>1. PICK o \in Side : o = Other(s) /\ Other(o) = s /\ o # s
    BY Basics
  <2>2. S[m] = {m} \cup S[x.kid[m][s]] \cup S[x.kid[m][o]]
    BY <2>1, Basics DEF Shape
  <2>3. CASE x.kid[m][s] = NIL
    <3>1. Furthest(x, m, s) = m
      BY <2>3, FurthestStep
    <3>2. \A a \in S[m] : a = m \/ At(pos, a, o, m)
      BY <2>2, <2>3 DEF Shape
    <3>3. Is(m, m)
      BY <1>1, <2>1, <2>3, <3>2 DEF KidFacts
    <3> HIDE DEF Is
    <3> QED
      BY <3>1, <3>3
  <2>4. CASE x.kid[m][s] # NIL
    <3>1. PICK k \in Node : k = x.kid[m][s]
      BY <1>1, <2>4 DEF KidFacts
    <3>2. PICK f : f = Furthest(x, k, s)
      OBVIOUS
    <3>3. Is(k, f)
      <4> HIDE DEF Is
      <4> QED
        BY <1>2, <2>4, <3>1, <3>2
    <3>4. Furthest(x, m, s) = f
      BY <2>4, <3>1, <3>2, FurthestStep
    <3>5. S[k] \subseteq S[m] /\ f \in Node /\ At(pos, f, s, m)
      <4>1. f \in S[k]
        BY <3>3
      <4> QED
        BY <1>1, <3>1, <4>1, Basics DEF KidFacts, Shape
    <3>6. ASSUME NEW a \in S[m] PROVE a = f \/ At(pos, a, o, f)
      <4>1. CASE a \in S[k]
        BY <2>1, <3>3, <4>1
      <4>2. CASE a = m
        BY <1>1, <2>1, <3>5, <4>2, AtFacts
      <4>3. CASE a \in S[x.kid[m][o]]
        <5>1. At(pos, a, o, m) /\ a \in Node
          BY <1>1, <4>3 DEF Shape, KidFacts
        <5>2. At(pos, m, o, f)
          BY <1>1, <2>1, <3>5, AtFacts
        <5> QED
          BY <1>1, <3>5, <5>1, <5>2, AtFacts
      <4> QED
        BY <2>2, <3>1, <4>1, <4>2, <4>3
    <3>7. Is(m, f)
      BY <2>1, <3>3, <3>5, <3>6
    <3> HIDE DEF Is
    <3> QED
      BY <3>4, <3>7
  <2> QED
    BY <2>3, <2>4
<1>3. Node \subseteq T
  <2> HIDE DEF T
  <2> QED
    BY <1>2, DownInduction
<1>4. \A m \in Node : Is(m, Furthest(x, m, s))
  <2> HIDE DEF Is
  <2> QED
    BY <1>3
<1> QED
  BY <1>4

\* The nodes outside a subtree lie all to one side of it.
LEMMA Intervals ==
    ASSUME NEW x, NEW S, NEW pos, Links(x), Shape(x, S, pos)
    PROVE  \A m \in InTree(x) : \A a \in InTree(x) \ S[m] :
              \E d \in Side : \A b \in S[m] : At(pos, a, d, b)
<1> DEFINE Is(m) == \A a \in InTree(x) \ S[m] : \E d \in Side : \A b \in S[m] : At(pos, a, d, b)
           T == { m \in Node : Is(m) }
<1>1. KidFacts(x, S, pos) /\ pos \in [Node -> Int] /\ InTree(x) \subseteq Node
  BY ShapeFacts DEF Shape, InTree
<1>2. ASSUME x.root # NIL PROVE x.root \in T
  <2>1. x.root \in Node
    BY <1>2, TreeFields, Basics DEF Links
  <2> QED
    BY <2>1 DEF Shape
<1>3. ASSUME NEW m \in InTree(x), x.up[m] # NIL, x.up[m] \in InTree(x), x.up[m] \in T
      PROVE  m \in T
  <2>1. PICK u \in Node : u = x.up[m]
    BY <1>1, <1>3
  <2>2. PICK e \in Side : x.kid[u][e] = m
    BY <1>1, <1>3, <2>1 DEF Links
  <2>3. PICK o \in Side : o = Other(e) /\ Other(o) = e /\ o # e
    BY Basics
  <2>4. S[u] = {u} \cup S[m] \cup S[x.kid[u][o]]
    BY <2>2, <2>3, Basics DEF Shape
  <2>5. m \in Node /\ S[m] \subseteq S[u] /\ S[m] \subseteq Node
    BY <1>1, <2>2, Basics DEF KidFacts
  <2>6. ASSUME NEW a \in InTree(x) \ S[m]
        PROVE  \E d \in Side : \A b \in S[m] : At(pos, a, d, b)
    <3>1. CASE a \notin S[u]
      <4>1. Is(u)
        <5> HIDE DEF Is
        <5> QED
          BY <1>3, <2>1
      <4> QED
        BY <2>5, <2>6, <3>1, <4>1
    <3>2. CASE a = u
      <4>1. ASSUME NEW b \in S[m] PROVE At(pos, u, o, b)
        <5>1. At(pos, b, e, u) /\ b \in Node
          BY <2>2, <2>5 DEF Shape
        <5> QED
          BY <1>1, <2>3, <5>1, AtFacts
      <4> QED
        BY <3>2, <4>1
    <3>3. CASE a \in S[x.kid[u][o]]
      <4>1. ASSUME NEW b \in S[m] PROVE At(pos, a, o, b)
        <5>1. At(pos, b, e, u) /\ b \in Node
          BY <2>2, <2>5 DEF Shape
        <5>2. At(pos, u, o, b)
          BY <1>1, <2>3, <5>1, AtFacts
        <5>3. At(pos, a, o, u) /\ a \in Node
          BY <1>1, <3>3 DEF Shape, KidFacts
        <5> QED
          BY <1>1, <5>1, <5>2, <5>3, AtFacts
      <4> QED
        BY <4>1
    <3> QED
      BY <2>4, <2>6, <3>1, <3>2, <3>3
  <2>7. Is(m)
    BY <2>6
  <2> HIDE DEF Is
  <2> QED
    BY <2>5, <2>7
<1>4. InTree(x) \subseteq T
  <2> HIDE DEF T
  <2> QED
    BY <1>2, <1>3, UpInduction
<1> QED
  BY <1>4

\* The function that the climb of Neighbour is defined by.
Climb(x, s) ==
    CHOOSE f : f = [m \in Node |-> IF x.up[m] # NIL /\ m = x.kid[x.up[m]][s]
                                   THEN f[x.up[m]] ELSE x.up[m]]

\* The climb unfolds.
LEMMA ClimbStep ==
    ASSUME NEW x, NEW S, NEW pos, Links(x), Shape(x, S, pos), NEW s \in Side
    PROVE  \A m \in Node : Climb(x, s)[m] = IF x.up[m] # NIL /\ m = x.kid[x.up[m]][s]
                                            THEN Climb(x, s)[x.up[m]] ELSE x.up[m]
<1>1. \A m \in Node : x.up[m] \in Link /\ (x.up[m] # NIL => x.up[m] \in Node)
  BY TreeFields, Basics DEF Links
<1>2. PICK G : G = [q \in Node \X Link |-> IF x.up[q[1]] # NIL /\ q[1] = x.kid[x.up[q[1]]][s]
                                           THEN q[2] ELSE x.up[q[1]]]
  OBVIOUS
<1>3. G \in [Node \X Link -> Link]
  BY <1>1, <1>2, Basics
<1>4. \A m \in Node, v \in Link : G[<<m, v>>] = IF x.up[m] # NIL /\ m = x.kid[x.up[m]][s]
                                                THEN v ELSE x.up[m]
  BY <1>2
<1>5. PICK f : Ascends(x, f, Link, NIL, G)
  BY <1>3, Ascent, Basics
<1>6. ASSUME NEW m \in Node
      PROVE  f[m] = IF x.up[m] # NIL /\ m = x.kid[x.up[m]][s] THEN f[x.up[m]] ELSE x.up[m]
  <2>1. f[m] = G[<<m, IF x.up[m] = NIL THEN NIL ELSE f[x.up[m]]>>]
    BY <1>5 DEF Ascends
  <2>2. (IF x.up[m] = NIL THEN NIL ELSE f[x.up[m]]) \in Link
    BY <1>1, <1>5, Basics DEF Ascends
  <2> QED
    BY <1>4, <2>1, <2>2
<1>7. f = [m \in Node |-> IF x.up[m] # NIL /\ m = x.kid[x.up[m]][s] THEN f[x.up[m]] ELSE x.up[m]]
  BY <1>5, <1>6 DEF Ascends
<1>8. Climb(x, s) = [m \in Node |-> IF x.up[m] # NIL /\ m = x.kid[x.up[m]][s]
                                    THEN Climb(x, s)[x.up[m]] ELSE x.up[m]]
  BY <1>7 DEF Climb
<1> QED
  BY <1>8

\* What the climb from m to the first ancestor at side s finds.
ClimbIs(x, S, pos, m, s, r) ==
    /\ r \in Link
    /\ r # NIL => r \in InTree(x) /\ \A b \in S[m] : At(pos, r, s, b)
    /\ \A a \in InTree(x) \ S[m] : \/ r # NIL /\ (a = r \/ At(pos, a, s, r))
                                   \/ \A b \in S[m] : At(pos, a, Other(s), b)

\* The climb ends there.
LEMMA ClimbFacts ==
    ASSUME NEW x, NEW S, NEW pos, Links(x), Shape(x, S, pos), NEW s \in Side
    PROVE  \A m \in InTree(x) : ClimbIs(x, S, pos, m, s, Climb(x, s)[m])
<1> DEFINE T == { m \in Node : ClimbIs(x, S, pos, m, s, Climb(x, s)[m]) }
<1>1. KidFacts(x, S, pos) /\ pos \in [Node -> Int] /\ InTree(x) \subseteq Node
  BY ShapeFacts DEF Shape, InTree
<1>2. ASSUME x.root # NIL PROVE x.root \in T
  <2>1. x.root \in Node /\ x.up[x.root] = NIL /\ S[x.root] = InTree(x)
    BY <1>2, TreeFields, Basics DEF Links, Shape
  <2>2. Climb(x, s)[x.root] = NIL
    BY <2>1, ClimbStep
  <2> QED
    BY <2>1, <2>2, Basics DEF ClimbIs
<1>3. ASSUME NEW m \in InTree(x), x.up[m] # NIL, x.up[m] \in InTree(x), x.up[m] \in T
      PROVE  m \in T
  <2>1. PICK u \in Node : u = x.up[m]
    BY <1>1, <1>3
  <2>2. PICK e \in Side : x.kid[u][e] = m
    BY <1>1, <1>3, <2>1 DEF Links
  <2>3. PICK o \in Side : o = Other(s) /\ Other(o) = s /\ o # s
    BY Basics
  <2>4. S[u] = {u} \cup S[x.kid[u][s]] \cup S[x.kid[u][o]] /\ (e = s \/ e = o)
    BY <2>3, Basics DEF Shape
  <2>5. m \in Node /\ m # NIL /\ S[m] \subseteq S[u] /\ S[u] \subseteq Node
    BY <1>1, <2>2, Basics DEF KidFacts
  <2>6. x.kid[u][s] # NIL => x.kid[u][s] # x.kid[u][o]
    BY <1>1, <2>3 DEF KidFacts
  <2>7. CASE e = s
    <3>1. PICK r : r = Climb(x, s)[u]
      OBVIOUS
    <3>2. Climb(x, s)[m] = r
      <4>1. x.up[m] # NIL /\ m = x.kid[x.up[m]][s]
        BY <1>3, <2>1, <2>2, <2>7
      <4> QED
        BY <2>1, <2>5, <3>1, <4>1, ClimbStep
    <3>3. ClimbIs(x, S, pos, u, s, r)
      BY <1>3, <2>1, <3>1
    <3>4. ASSUME NEW a \in InTree(x) \ S[m]
          PROVE  \/ r # NIL /\ (a = r \/ At(pos, a, s, r))
                 \/ \A b \in S[m] : At(pos, a, o, b)
      <4>1. CASE a \notin S[u]
        BY <2>3, <2>5, <3>3, <3>4, <4>1 DEF ClimbIs
      <4>2. CASE a = u
        <5>1. ASSUME NEW b \in S[m] PROVE At(pos, u, o, b)
          <6>1. At(pos, b, s, u) /\ b \in Node
            BY <2>2, <2>5, <2>7 DEF Shape
          <6> QED
            BY <1>1, <2>3, <6>1, AtFacts
        <5> QED
          BY <4>2, <5>1
      <4>3. CASE a \in S[x.kid[u][o]]
        <5>1. ASSUME NEW b \in S[m] PROVE At(pos, a, o, b)
          <6>1. At(pos, b, s, u) /\ b \in Node
            BY <2>2, <2>5, <2>7 DEF Shape
          <6>2. At(pos, u, o, b)
            BY <1>1, <2>3, <6>1, AtFacts
          <6>3. At(pos, a, o, u) /\ a \in Node
            BY <1>1, <4>3 DEF Shape, KidFacts
          <6> QED
            BY <1>1, <6>1, <6>2, <6>3, AtFacts
        <5> QED
          BY <5>1
      <4> QED
        BY <2>2, <2>4, <2>7, <3>4, <4>1, <4>2, <4>3
    <3>5. ClimbIs(x, S, pos, m, s, r)
      BY <2>3, <2>5, <3>3, <3>4 DEF ClimbIs
    <3> QED
      BY <2>5, <3>2, <3>5
  <2>8. CASE e = o
    <3>1. Climb(x, s)[m] = u
      <4>1. m # x.kid[x.up[m]][s]
        BY <2>1, <2>2, <2>5, <2>6, <2>8
      <4> QED
        BY <2>1, <2>5, <4>1, ClimbStep
    <3>2. u \in InTree(x) /\ u # NIL /\ u \in Link
      BY <1>3, <2>1, Basics
    <3>3. ASSUME NEW b \in S[m] PROVE At(pos, u, s, b)
      <4>1. At(pos, b, o, u) /\ b \in Node
        BY <2>2, <2>5, <2>8 DEF Shape
      <4> QED
        BY <1>1, <2>3, <4>1, AtFacts
    <3>4. ASSUME NEW a \in InTree(x) \ S[m]
          PROVE  \/ a = u \/ At(pos, a, s, u)
                 \/ \A b \in S[m] : At(pos, a, o, b)
      <4>1. CASE a \notin S[u]
        <5>1. PICK d \in Side : \A b \in S[u] : At(pos, a, d, b)
          BY <3>2, <3>4, <4>1, Intervals
        <5>2. u \in S[u] /\ (d = s \/ d = o)
          BY <1>1, <2>3, Basics DEF KidFacts
        <5> QED
          BY <2>5, <5>1, <5>2
      <4>2. CASE a \in S[x.kid[u][s]]
        BY <4>2 DEF Shape
      <4> QED
        BY <2>2, <2>4, <2>8, <3>4, <4>1, <4>2
    <3>5. ClimbIs(x, S, pos, m, s, u)
      BY <2>3, <3>2, <3>3, <3>4 DEF ClimbIs
    <3> QED
      BY <2>5, <3>1, <3>5
  <2> QED
    BY <2>4, <2>7, <2>8
<1>4. InTree(x) \subseteq T
  <2> HIDE DEF T
  <2> QED
    BY <1>2, <1>3, UpInduction
<1> QED
  BY <1>4

\* b is the next node of the tree after n at side s, or NIL at the end.
NextIs(x, pos, n, s, b) ==
    /\ b \in Link
    /\ b # NIL => b \in InTree(x) /\ At(pos, b, s, n)
    /\ \A a \in InTree(x) : \/ a = n \/ At(pos, a, Other(s), n)
                            \/ b # NIL /\ (a = b \/ At(pos, a, s, b))

\* rb_next and rb_prev find the neighbour in the order.
LEMMA NeighbourFacts ==
    ASSUME NEW x, NEW S, NEW pos, Links(x), Shape(x, S, pos), NEW s \in Side,
           NEW n \in InTree(x)
    PROVE  NextIs(x, pos, n, s, Neighbour(x, n, s))
<1>1. KidFacts(x, S, pos) /\ pos \in [Node -> Int] /\ InTree(x) \subseteq Node
  BY ShapeFacts DEF Shape, InTree
<1>2. PICK o \in Side : o = Other(s) /\ Other(o) = s /\ o # s
  BY Basics
<1>3. n \in Node /\ n \in S[n] /\ S[n] \subseteq Node
  BY <1>1, Basics DEF KidFacts
<1>4. S[n] = {n} \cup S[x.kid[n][s]] \cup S[x.kid[n][o]]
  BY <1>2, <1>3, Basics DEF Shape
<1>5. CASE x.kid[n][s] # NIL
  <2>1. PICK k \in Node : k = x.kid[n][s]
    BY <1>1, <1>3, <1>5 DEF KidFacts
  <2>2. PICK b : b = Furthest(x, k, o)
    OBVIOUS
  <2>3. /\ b \in S[k] /\ \A a \in S[k] : a = b \/ At(pos, a, s, b)
    BY <1>2, <2>2, FurthestFacts
  <2>4. Neighbour(x, n, s) = b
    BY <1>2, <1>5, <2>1, <2>2 DEF Neighbour
  <2>5. S[k] \subseteq S[n] /\ b \in Node /\ At(pos, b, s, n)
    BY <1>1, <1>3, <2>1, <2>3, Basics DEF KidFacts, Shape
  <2>6. b \in InTree(x)
    <3>1. x.up[k] = n /\ k \in InTree(x) /\ n # NIL
      BY <1>1, <1>3, <1>5, <2>1, Basics DEF KidFacts, InTree
    <3>2. CASE b = k
      BY <3>1, <3>2
    <3>3. CASE b # k
      <4>1. x.up[b] \in S[k]
        BY <2>1, <2>3, <3>3, ParentsNest
      <4>2. x.up[b] \in Node
        BY <1>1, <2>1, <4>1, Basics DEF KidFacts
      <4> QED
        BY <2>5, <4>2, Basics DEF InTree
    <3> QED
      BY <3>2, <3>3
  <2>7. ASSUME NEW a \in InTree(x)
        PROVE  a = n \/ At(pos, a, o, n) \/ a = b \/ At(pos, a, s, b)
    <3>1. CASE a \notin S[n]
      <4>1. PICK d \in Side : \A c \in S[n] : At(pos, a, d, c)
        BY <3>1, Intervals
      <4>2. d = s \/ d = o
        BY <1>2, Basics
      <4> QED
        BY <1>3, <2>3, <2>5, <4>1, <4>2
    <3>2. CASE a \in S[k]
      BY <2>3, <3>2
    <3>3. CASE a \in S[x.kid[n][o]]
      BY <1>3, <3>3 DEF Shape
    <3> QED
      BY <1>4, <2>1, <3>1, <3>2, <3>3
  <2> QED
    BY <1>2, <2>4, <2>5, <2>6, <2>7, Basics DEF NextIs
<1>6. CASE x.kid[n][s] = NIL
  <2>1. PICK b : b = Climb(x, s)[n]
    OBVIOUS
  <2>2. Neighbour(x, n, s) = b
    BY <1>6, <2>1 DEF Neighbour, Climb
  <2>3. ClimbIs(x, S, pos, n, s, b)
    BY <2>1, ClimbFacts
  <2>4. ASSUME NEW a \in InTree(x)
        PROVE  a = n \/ At(pos, a, o, n) \/ (b # NIL /\ (a = b \/ At(pos, a, s, b)))
    <3>1. CASE a \notin S[n]
      BY <1>2, <1>3, <2>3, <3>1 DEF ClimbIs
    <3>2. CASE a \in S[x.kid[n][o]]
      BY <1>3, <3>2 DEF Shape
    <3>3. S[x.kid[n][s]] = {}
      BY <1>6 DEF Shape
    <3> QED
      BY <1>4, <3>1, <3>2, <3>3
  <2> QED
    BY <1>2, <1>3, <2>2, <2>3, <2>4 DEF NextIs, ClimbIs
<1> QED
  BY <1>5, <1>6

\* b is the first node of the tree from side s, or NIL if there is none.
EndIs(x, pos, s, b) ==
    /\ b \in Link
    /\ b # NIL => b \in InTree(x)
    /\ \A a \in InTree(x) : b # NIL /\ (a = b \/ At(pos, a, Other(s), b))

\* rb_first and rb_last find the ends of the order.
LEMMA EndFacts ==
    ASSUME NEW x, NEW S, NEW pos, Links(x), Shape(x, S, pos)
    PROVE  EndIs(x, pos, "left", rb_first(x)) /\ EndIs(x, pos, "right", rb_last(x))
<1>1. InTree(x) \subseteq Node /\ S[x.root] = InTree(x)
  BY DEF InTree, Shape
<1>2. CASE x.root = NIL
  <2>1. InTree(x) = {}
    BY <1>1, <1>2 DEF Shape
  <2> QED
    BY <1>2, <2>1, Basics DEF EndIs, rb_first, rb_last
<1>3. CASE x.root # NIL
  <2>1. x.root \in Node
    BY <1>3, TreeFields, Basics DEF Links
  <2>2. rb_first(x) = Furthest(x, x.root, "left") /\ rb_last(x) = Furthest(x, x.root, "right")
    BY <1>3 DEF rb_first, rb_last
  <2>3. /\ rb_first(x) \in InTree(x)
        /\ \A a \in InTree(x) : a = rb_first(x) \/ At(pos, a, Other("left"), rb_first(x))
    <3>1. "left" \in Side
      BY Basics
    <3> QED
      BY <1>1, <2>1, <2>2, <3>1, FurthestFacts
  <2>4. /\ rb_last(x) \in InTree(x)
        /\ \A a \in InTree(x) : a = rb_last(x) \/ At(pos, a, Other("right"), rb_last(x))
    <3>1. "right" \in Side
      BY Basics
    <3> QED
      BY <1>1, <2>1, <2>2, <3>1, FurthestFacts
  <2>5. rb_first(x) \in Link /\ rb_first(x) # NIL /\ rb_last(x) \in Link /\ rb_last(x) # NIL
    BY <1>1, <2>3, <2>4, Basics
  <2> QED
    BY <2>3, <2>4, <2>5 DEF EndIs
<1> QED
  BY <1>2, <1>3

----------------------------------------------------------------------------
(* The order of the nodes.                                                 *)

\* q holds the nodes of A, in the order of pos, once each.
Sorted(q, pos, A) ==
    /\ q \in Seq(Node)
    /\ \A i \in 1..Len(q) : q[i] \in A
    /\ \A a \in A : \E i \in 1..Len(q) : q[i] = a
    /\ \A i, j \in 1..Len(q) : i < j => pos[q[i]] < pos[q[j]]

\* The parts of a concatenation.
LEMMA ConcatParts ==
    ASSUME NEW a \in Seq(Node), NEW b \in Seq(Node)
    PROVE  /\ a \o b \in Seq(Node) /\ Len(a \o b) = Len(a) + Len(b)
           /\ Len(a) \in Nat /\ Len(b) \in Nat
           /\ \A i \in 1..Len(a) : (a \o b)[i] = a[i]
           /\ \A i \in 1..Len(b) : (a \o b)[Len(a) + i] = b[i]
<1>1. a \o b \in Seq(Node) /\ Len(a \o b) = Len(a) + Len(b) /\ Len(a) \in Nat /\ Len(b) \in Nat
  OBVIOUS
<1>2. \A i \in 1..Len(a) : (a \o b)[i] = a[i]
  OBVIOUS
<1>3. ASSUME NEW i \in 1..Len(b) PROVE (a \o b)[Len(a) + i] = b[i]
  <2>1. Len(a) + i \in 1..(Len(a) + Len(b)) /\ ~(Len(a) + i <= Len(a)) /\ Len(a) + i - Len(a) = i
    BY <1>1
  <2> QED
    BY <2>1
<1> QED
  BY <1>1, <1>2, <1>3

\* Sorted lists, one before the other, give a sorted list.
LEMMA SortedConcat ==
    ASSUME NEW a, NEW b, NEW A, NEW B, NEW pos \in [Node -> Int],
           Sorted(a, pos, A), Sorted(b, pos, B),
           \A u \in A, v \in B : pos[u] < pos[v]
    PROVE  Sorted(a \o b, pos, A \cup B)
<1>1. PICK q, l, k : q = a \o b /\ l = Len(a) /\ k = Len(b)
  OBVIOUS
<1>2. a \in Seq(Node) /\ b \in Seq(Node)
  BY DEF Sorted
<1>3. /\ q \in Seq(Node) /\ Len(q) = l + k /\ l \in Nat /\ k \in Nat
      /\ \A i \in 1..l : q[i] = a[i]
      /\ \A i \in 1..k : q[l + i] = b[i]
  BY <1>1, <1>2, ConcatParts
<1>4. /\ \A i \in 1..l : q[i] \in A
      /\ \A i \in 1..k : q[l + i] \in B
  BY <1>1, <1>3 DEF Sorted
<1>5. \A i \in 1..(l + k) : i \in 1..l \/ (i - l \in 1..k /\ l + (i - l) = i)
  BY <1>3
<1>6. ASSUME NEW i \in 1..(l + k) PROVE q[i] \in A \cup B
  <2>1. CASE i \in 1..l
    BY <1>4, <2>1
  <2>2. CASE i - l \in 1..k /\ l + (i - l) = i
    <3>1. q[l + (i - l)] \in B
      BY <1>4, <2>2
    <3> QED
      BY <2>2, <3>1
  <2> QED
    BY <1>5, <2>1, <2>2
<1>7. ASSUME NEW c \in A \cup B PROVE \E i \in 1..(l + k) : q[i] = c
  <2>1. CASE c \in A
    <3>1. PICK i \in 1..l : a[i] = c
      BY <1>1, <2>1 DEF Sorted
    <3>2. i \in 1..(l + k)
      BY <1>3
    <3> QED
      BY <1>3, <3>1, <3>2
  <2>2. CASE c \in B
    <3>1. PICK i \in 1..k : b[i] = c
      BY <1>1, <2>2 DEF Sorted
    <3>2. l + i \in 1..(l + k)
      BY <1>3
    <3> QED
      BY <1>3, <3>1, <3>2
  <2> QED
    BY <2>1, <2>2
<1>8. ASSUME NEW i \in 1..(l + k), NEW j \in 1..(l + k), i < j
      PROVE  pos[q[i]] < pos[q[j]]
  <2>1. CASE i \in 1..l /\ j \in 1..l
    <3>1. pos[a[i]] < pos[a[j]]
      BY <1>1, <1>8, <2>1 DEF Sorted
    <3> QED
      BY <1>3, <2>1, <3>1
  <2>2. CASE i \in 1..l /\ j - l \in 1..k /\ l + (j - l) = j
    <3>1. q[i] \in A /\ q[l + (j - l)] \in B
      BY <1>4, <2>2
    <3> QED
      BY <2>2, <3>1
  <2>3. CASE i - l \in 1..k /\ l + (i - l) = i /\ j - l \in 1..k /\ l + (j - l) = j
    <3>0. PICK e \in 1..k, f \in 1..k : e = i - l /\ f = j - l
      BY <2>3
    <3>1. e < f
      BY <1>3, <1>8, <3>0
    <3>2. pos[b[e]] < pos[b[f]]
      BY <1>1, <3>1 DEF Sorted
    <3>3. q[l + e] = b[e] /\ q[l + f] = b[f] /\ l + e = i /\ l + f = j
      BY <1>3, <2>3, <3>0
    <3> QED
      BY <3>2, <3>3
  <2>4. ~(i - l \in 1..k /\ j \in 1..l)
    BY <1>3, <1>8
  <2> QED
    BY <1>5, <2>1, <2>2, <2>3, <2>4
<1>9. Sorted(q, pos, A \cup B)
  BY <1>3, <1>6, <1>7, <1>8 DEF Sorted
<1> QED
  BY <1>1, <1>9

\* The function that InOrder is defined by.
InOrderFun(x) ==
    CHOOSE f : f = [m \in Link |-> IF m = NIL THEN <<>>
                         ELSE f[x.kid[m]["left"]] \o <<m>> \o f[x.kid[m]["right"]]]

\* InOrder unfolds.
LEMMA InOrderStep ==
    ASSUME NEW x, NEW S, NEW pos, Links(x), Shape(x, S, pos)
    PROVE  /\ InOrder(x, NIL) = <<>>
           /\ \A m \in Node : InOrder(x, m) = InOrder(x, x.kid[m]["left"]) \o <<m>>
                                                  \o InOrder(x, x.kid[m]["right"])
<1>1. PICK V : V = Seq(Node)
  OBVIOUS
<1>2. <<>> \in V
  BY <1>1
<1>3. PICK G : G = [q \in Node \X V \X V |-> q[2] \o <<q[1]>> \o q[3]]
  OBVIOUS
<1>4. \A m \in Node, v, w \in V : v \o <<m>> \o w \in V
  BY <1>1
<1>5. G \in [Node \X V \X V -> V]
  BY <1>3, <1>4
<1>6. \A m \in Node, v, w \in V : G[<<m, v, w>>] = v \o <<m>> \o w
  BY <1>3
<1>7. PICK f : Recurses(x, f, V, <<>>, G)
  BY <1>2, <1>5, Recursion
<1>8. \A m \in Node, d \in Side : x.kid[m][d] \in Link
  BY TreeFields DEF Links
<1>9. ASSUME NEW m \in Node
      PROVE  f[m] = f[x.kid[m]["left"]] \o <<m>> \o f[x.kid[m]["right"]]
  <2>1. f[m] = G[<<m, f[x.kid[m]["left"]], f[x.kid[m]["right"]]>>]
    BY <1>7 DEF Recurses
  <2>2. f[x.kid[m]["left"]] \in V /\ f[x.kid[m]["right"]] \in V
    BY <1>7, <1>8, Basics DEF Recurses
  <2> QED
    BY <1>6, <2>1, <2>2
<1>10. f = [m \in Link |-> IF m = NIL THEN <<>>
                           ELSE f[x.kid[m]["left"]] \o <<m>> \o f[x.kid[m]["right"]]]
  BY <1>7, <1>9, Basics DEF Recurses
<1>11. InOrderFun(x) = [m \in Link |-> IF m = NIL THEN <<>>
                 ELSE InOrderFun(x)[x.kid[m]["left"]] \o <<m>> \o InOrderFun(x)[x.kid[m]["right"]]]
  BY <1>10 DEF InOrderFun
<1>12. \A m : InOrder(x, m) = InOrderFun(x)[m]
  BY DEF InOrder, InOrderFun
<1>13. InOrderFun(x)[NIL] = <<>>
  BY <1>11, Basics
<1>14. \A m \in Node : InOrderFun(x)[m] = InOrderFun(x)[x.kid[m]["left"]] \o <<m>>
                                             \o InOrderFun(x)[x.kid[m]["right"]]
  BY <1>11, Basics
<1> QED
  BY <1>12, <1>13, <1>14

\* InOrder lists the nodes of a subtree by their positions.
LEMMA InOrderSorted ==
    ASSUME NEW x, NEW S, NEW pos, Links(x), Shape(x, S, pos)
    PROVE  \A m \in Link : Sorted(InOrder(x, m), pos, S[m])
<1> DEFINE T == { m \in Node : Sorted(InOrder(x, m), pos, S[m]) }
<1>1. KidFacts(x, S, pos) /\ pos \in [Node -> Int]
  BY ShapeFacts DEF Shape
<1>2. Sorted(InOrder(x, NIL), pos, S[NIL])
  <2>1. InOrder(x, NIL) = <<>> /\ S[NIL] = {}
    BY InOrderStep DEF Shape
  <2>2. <<>> \in Seq(Node) /\ Len(<<>>) = 0 /\ 1..0 = {}
    OBVIOUS
  <2>3. PICK e \in Seq(Node) : e = <<>>
    BY <2>2
  <2>4. Sorted(e, pos, {})
    BY <2>2, <2>3 DEF Sorted
  <2> QED
    BY <2>1, <2>3, <2>4
<1>3. ASSUME NEW m \in Node, \A d \in Side : x.kid[m][d] = NIL \/ x.kid[m][d] \in T
      PROVE  m \in T
  <2>1. PICK l \in Link, r \in Link : l = x.kid[m]["left"] /\ r = x.kid[m]["right"]
    BY <1>1, Basics DEF KidFacts
  <2>2. PICK a, b : a = InOrder(x, l) /\ b = InOrder(x, r)
    OBVIOUS
  <2>3. Sorted(a, pos, S[l]) /\ Sorted(b, pos, S[r])
    BY <1>2, <1>3, <2>1, <2>2, Basics
  <2>4. \A u \in S[l] : pos[u] < pos[m]
    BY <2>1, Basics DEF Shape, At
  <2>5. \A u \in S[r] : pos[m] < pos[u]
    BY <2>1, Basics DEF Shape, At
  <2>6. PICK c : c = <<m>>
    OBVIOUS
  <2>7. Sorted(c, pos, {m})
    <3>1. c \in Seq(Node) /\ Len(c) = 1 /\ c[1] = m /\ 1..1 = {1}
      BY <2>6
    <3> QED
      BY <3>1 DEF Sorted
  <2>8. Sorted(a \o c, pos, S[l] \cup {m})
    BY <1>1, <2>3, <2>4, <2>7, SortedConcat
  <2>9. \A u \in S[l] \cup {m}, v \in S[r] : pos[u] < pos[v]
    <3> TAKE u \in S[l] \cup {m}, v \in S[r]
    <3>1. u \in Node /\ v \in Node
      BY <1>1 DEF KidFacts
    <3>2. pos[u] \in Int /\ pos[v] \in Int /\ pos[m] \in Int
      BY <1>1, <3>1
    <3>3. u = m \/ pos[u] < pos[m]
      BY <2>4
    <3>4. pos[m] < pos[v]
      BY <2>5
    <3> QED
      BY <3>2, <3>3, <3>4
  <2>10. Sorted((a \o c) \o b, pos, (S[l] \cup {m}) \cup S[r])
    BY <1>1, <2>3, <2>8, <2>9, SortedConcat
  <2>11. InOrder(x, m) = (a \o c) \o b
    BY <2>1, <2>2, <2>6, InOrderStep
  <2>12. S[m] = (S[l] \cup {m}) \cup S[r]
    BY <2>1 DEF Shape
  <2> QED
    BY <2>10, <2>11, <2>12
<1>4. Node \subseteq T
  <2> HIDE DEF T
  <2> QED
    BY <1>3, DownInduction
<1> QED
  BY <1>2, <1>4, Basics

\* The in-order walk of the whole tree.
LEMMA TreeSorted ==
    ASSUME NEW x, NEW S, NEW pos, Links(x), Shape(x, S, pos)
    PROVE  Sorted(InOrder(x, x.root), pos, InTree(x)) /\ Nodes(x) = InTree(x)
<1>1. x.root \in Link /\ S[x.root] = InTree(x)
  BY TreeFields DEF Links, Shape
<1>2. PICK q : q = InOrder(x, x.root)
  OBVIOUS
<1>3. Sorted(q, pos, InTree(x))
  BY <1>1, <1>2, InOrderSorted
<1>4. Nodes(x) = { q[k] : k \in DOMAIN q }
  BY <1>2 DEF Nodes
<1>5. DOMAIN q = 1..Len(q)
  BY <1>3 DEF Sorted
<1>6. Nodes(x) = InTree(x)
  BY <1>3, <1>4, <1>5 DEF Sorted
<1> QED
  BY <1>2, <1>3, <1>6

\* A walk along the order, from side s of the tree to the other.
LEMMA WalkForward ==
    ASSUME NEW x, NEW S, NEW pos, Links(x), Shape(x, S, pos)
    PROVE  Visits(rb_first(x), LAMBDA m : rb_next(x, m), InOrder(x, x.root))
<1>1. PICK q : q = InOrder(x, x.root)
  OBVIOUS
<1>2. Sorted(q, pos, InTree(x)) /\ pos \in [Node -> Int] /\ InTree(x) \subseteq Node
  BY <1>1, TreeSorted DEF Shape, InTree
<1>3. PICK n \in Nat : n = Len(q)
  BY <1>2 DEF Sorted
<1>4. /\ q \in Seq(Node) /\ DOMAIN q = 1..n
      /\ \A i \in 1..n : q[i] \in InTree(x) /\ pos[q[i]] \in Int
      /\ \A a \in InTree(x) : \E i \in 1..n : q[i] = a
      /\ \A i, j \in 1..n : i < j => pos[q[i]] < pos[q[j]]
  BY <1>2, <1>3 DEF Sorted
<1>5. \A i, j \in 1..n : pos[q[i]] < pos[q[j]] => i < j
  <2> TAKE i, j \in 1..n
  <2>1. i \in Int /\ j \in Int /\ (j < i => pos[q[j]] < pos[q[i]]) /\ (i = j \/ i < j \/ j < i)
    BY <1>4
  <2> QED
    BY <1>4, <2>1
<1>6. rb_first(x) = IF q = <<>> THEN NIL ELSE q[1]
  <2>1. PICK b : b = rb_first(x)
    OBVIOUS
  <2>2. EndIs(x, pos, "left", b)
    BY <2>1, EndFacts
  <2>3. CASE q = <<>>
    <3>1. n = 0 /\ b = NIL
      <4>1. n = 0
        BY <1>3, <2>3
      <4>2. \A a \in InTree(x) : FALSE
        BY <1>4, <4>1
      <4> QED
        BY <2>2, <4>1, <4>2 DEF EndIs
    <3> QED
      BY <2>1, <2>3, <3>1
  <2>4. CASE q # <<>>
    <3>1. 1 \in 1..n
      BY <1>3, <1>4, <2>4
    <3>2. q[1] \in InTree(x)
      BY <1>4, <3>1
    <3>3. b # NIL /\ b \in InTree(x) /\ (q[1] = b \/ pos[b] < pos[q[1]])
      BY <2>2, <3>2, Basics DEF EndIs, At
    <3>4. PICK j \in 1..n : q[j] = b
      BY <1>4, <3>3
    <3>5. q[1] = b
      <4>1. ~(j < 1)
        OBVIOUS
      <4> QED
        BY <1>5, <3>1, <3>3, <3>4, <4>1
    <3> QED
      BY <2>1, <2>4, <3>5
  <2> QED
    BY <2>3, <2>4
<1>7. ASSUME NEW k \in 1..n PROVE rb_next(x, q[k]) = IF k = n THEN NIL ELSE q[k + 1]
  <2>1. PICK b : b = rb_next(x, q[k])
    OBVIOUS
  <2>2. NextIs(x, pos, q[k], "right", b)
    BY <1>4, <2>1, NeighbourFacts, Basics DEF rb_next
  <2>3. b # NIL => \E j \in 1..n : q[j] = b /\ k < j
    <3> HAVE b # NIL
    <3>1. b \in InTree(x) /\ pos[q[k]] < pos[b]
      BY <2>2, Basics DEF NextIs, At
    <3> QED
      BY <1>4, <1>5, <3>1
  <2>4. CASE k = n
    <3>1. ASSUME NEW j \in 1..n PROVE ~(k < j)
      BY <2>4
    <3>2. b = NIL
      BY <2>3, <3>1
    <3> QED
      BY <2>1, <2>4, <3>2
  <2>5. CASE k # n
    <3>1. k + 1 \in 1..n /\ k < k + 1
      BY <2>5
    <3>2. q[k + 1] \in InTree(x) /\ pos[q[k]] < pos[q[k + 1]]
      BY <1>4, <3>1
    <3>3. \/ q[k + 1] = q[k] \/ pos[q[k + 1]] < pos[q[k]]
          \/ b # NIL /\ (q[k + 1] = b \/ pos[b] < pos[q[k + 1]])
      BY <2>2, <3>2, Basics DEF NextIs, At
    <3>4. ~(q[k + 1] = q[k] \/ pos[q[k + 1]] < pos[q[k]])
      BY <1>4, <3>1, <3>2
    <3>5. PICK j \in 1..n : q[j] = b /\ k < j
      BY <2>3, <3>3, <3>4
    <3>6. q[k + 1] = b
      <4>1. ~(j < k + 1)
        BY <3>5
      <4> QED
        BY <1>5, <3>1, <3>3, <3>4, <3>5, <4>1
    <3> QED
      BY <2>1, <2>5, <3>6
  <2> QED
    BY <2>4, <2>5
<1>8. Visits(rb_first(x), LAMBDA m : rb_next(x, m), q)
  BY <1>3, <1>4, <1>6, <1>7 DEF Visits
<1> QED
  BY <1>1, <1>8

\* rb_last and rb_prev visit the nodes of s backwards.
Backward(x, s) ==
    LET n == Len(s)
    IN Visits(rb_last(x), LAMBDA m : rb_prev(x, m), [k \in 1..n |-> s[n + 1 - k]])

\* rb_last and rb_prev walk the tree backwards.
LEMMA WalkBackward ==
    ASSUME NEW x, NEW S, NEW pos, Links(x), Shape(x, S, pos)
    PROVE  Backward(x, InOrder(x, x.root))
<1>1. PICK s, n : s = InOrder(x, x.root) /\ n = Len(s)
  OBVIOUS
<1>2. PICK q : q = [k \in 1..n |-> s[n + 1 - k]]
  OBVIOUS
<1>3. Sorted(s, pos, InTree(x)) /\ pos \in [Node -> Int] /\ InTree(x) \subseteq Node
  BY <1>1, TreeSorted DEF Shape, InTree
<1>4. n \in Nat
  BY <1>1, <1>3 DEF Sorted
<1>5. /\ \A i \in 1..n : s[i] \in InTree(x) /\ pos[s[i]] \in Int
      /\ \A a \in InTree(x) : \E i \in 1..n : s[i] = a
      /\ \A i, j \in 1..n : i < j => pos[s[i]] < pos[s[j]]
  BY <1>1, <1>3, <1>4 DEF Sorted
<1>6. \A i \in 1..n : n + 1 - i \in 1..n /\ q[i] = s[n + 1 - i] /\ n + 1 - (n + 1 - i) = i
  BY <1>2, <1>4
<1>7. /\ \A i \in 1..n : q[i] \in InTree(x) /\ pos[q[i]] \in Int
      /\ \A a \in InTree(x) : \E i \in 1..n : q[i] = a
      /\ \A i, j \in 1..n : i < j => pos[q[j]] < pos[q[i]]
  <2>1. \A i \in 1..n : q[i] \in InTree(x) /\ pos[q[i]] \in Int
    BY <1>5, <1>6
  <2>2. ASSUME NEW a \in InTree(x) PROVE \E i \in 1..n : q[i] = a
    <3>1. PICK i \in 1..n : s[i] = a
      BY <1>5
    <3>2. PICK e \in 1..n : e = n + 1 - i
      BY <1>6
    <3>3. q[e] = s[i]
      BY <1>6, <3>2
    <3> QED
      BY <3>1, <3>3
  <2>3. ASSUME NEW i \in 1..n, NEW j \in 1..n, i < j PROVE pos[q[j]] < pos[q[i]]
    <3>1. PICK e \in 1..n, f \in 1..n : e = n + 1 - i /\ f = n + 1 - j
      BY <1>6
    <3>2. f < e
      BY <1>4, <2>3, <3>1
    <3>3. q[i] = s[e] /\ q[j] = s[f]
      BY <1>6, <3>1
    <3> QED
      BY <1>5, <3>2, <3>3
  <2> QED
    BY <2>1, <2>2, <2>3
<1>8. q \in Seq(Node) /\ Len(q) = n /\ DOMAIN q = 1..n
  <2>1. \A i \in 1..n : q[i] \in Node
    BY <1>3, <1>7
  <2>2. \A i \in 1..n : s[n + 1 - i] \in Node
    BY <1>6, <2>1
  <2> QED
    BY <1>2, <1>4, <2>2
<1>9. \A i, j \in 1..n : pos[q[j]] < pos[q[i]] => i < j
  <2> TAKE i, j \in 1..n
  <2>1. i \in Int /\ j \in Int /\ (j < i => pos[q[i]] < pos[q[j]]) /\ (i = j \/ i < j \/ j < i)
    BY <1>7
  <2> QED
    BY <1>7, <2>1
<1>10. rb_last(x) = IF q = <<>> THEN NIL ELSE q[1]
  <2>1. PICK b : b = rb_last(x)
    OBVIOUS
  <2>2. EndIs(x, pos, "right", b)
    BY <2>1, EndFacts
  <2>3. CASE q = <<>>
    <3>1. n = 0 /\ b = NIL
      <4>1. n = 0
        BY <1>8, <2>3
      <4>2. \A a \in InTree(x) : FALSE
        BY <1>7, <4>1
      <4> QED
        BY <2>2, <4>1, <4>2 DEF EndIs
    <3> QED
      BY <2>1, <2>3, <3>1
  <2>4. CASE q # <<>>
    <3>1. 1 \in 1..n
      BY <1>4, <1>8, <2>4
    <3>2. q[1] \in InTree(x)
      BY <1>7, <3>1
    <3>3. b # NIL /\ b \in InTree(x) /\ (q[1] = b \/ pos[q[1]] < pos[b])
      BY <2>2, <3>2, Basics DEF EndIs, At
    <3>4. PICK j \in 1..n : q[j] = b
      BY <1>7, <3>3
    <3>5. q[1] = b
      <4>1. ~(j < 1)
        OBVIOUS
      <4> QED
        BY <1>9, <3>1, <3>3, <3>4, <4>1
    <3> QED
      BY <2>1, <2>4, <3>5
  <2> QED
    BY <2>3, <2>4
<1>11. ASSUME NEW k \in 1..n PROVE rb_prev(x, q[k]) = IF k = n THEN NIL ELSE q[k + 1]
  <2>1. PICK b : b = rb_prev(x, q[k])
    OBVIOUS
  <2>2. NextIs(x, pos, q[k], "left", b)
    BY <1>7, <2>1, NeighbourFacts, Basics DEF rb_prev
  <2>3. b # NIL => \E j \in 1..n : q[j] = b /\ k < j
    <3> HAVE b # NIL
    <3>1. b \in InTree(x) /\ pos[b] < pos[q[k]]
      BY <2>2, Basics DEF NextIs, At
    <3> QED
      BY <1>7, <1>9, <3>1
  <2>4. CASE k = n
    <3>1. ASSUME NEW j \in 1..n PROVE ~(k < j)
      BY <1>4, <2>4
    <3>2. b = NIL
      BY <2>3, <3>1
    <3> QED
      BY <2>1, <2>4, <3>2
  <2>5. CASE k # n
    <3>1. k + 1 \in 1..n /\ k < k + 1
      BY <1>4, <2>5
    <3>2. q[k + 1] \in InTree(x) /\ pos[q[k + 1]] < pos[q[k]]
      BY <1>7, <3>1
    <3>3. \/ q[k + 1] = q[k] \/ pos[q[k]] < pos[q[k + 1]]
          \/ b # NIL /\ (q[k + 1] = b \/ pos[q[k + 1]] < pos[b])
      BY <2>2, <3>2, Basics DEF NextIs, At
    <3>4. ~(q[k + 1] = q[k] \/ pos[q[k]] < pos[q[k + 1]])
      BY <1>7, <3>1, <3>2
    <3>5. PICK j \in 1..n : q[j] = b /\ k < j
      BY <2>3, <3>3, <3>4
    <3>6. q[k + 1] = b
      <4>1. ~(j < k + 1)
        BY <3>5
      <4> QED
        BY <1>9, <3>1, <3>3, <3>4, <3>5, <4>1
    <3> QED
      BY <2>1, <2>5, <3>6
  <2> QED
    BY <2>4, <2>5
<1>12. Visits(rb_last(x), LAMBDA m : rb_prev(x, m), q)
  BY <1>8, <1>10, <1>11 DEF Visits
<1>13. Visits(rb_last(x), LAMBDA m : rb_prev(x, m), [k \in 1..n |-> s[n + 1 - k]])
  BY <1>2, <1>12
<1>14. Backward(x, s)
  BY <1>1, <1>13, Zenon DEF Backward
<1> QED
  BY <1>1, <1>14

----------------------------------------------------------------------------
(* The walk from the leaves up.                                            *)

\* The function that rb_left_deepest_node is defined by.
DeepestFun(x) ==
    CHOOSE f : f = [m \in Node |-> IF x.kid[m]["left"] # NIL THEN f[x.kid[m]["left"]]
                         ELSE IF x.kid[m]["right"] # NIL
                              THEN f[x.kid[m]["right"]] ELSE m]

\* rb_left_deepest_node unfolds.
LEMMA DeepestStep ==
    ASSUME NEW x, NEW S, NEW pos, Links(x), Shape(x, S, pos)
    PROVE  \A m \in Node : rb_left_deepest_node(x, m) =
              IF x.kid[m]["left"] # NIL THEN rb_left_deepest_node(x, x.kid[m]["left"])
              ELSE IF x.kid[m]["right"] # NIL THEN rb_left_deepest_node(x, x.kid[m]["right"])
              ELSE m
<1>1. PICK G : G = [q \in Node \X Link \X Link |-> IF x.kid[q[1]]["left"] # NIL THEN q[2]
                         ELSE IF x.kid[q[1]]["right"] # NIL THEN q[3] ELSE q[1]]
  OBVIOUS
<1>2. G \in [Node \X Link \X Link -> Link]
  BY <1>1, Basics
<1>3. \A m \in Node, v, w \in Link : G[<<m, v, w>>] = IF x.kid[m]["left"] # NIL THEN v
                         ELSE IF x.kid[m]["right"] # NIL THEN w ELSE m
  BY <1>1
<1>4. PICK g : Recurses(x, g, Link, NIL, G)
  BY <1>2, Recursion, Basics
<1>5. PICK f : f = [m \in Node |-> g[m]]
  OBVIOUS
<1>6. /\ \A m \in Node : x.kid[m]["left"] \in Link /\ (x.kid[m]["left"] # NIL => x.kid[m]["left"] \in Node)
      /\ \A m \in Node : x.kid[m]["right"] \in Link /\ (x.kid[m]["right"] # NIL => x.kid[m]["right"] \in Node)
  BY TreeFields, Basics DEF Links
<1>7. ASSUME NEW m \in Node
      PROVE  f[m] = IF x.kid[m]["left"] # NIL THEN f[x.kid[m]["left"]]
                    ELSE IF x.kid[m]["right"] # NIL THEN f[x.kid[m]["right"]] ELSE m
  <2>1. g[m] = G[<<m, g[x.kid[m]["left"]], g[x.kid[m]["right"]]>>]
    BY <1>4 DEF Recurses
  <2>2. g[x.kid[m]["left"]] \in Link /\ g[x.kid[m]["right"]] \in Link
    BY <1>4, <1>6 DEF Recurses
  <2> QED
    BY <1>3, <1>5, <1>6, <2>1, <2>2
<1>8. f = [m \in Node |-> IF x.kid[m]["left"] # NIL THEN f[x.kid[m]["left"]]
                    ELSE IF x.kid[m]["right"] # NIL THEN f[x.kid[m]["right"]] ELSE m]
  BY <1>5, <1>7
<1>9. DeepestFun(x) = [m \in Node |-> IF x.kid[m]["left"] # NIL THEN DeepestFun(x)[x.kid[m]["left"]]
                    ELSE IF x.kid[m]["right"] # NIL THEN DeepestFun(x)[x.kid[m]["right"]] ELSE m]
  BY <1>8 DEF DeepestFun
<1>10. \A m : rb_left_deepest_node(x, m) = DeepestFun(x)[m]
  BY DEF rb_left_deepest_node, DeepestFun
<1> QED
  BY <1>9, <1>10

\* The function that the postorder of Walks is defined by.
PostFun(x) ==
    CHOOSE f : f = [m \in Link |-> IF m = NIL THEN <<>>
                         ELSE f[x.kid[m]["left"]] \o f[x.kid[m]["right"]] \o <<m>>]

\* The postorder unfolds.
LEMMA PostStep ==
    ASSUME NEW x, NEW S, NEW pos, Links(x), Shape(x, S, pos)
    PROVE  /\ PostFun(x)[NIL] = <<>>
           /\ \A m \in Node : PostFun(x)[m] = PostFun(x)[x.kid[m]["left"]]
                                          \o PostFun(x)[x.kid[m]["right"]] \o <<m>>
<1>1. PICK V : V = Seq(Node)
  OBVIOUS
<1>2. <<>> \in V
  BY <1>1
<1>3. PICK G : G = [q \in Node \X V \X V |-> q[2] \o q[3] \o <<q[1]>>]
  OBVIOUS
<1>4. \A m \in Node, v, w \in V : v \o w \o <<m>> \in V
  BY <1>1
<1>5. G \in [Node \X V \X V -> V]
  BY <1>3, <1>4
<1>6. \A m \in Node, v, w \in V : G[<<m, v, w>>] = v \o w \o <<m>>
  BY <1>3
<1>7. PICK f : Recurses(x, f, V, <<>>, G)
  BY <1>2, <1>5, Recursion
<1>8. \A m \in Node, d \in Side : x.kid[m][d] \in Link
  BY TreeFields DEF Links
<1>9. ASSUME NEW m \in Node
      PROVE  f[m] = f[x.kid[m]["left"]] \o f[x.kid[m]["right"]] \o <<m>>
  <2>1. f[m] = G[<<m, f[x.kid[m]["left"]], f[x.kid[m]["right"]]>>]
    BY <1>7 DEF Recurses
  <2>2. f[x.kid[m]["left"]] \in V /\ f[x.kid[m]["right"]] \in V
    BY <1>7, <1>8, Basics DEF Recurses
  <2> QED
    BY <1>6, <2>1, <2>2
<1>10. f = [m \in Link |-> IF m = NIL THEN <<>>
                           ELSE f[x.kid[m]["left"]] \o f[x.kid[m]["right"]] \o <<m>>]
  BY <1>7, <1>9, Basics DEF Recurses
<1>11. PostFun(x) = [m \in Link |-> IF m = NIL THEN <<>>
                 ELSE PostFun(x)[x.kid[m]["left"]] \o PostFun(x)[x.kid[m]["right"]] \o <<m>>]
  BY <1>10 DEF PostFun
<1>12. PostFun(x)[NIL] = <<>>
  BY <1>11, Basics
<1>13. \A m \in Node : PostFun(x)[m] = PostFun(x)[x.kid[m]["left"]]
                                         \o PostFun(x)[x.kid[m]["right"]] \o <<m>>
  BY <1>11, Basics
<1> QED
  BY <1>12, <1>13

\* q is a walk of rb_next_postorder from a to b.
PostWalk(x, q, a, b) ==
    /\ q \in Seq(Node) /\ Len(q) > 0 /\ q[1] = a /\ q[Len(q)] = b
    /\ \A k \in 1..(Len(q) - 1) : rb_next_postorder(x, q[k]) = q[k + 1]

\* Walks that follow each other are a walk.
LEMMA PostConcat ==
    ASSUME NEW x, NEW q, NEW r, NEW a, NEW b, NEW c, NEW d,
           PostWalk(x, q, a, b), PostWalk(x, r, c, d), rb_next_postorder(x, b) = c
    PROVE  PostWalk(x, q \o r, a, d)
<1>1. PICK l, k, w : l = Len(q) /\ k = Len(r) /\ w = q \o r
  OBVIOUS
<1>2. /\ w \in Seq(Node) /\ Len(w) = l + k /\ l \in Nat /\ k \in Nat
      /\ \A i \in 1..l : w[i] = q[i]
      /\ \A i \in 1..k : w[l + i] = r[i]
  BY <1>1, ConcatParts DEF PostWalk
<1>3. l > 0 /\ k > 0 /\ q[1] = a /\ q[l] = b /\ r[1] = c /\ r[k] = d
  BY <1>1 DEF PostWalk
<1>4. 1 \in 1..l /\ l \in 1..l /\ 1 \in 1..k /\ k \in 1..k
  BY <1>2, <1>3
<1>5. w[1] = a /\ w[l] = b /\ w[l + 1] = c /\ w[l + k] = d
  BY <1>2, <1>3, <1>4
<1>6. ASSUME NEW i \in 1..(l + k - 1) PROVE rb_next_postorder(x, w[i]) = w[i + 1]
  <2>1. CASE i < l
    <3>1. i \in 1..(l - 1) /\ i \in 1..l /\ i + 1 \in 1..l
      BY <1>2, <2>1
    <3>2. rb_next_postorder(x, q[i]) = q[i + 1]
      BY <1>1, <3>1 DEF PostWalk
    <3> QED
      BY <1>2, <3>1, <3>2
  <2>2. CASE i = l
    BY <1>5, <2>2
  <2>3. CASE i > l
    <3>1. PICK j \in 1..(k - 1) : j = i - l
      BY <1>2, <2>3
    <3>2. j \in 1..k /\ j + 1 \in 1..k /\ l + j = i /\ l + (j + 1) = i + 1
      BY <1>2, <3>1
    <3>3. rb_next_postorder(x, r[j]) = r[j + 1]
      BY <1>1 DEF PostWalk
    <3>4. w[l + j] = r[j] /\ w[l + (j + 1)] = r[j + 1]
      BY <1>2, <3>2
    <3> QED
      BY <3>2, <3>3, <3>4
  <2> QED
    BY <1>2, <2>1, <2>2, <2>3
<1>7. Len(w) > 0
  BY <1>2, <1>3
<1>8. PostWalk(x, w, a, d)
  BY <1>2, <1>5, <1>6, <1>7 DEF PostWalk
<1> QED
  BY <1>1, <1>8

\* rb_next_postorder walks each subtree from its deepest node to its top.
LEMMA PostWalks ==
    ASSUME NEW x, NEW S, NEW pos, Links(x), Shape(x, S, pos)
    PROVE  \A m \in Node : PostWalk(x, PostFun(x)[m], rb_left_deepest_node(x, m), m)
<1> DEFINE T == { m \in Node : PostWalk(x, PostFun(x)[m], rb_left_deepest_node(x, m), m) }
<1>1. KidFacts(x, S, pos)
  BY ShapeFacts
<1>2. ASSUME NEW m \in Node, \A d \in Side : x.kid[m][d] = NIL \/ x.kid[m][d] \in T
      PROVE  m \in T
  <2>1. PICK l \in Link, r \in Link : l = x.kid[m]["left"] /\ r = x.kid[m]["right"]
    BY <1>1, Basics DEF KidFacts
  <2>2. PICK a, b, c, dl, dr : /\ a = PostFun(x)[l] /\ b = PostFun(x)[r] /\ c = <<m>>
                               /\ dl = rb_left_deepest_node(x, l) /\ dr = rb_left_deepest_node(x, r)
    OBVIOUS
  <2>3. PostFun(x)[m] = (a \o b) \o c /\ (l = NIL => a = <<>>) /\ (r = NIL => b = <<>>)
    BY <2>1, <2>2, PostStep
  <2>4. /\ l # NIL => PostWalk(x, a, dl, l)
        /\ r # NIL => PostWalk(x, b, dr, r)
    BY <1>2, <2>1, <2>2, Basics
  <2>5. PostWalk(x, c, m, m)
    <3>1. c \in Seq(Node) /\ Len(c) = 1 /\ c[1] = m
      BY <2>2
    <3> QED
      BY <3>1 DEF PostWalk
  <2>6. rb_left_deepest_node(x, m) = IF l # NIL THEN dl ELSE IF r # NIL THEN dr ELSE m
    BY <2>1, <2>2, DeepestStep
  <2>7. m # NIL /\ (l # NIL => x.up[l] = m /\ l # r) /\ (r # NIL => x.up[r] = m)
    <3>1. l # NIL => x.up[l] = m /\ x.kid[m]["left"] # x.kid[m][Other("left")]
      BY <1>1, <2>1, Basics DEF KidFacts
    <3>2. r # NIL => x.up[r] = m
      BY <1>1, <2>1, Basics DEF KidFacts
    <3> QED
      BY <2>1, <3>1, <3>2, Basics
  <2>8. l # NIL => rb_next_postorder(x, l) = IF r # NIL THEN dr ELSE m
    BY <2>1, <2>2, <2>7 DEF rb_next_postorder
  <2>9. r # NIL => rb_next_postorder(x, r) = m
    BY <2>1, <2>7 DEF rb_next_postorder
  <2>10. PICK e : e = <<>>
    OBVIOUS
  <2>11. ASSUME NEW q \in Seq(Node) PROVE e \o q = q /\ q \o e = q
    BY <2>10
  <2>12. c \in Seq(Node)
    BY <2>5 DEF PostWalk
  <2>13. CASE l = NIL /\ r = NIL
    <3>1. (a \o b) \o c = c
      <4>1. a = e /\ b = e /\ e \in Seq(Node)
        BY <2>3, <2>10, <2>13
      <4> QED
        BY <2>11, <2>12, <4>1
    <3> QED
      BY <2>3, <2>5, <2>6, <2>13, <3>1
  <2>14. CASE l # NIL /\ r = NIL
    <3>1. a \in Seq(Node)
      BY <2>4, <2>14 DEF PostWalk
    <3>2. a \o b = a
      BY <2>3, <2>10, <2>11, <2>14, <3>1
    <3>3. PostWalk(x, a \o c, dl, m)
      BY <2>4, <2>5, <2>8, <2>14, PostConcat
    <3> QED
      BY <2>3, <2>6, <2>14, <3>2, <3>3
  <2>15. CASE l = NIL /\ r # NIL
    <3>1. b \in Seq(Node)
      BY <2>4, <2>15 DEF PostWalk
    <3>2. a \o b = b
      BY <2>3, <2>10, <2>11, <2>15, <3>1
    <3>3. PostWalk(x, b \o c, dr, m)
      BY <2>4, <2>5, <2>9, <2>15, PostConcat
    <3> QED
      BY <2>3, <2>6, <2>15, <3>2, <3>3
  <2>16. CASE l # NIL /\ r # NIL
    <3>1. PostWalk(x, a \o b, dl, r)
      BY <2>4, <2>8, <2>16, PostConcat
    <3>2. PostWalk(x, (a \o b) \o c, dl, m)
      BY <2>5, <2>9, <2>16, <3>1, PostConcat
    <3> QED
      BY <2>3, <2>6, <2>16, <3>2
  <2> QED
    BY <2>13, <2>14, <2>15, <2>16
<1>3. Node \subseteq T
  <2> HIDE DEF T
  <2> QED
    BY <1>2, DownInduction
<1> QED
  BY <1>3

\* It walks the whole tree from rb_first_postorder on.
LEMMA WalkPostorder ==
    ASSUME NEW x, NEW S, NEW pos, Links(x), Shape(x, S, pos)
    PROVE  Visits(rb_first_postorder(x), LAMBDA m : rb_next_postorder(x, m), PostFun(x)[x.root])
<1>1. PICK q : q = PostFun(x)[x.root]
  OBVIOUS
<1>2. CASE x.root = NIL
  <2>1. q = <<>> /\ rb_first_postorder(x) = NIL
    BY <1>1, <1>2, PostStep DEF rb_first_postorder
  <2>2. DOMAIN q = {}
    BY <2>1
  <2>3. Visits(rb_first_postorder(x), LAMBDA m : rb_next_postorder(x, m), q)
    BY <2>1, <2>2 DEF Visits
  <2> QED
    BY <1>1, <2>3
<1>3. CASE x.root # NIL
  <2>1. x.root \in Node /\ x.up[x.root] = NIL
    BY <1>3, TreeFields, Basics DEF Links
  <2>2. rb_first_postorder(x) = rb_left_deepest_node(x, x.root)
    BY <1>3 DEF rb_first_postorder
  <2>3. PostWalk(x, q, rb_first_postorder(x), x.root)
    BY <1>1, <2>1, <2>2, PostWalks
  <2>4. rb_next_postorder(x, x.root) = NIL
    BY <2>1 DEF rb_next_postorder
  <2>5. PICK n \in Nat : n = Len(q)
    BY <2>3 DEF PostWalk
  <2>6. /\ n > 0 /\ q[1] = rb_first_postorder(x) /\ q[n] = x.root /\ DOMAIN q = 1..n /\ q # <<>>
        /\ \A k \in 1..(n - 1) : rb_next_postorder(x, q[k]) = q[k + 1]
    BY <2>3, <2>5 DEF PostWalk
  <2>7. ASSUME NEW k \in 1..n
        PROVE  rb_next_postorder(x, q[k]) = IF k = n THEN NIL ELSE q[k + 1]
    <3>1. k # n => k \in 1..(n - 1)
      OBVIOUS
    <3> QED
      BY <2>4, <2>6, <3>1
  <2>8. Visits(rb_first_postorder(x), LAMBDA m : rb_next_postorder(x, m), q)
    BY <2>5, <2>6, <2>7 DEF Visits
  <2> QED
    BY <1>1, <2>8
<1> QED
  BY <1>2, <1>3

\* The walks of rbtree.c see the nodes in their order, or bottom up.
LEMMA WalksHold ==
    ASSUME NEW S, NEW pos, Links(t), Shape(t, S, pos)
    PROVE  Walks
<1>1. Visits(rb_first(t), LAMBDA m : rb_next(t, m), InOrder(t, t.root))
  BY WalkForward
<1>2. Backward(t, InOrder(t, t.root))
  BY WalkBackward
<1>3. Visits(rb_first_postorder(t), LAMBDA m : rb_next_postorder(t, m), PostFun(t)[t.root])
  BY WalkPostorder
<1> QED
  BY <1>1, <1>2, <1>3, Zenon DEF Walks, PostFun, Backward

----------------------------------------------------------------------------
(* The numbers of black nodes, and the property RedBlack.                  *)

\* The function that BlackCounts is defined by.
CountsFun(x) ==
    CHOOSE f : f = [m \in Link |->
          IF m = NIL THEN {0}
          ELSE { c + (IF m \in x.black THEN 1 ELSE 0) :
                    c \in f[x.kid[m]["left"]] \union f[x.kid[m]["right"]] }]

\* The equations of BlackCounts.
LEMMA CountsStep ==
    ASSUME NEW x, NEW S, NEW pos, Links(x), Shape(x, S, pos)
    PROVE  /\ BlackCounts(x, NIL) = {0}
           /\ \A m \in Node : BlackCounts(x, m) =
                 { c + (IF m \in x.black THEN 1 ELSE 0) :
                    c \in BlackCounts(x, x.kid[m]["left"]) \union BlackCounts(x, x.kid[m]["right"]) }
<1>1. PICK V : V = SUBSET Nat
  OBVIOUS
<1>2. PICK base : base = {0}
  OBVIOUS
<1>3. base \in V
  BY <1>1, <1>2
<1>4. PICK G : G = [q \in Node \X V \X V |->
                       { c + (IF q[1] \in x.black THEN 1 ELSE 0) : c \in q[2] \union q[3] }]
  OBVIOUS
<1>5. \A m \in Node, v, w \in V :
         { c + (IF m \in x.black THEN 1 ELSE 0) : c \in v \union w } \in V
  BY <1>1
<1>6. G \in [Node \X V \X V -> V]
  BY <1>4, <1>5
<1>7. \A m \in Node, v, w \in V :
         G[<<m, v, w>>] = { c + (IF m \in x.black THEN 1 ELSE 0) : c \in v \union w }
  BY <1>4
<1>8. PICK f : Recurses(x, f, V, base, G)
  BY <1>3, <1>6, Recursion
<1>9. \A m \in Node, d \in Side : x.kid[m][d] \in Link
  BY TreeFields DEF Links
<1>10. ASSUME NEW m \in Node
      PROVE  f[m] = { c + (IF m \in x.black THEN 1 ELSE 0) :
                         c \in f[x.kid[m]["left"]] \union f[x.kid[m]["right"]] }
  <2>1. f[m] = G[<<m, f[x.kid[m]["left"]], f[x.kid[m]["right"]]>>]
    BY <1>8 DEF Recurses
  <2>2. f[x.kid[m]["left"]] \in V /\ f[x.kid[m]["right"]] \in V
    BY <1>8, <1>9, Basics DEF Recurses
  <2> QED
    BY <1>7, <2>1, <2>2
<1>11. f[NIL] = {0} /\ f = [m \in Link |-> f[m]]
  BY <1>2, <1>8 DEF Recurses
<1>12. f = [m \in Link |-> IF m = NIL THEN {0}
            ELSE { c + (IF m \in x.black THEN 1 ELSE 0) :
                      c \in f[x.kid[m]["left"]] \union f[x.kid[m]["right"]] }]
  <2>1. \A m \in Link : f[m] = IF m = NIL THEN {0}
            ELSE { c + (IF m \in x.black THEN 1 ELSE 0) :
                      c \in f[x.kid[m]["left"]] \union f[x.kid[m]["right"]] }
    BY <1>10, <1>11, Basics
  <2> QED
    BY <1>11, <2>1
<1>13. CountsFun(x) = [m \in Link |-> IF m = NIL THEN {0}
            ELSE { c + (IF m \in x.black THEN 1 ELSE 0) :
                      c \in CountsFun(x)[x.kid[m]["left"]] \union CountsFun(x)[x.kid[m]["right"]] }]
  BY <1>12 DEF CountsFun
<1>14. \A m : BlackCounts(x, m) = CountsFun(x)[m]
  BY DEF BlackCounts, CountsFun
<1>15. CountsFun(x)[NIL] = {0}
  BY <1>13, Basics
<1>16. \A m \in Node : CountsFun(x)[m] = { c + (IF m \in x.black THEN 1 ELSE 0) :
                      c \in CountsFun(x)[x.kid[m]["left"]] \union CountsFun(x)[x.kid[m]["right"]] }
  BY <1>13, Basics
<1> QED
  BY <1>14, <1>15, <1>16

\* Where h counts the black nodes below every node of a subtree, all paths of
\* the subtree have that number of them.
Counts(x, h, A) ==
    \A a \in A, d \in Side : h[a] = h[x.kid[a][d]] + (IF a \in x.black THEN 1 ELSE 0)

\* With black heights h every path below n has h[n] black nodes.
LEMMA CountsEqual ==
    ASSUME NEW x, NEW S, NEW pos, Links(x), Shape(x, S, pos),
           NEW h \in [Link -> Nat], h[NIL] = 0, NEW n \in Link, Counts(x, h, S[n])
    PROVE  BlackCounts(x, n) = {h[n]}
<1> DEFINE T == { m \in Node : Counts(x, h, S[m]) => BlackCounts(x, m) = {h[m]} }
<1>1. KidFacts(x, S, pos)
  BY ShapeFacts
<1>2. BlackCounts(x, NIL) = {h[NIL]}
  BY CountsStep
<1>3. ASSUME NEW m \in Node, \A d \in Side : x.kid[m][d] = NIL \/ x.kid[m][d] \in T
      PROVE  m \in T
  <2>1. SUFFICES ASSUME Counts(x, h, S[m]) PROVE BlackCounts(x, m) = {h[m]}
    OBVIOUS
  <2>2. PICK l \in Link, r \in Link : l = x.kid[m]["left"] /\ r = x.kid[m]["right"]
    BY <1>1, Basics DEF KidFacts
  <2>3. m \in S[m] /\ S[l] \subseteq S[m] /\ S[r] \subseteq S[m]
    BY <1>1, <2>2, Basics DEF KidFacts
  <2>4. Counts(x, h, S[l]) /\ Counts(x, h, S[r])
    BY <2>1, <2>3 DEF Counts
  <2>5. BlackCounts(x, l) = {h[l]} /\ BlackCounts(x, r) = {h[r]}
    BY <1>2, <1>3, <2>2, <2>4, Basics
  <2>6. PICK b \in Nat : b = IF m \in x.black THEN 1 ELSE 0
    OBVIOUS
  <2>7. h[m] = h[l] + b /\ h[m] = h[r] + b
    BY <2>1, <2>2, <2>3, <2>6, Basics DEF Counts
  <2>8. BlackCounts(x, m) = { c + b : c \in {h[l]} \union {h[r]} }
    BY <2>2, <2>5, <2>6, CountsStep
  <2>9. h[l] = h[r]
    <3>1. h[l] \in Nat /\ h[r] \in Nat
      OBVIOUS
    <3> QED
      BY <2>6, <2>7, <3>1
  <2> QED
    BY <2>7, <2>8, <2>9
<1>4. Node \subseteq T
  <2> HIDE DEF T
  <2> QED
    BY <1>3, DownInduction
<1> QED
  BY <1>2, <1>4, Basics

\* In a balanced tree all paths have the same number of black nodes.
LEMMA OneCount ==
    ASSUME NEW x, NEW S, NEW pos, Links(x), Shape(x, S, pos), NEW h, Balanced(x, h)
    PROVE  Cardinality(BlackCounts(x, x.root)) = 1
<1>1. h \in [Link -> Nat] /\ h[NIL] = 0 /\ x.root \in Link
  BY TreeFields DEF Balanced, Links
<1>2. S[x.root] \subseteq Node
  BY <1>1 DEF Shape
<1>3. Counts(x, h, S[x.root])
  BY <1>2 DEF Balanced, Counts
<1>4. BlackCounts(x, x.root) = {h[x.root]}
  BY <1>1, <1>3, CountsEqual
<1> QED
  BY <1>4, FS_Singleton

\* What RedBlack says follows from the invariant of the loops.
LEMMA RedBlackHolds ==
    ASSUME NEW S, NEW pos, NEW h, TreeState(S, pos, h)
    PROVE  RedBlack
<1>1. Links(t) /\ Shape(t, S, pos) /\ LoopState(h) /\ t \in Tree
  BY DEF TreeState, Links
<1>2. KidFacts(t, S, pos) /\ Nodes(t) = InTree(t) /\ InTree(t) \subseteq Node
  BY <1>1, ShapeFacts, TreeSorted DEF InTree
<1>3. LinksAgree
  BY <1>1, <1>2 DEF LinksAgree, Links
<1>4. CASE pc = "idle"
  <2>1. Coloured(t, NIL) /\ Balanced(t, h)
    BY <1>1, <1>4 DEF LoopState
  <2>2. Cardinality(BlackCounts(t, t.root)) = 1
    BY <1>1, <2>1, OneCount
  <2>3. t.root # NIL => IsBlack(t, t.root)
    <3> HAVE t.root # NIL
    <3>1. t.root \in InTree(t) /\ t.up[t.root] = NIL
      BY <1>1, TreeFields, Basics DEF InTree, Links
    <3>2. NIL \notin t.black
      BY <1>1, Basics, TreeFields
    <3>3. t.root # NIL /\ t.root \in t.black
      BY <1>2, <2>1, <3>1, <3>2, Basics DEF Coloured
    <3> QED
      BY <3>3 DEF IsBlack
  <2>4. \A n \in Nodes(t) : IsRed(t, n) => ~IsRed(t, t.up[n])
    BY <1>2, <2>1, Basics DEF Coloured, IsRed
  <2> QED
    BY <1>3, <1>4, <2>2, <2>3, <2>4 DEF RedBlack
<1>5. CASE pc = "insert"
  <2>1. parent = t.up[node] /\ Inserting(t, h, node)
    BY <1>1, <1>5 DEF LoopState
  <2>2. Cardinality(BlackCounts(t, t.root)) = 1
    BY <1>1, <2>1, OneCount DEF Inserting
  <2>3. IsRed(t, node)
    BY <1>2, <2>1, Basics DEF Inserting, IsRed
  <2> QED
    BY <1>3, <1>5, <2>1, <2>2, <2>3 DEF RedBlack
<1>6. CASE pc = "erase"
  <2>1. PICK d \in Side : d = NodeSide
    BY DEF NodeSide, Side
  <2>2. Erasing(t, h, node, parent, d)
    BY <1>1, <1>6, <2>1 DEF LoopState
  <2>3. parent \in Node /\ t.kid[parent][d] = node /\ (node = NIL \/ node \in t.black)
    BY <1>2, <2>2 DEF Erasing
  <2>4. PICK u \in Link : u = t.kid[parent][Other(d)]
    BY <1>2, <2>3, Basics DEF KidFacts
  <2>5. node \in Link
    BY <1>2, <2>3 DEF KidFacts
  <2>6. h \in [Link -> Nat] /\ h[NIL] = 0
    BY <2>2 DEF Erasing, Gapped
  <2>7. ASSUME NEW e \in Side PROVE Counts(t, h, S[t.kid[parent][e]])
    <3>1. parent \notin S[t.kid[parent][e]] /\ S[t.kid[parent][e]] \subseteq Node
      BY <1>1, <1>2, <2>3, Basics DEF KidFacts, Shape
    <3>2. \A m \in Node, f \in Side :
             h[m] = h[t.kid[m][f]] + (IF m \in t.black THEN 1 ELSE 0)
                                   + (IF m = parent /\ f = d THEN 1 ELSE 0)
      BY <2>2 DEF Erasing, Gapped
    <3>3. ASSUME NEW a \in S[t.kid[parent][e]], NEW f \in Side
          PROVE  h[a] = h[t.kid[a][f]] + (IF a \in t.black THEN 1 ELSE 0)
      <4>1. a \in Node /\ a # parent /\ t.kid[a][f] \in Link
        BY <1>2, <3>1 DEF KidFacts
      <4>2. h[t.kid[a][f]] \in Nat
        BY <2>6, <4>1
      <4> QED
        BY <3>2, <4>1, <4>2
    <3> QED
      BY <3>3 DEF Counts
  <2>8. BlackCounts(t, node) = {h[node]}
    BY <1>1, <2>3, <2>5, <2>6, <2>7, CountsEqual
  <2>9. BlackCounts(t, u) = {h[u]}
    <3>1. Counts(t, h, S[u])
      BY <2>4, <2>7, Basics
    <3> QED
      BY <1>1, <2>6, <3>1, CountsEqual
  <2>10. h[u] = h[node] + 1
    <3>1. PICK b \in Nat : b = IF parent \in t.black THEN 1 ELSE 0
      OBVIOUS
    <3>2. h[parent] = h[node] + b + 1
      BY <2>2, <2>3, <3>1 DEF Erasing, Gapped
    <3>3. h[parent] = h[u] + b + 0
      BY <2>2, <2>3, <2>4, <3>1, Basics DEF Erasing, Gapped
    <3>4. h[node] \in Nat /\ h[u] \in Nat
      BY <2>5, <2>6
    <3> QED
      BY <3>2, <3>3, <3>4
  <2>11. \A c \in BlackCounts(t, node) :
            BlackCounts(t, t.kid[parent][Other(NodeSide)]) = {c + 1}
    BY <2>1, <2>4, <2>8, <2>9, <2>10
  <2>12. ~IsRed(t, node) /\ parent # NIL
    BY <2>3, Basics DEF IsRed
  <2> QED
    BY <1>3, <1>6, <2>11, <2>12 DEF RedBlack
<1>7. CASE pc \notin {"idle", "insert", "erase"}
  BY <1>1, <1>7 DEF LoopState
<1> QED
  BY <1>4, <1>5, <1>6, <1>7

----------------------------------------------------------------------------
(* rb_erase: a node with at most one child is taken out of the tree.       *)

\* y is x without n, whose only child c, if any, has taken its place.
Spliced(x, y, n, c) ==
    /\ y \in Tree
    /\ y.root = IF x.root = n THEN c ELSE x.root
    /\ \A m \in Node : y.up[m] = IF m = n THEN NIL
                                 ELSE IF m = c THEN x.up[n] ELSE x.up[m]
    /\ \A m \in Node, d \in Side :
          y.kid[m][d] = IF m = n THEN NIL
                        ELSE IF x.kid[m][d] = n THEN c ELSE x.kid[m][d]

\* n has at most the child c.
OnlyChild(x, n, c) ==
    \E s \in Side : x.kid[n][s] = c /\ x.kid[n][Other(s)] = NIL

\* What surrounds n and its only child c.
SpliceSite(x, S, n, c) ==
    /\ n \in Node /\ c \in Link /\ c # n /\ n # NIL /\ x.up[n] \in Link /\ x.up[n] # n
    /\ c # NIL => c \in Node /\ x.up[c] = n /\ c # x.root
    /\ \A d \in Side : x.kid[n][d] = c \/ x.kid[n][d] = NIL
    /\ \A m \in Node : x.up[m] = n => m = c
    /\ \A m \in Node, d \in Side : x.kid[m][d] = n => m = x.up[n]
    /\ \A m \in Node, d \in Side : c # NIL /\ x.kid[m][d] = c => m = n
    /\ x.root = n \/ x.up[n] # NIL
    /\ x.root = n => x.up[n] = NIL
    /\ S[n] = {n} \cup S[c] /\ n \notin S[c]

\* The surroundings are such in every tree.
LEMMA SpliceFacts ==
    ASSUME NEW x, NEW S, NEW pos, Links(x), Shape(x, S, pos), NEW n \in InTree(x),
           NEW c, OnlyChild(x, n, c)
    PROVE  SpliceSite(x, S, n, c)
<1>1. KidFacts(x, S, pos) /\ x \in Tree
  BY ShapeFacts DEF Links
<1>2. n \in Node /\ n # NIL /\ x.up[n] \in Link
  BY <1>1, TreeFields, Basics DEF InTree
<1>3. PICK s \in Side : x.kid[n][s] = c /\ x.kid[n][Other(s)] = NIL
  BY DEF OnlyChild
<1>4. c \in Link /\ \A d \in Side : x.kid[n][d] = c \/ x.kid[n][d] = NIL
  BY <1>1, <1>2, <1>3, Basics DEF KidFacts
<1>5. c # NIL => c \in Node /\ x.up[c] = n /\ c # n /\ n \notin S[c]
  BY <1>1, <1>2, <1>3 DEF KidFacts
<1>6. c = NIL => n \notin S[c]
  BY DEF Shape
<1>7. \A m \in Node : x.up[m] = n => m = c
  <2> TAKE m \in Node
  <2> HAVE x.up[m] = n
  <2>1. PICK d \in Side : x.kid[n][d] = m
    BY <1>2 DEF Links
  <2> QED
    BY <1>4, <2>1, Basics
<1>8. \A m \in Node, d \in Side : x.kid[m][d] = n => m = x.up[n]
  BY <1>1, <1>2 DEF KidFacts
<1>9. \A m \in Node, d \in Side : c # NIL /\ x.kid[m][d] = c => m = n
  BY <1>1, <1>5 DEF KidFacts
<1>10. x.root = n \/ x.up[n] # NIL
  BY DEF InTree
<1>11. x.root = n => x.up[n] = NIL
  BY <1>2 DEF Links
<1>12. x.up[n] # n
  <2> SUFFICES ASSUME x.up[n] = n PROVE FALSE
    OBVIOUS
  <2>1. PICK d \in Side : x.kid[n][d] = n
    BY <1>2 DEF Links
  <2> QED
    BY <1>1, <1>2, <2>1 DEF KidFacts
<1>13. S[n] = {n} \cup S[c]
  <2>1. S[n] = {n} \cup S[x.kid[n]["left"]] \cup S[x.kid[n]["right"]]
    BY <1>2 DEF Shape
  <2>2. S[NIL] = {}
    BY DEF Shape
  <2>3. CASE s = "left"
    BY <1>3, <2>1, <2>2, <2>3, Basics
  <2>4. CASE s = "right"
    BY <1>3, <2>1, <2>2, <2>4, Basics
  <2> QED
    BY <2>3, <2>4, Basics
<1>14. c # NIL => c # x.root
  BY <1>2, <1>5 DEF Links
<1> QED
  BY <1>2, <1>4, <1>5, <1>6, <1>7, <1>8, <1>9, <1>10, <1>11, <1>12, <1>13, <1>14, Basics
     DEF SpliceSite

\* The rest of the tree keeps its order.
LEMMA SpliceShape ==
    ASSUME NEW x, NEW S, NEW pos, Links(x), Shape(x, S, pos), NEW n \in InTree(x),
           NEW c, OnlyChild(x, n, c), NEW y, Spliced(x, y, n, c)
    PROVE  /\ Links(y) /\ InTree(y) = InTree(x) \ {n}
           /\ \E S2 : Shape(y, S2, pos)
<1>1. KidFacts(x, S, pos) /\ x \in Tree
  BY ShapeFacts DEF Links
<1>2. SpliceSite(x, S, n, c)
  BY SpliceFacts
<1>3. /\ n \in Node /\ n # NIL /\ c \in Link /\ c # n
      /\ y \in Tree
      /\ y.root = IF x.root = n THEN c ELSE x.root
      /\ \A m \in Node : y.up[m] = IF m = n THEN NIL
                                   ELSE IF m = c THEN x.up[n] ELSE x.up[m]
      /\ \A m \in Node, d \in Side :
            y.kid[m][d] = IF m = n THEN NIL
                          ELSE IF x.kid[m][d] = n THEN c ELSE x.kid[m][d]
  BY <1>2 DEF Spliced, SpliceSite
<1>4. InTree(y) = InTree(x) \ {n}
  <2>1. ASSUME NEW m \in Node PROVE m \in InTree(y) <=> m \in InTree(x) /\ m # n
    <3>1. m \in InTree(y) <=> m = y.root \/ y.up[m] # NIL
      BY DEF InTree
    <3>2. m \in InTree(x) <=> m = x.root \/ x.up[m] # NIL
      BY DEF InTree
    <3>3. m # NIL
      BY Basics
    <3>4. CASE m = n
      BY <1>3, <3>1, <3>4
    <3>5. CASE m = c
      BY <1>2, <1>3, <3>1, <3>2, <3>3, <3>5 DEF SpliceSite
    <3>6. CASE m # n /\ m # c
      BY <1>2, <1>3, <3>1, <3>2, <3>3, <3>6
    <3> QED
      BY <3>4, <3>5, <3>6
  <2>2. InTree(y) \subseteq Node /\ InTree(x) \subseteq Node
    BY DEF InTree
  <2> QED
    BY <2>1, <2>2
<1>5. Links(y)
  <2>1. ASSUME NEW m \in Node, NEW d \in Side, y.kid[m][d] # NIL
        PROVE  y.up[y.kid[m][d]] = m
    <3>1. m # n
      BY <1>3, <2>1
    <3>2. CASE x.kid[m][d] = n
      <4>1. y.kid[m][d] = c /\ c # NIL /\ m = x.up[n] /\ c \in Node
        BY <1>2, <1>3, <2>1, <3>1, <3>2 DEF SpliceSite
      <4> QED
        BY <1>3, <4>1
    <3>3. CASE x.kid[m][d] # n
      <4>1. y.kid[m][d] = x.kid[m][d] /\ x.kid[m][d] # NIL
        BY <1>3, <2>1, <3>1, <3>3
      <4>2. x.kid[m][d] \in Node /\ x.up[x.kid[m][d]] = m /\ x.kid[m][d] # c
        BY <1>1, <1>2, <3>1, <4>1 DEF KidFacts, SpliceSite
      <4> QED
        BY <1>3, <3>3, <4>1, <4>2
    <3> QED
      BY <3>2, <3>3
  <2>2. ASSUME NEW m \in Node, y.up[m] # NIL
        PROVE  \E d \in Side : y.kid[y.up[m]][d] = m
    <3>1. m # n
      BY <1>3, <2>2
    <3>2. CASE m = c
      <4>1. y.up[m] = x.up[n] /\ x.up[n] # NIL /\ x.up[n] \in Node /\ x.up[n] # n
        BY <1>2, <1>3, <2>2, <3>1, <3>2, Basics DEF SpliceSite
      <4>2. PICK d \in Side : x.kid[x.up[n]][d] = n
        BY <1>3, <4>1 DEF Links
      <4> QED
        BY <1>3, <3>2, <4>1, <4>2
    <3>3. CASE m # c
      <4>1. y.up[m] = x.up[m] /\ x.up[m] # NIL /\ x.up[m] \in Node /\ x.up[m] # n
        BY <1>1, <1>2, <1>3, <2>2, <3>1, <3>3, TreeFields, Basics DEF SpliceSite
      <4>2. PICK d \in Side : x.kid[x.up[m]][d] = m
        BY <4>1 DEF Links
      <4> QED
        BY <1>3, <3>1, <4>1, <4>2
    <3> QED
      BY <3>2, <3>3
  <2>3. y.root # NIL => y.up[y.root] = NIL
    <3>1. CASE x.root = n
      <4>1. y.root = c /\ x.up[n] = NIL
        BY <1>2, <1>3, <3>1 DEF SpliceSite
      <4>2. c # NIL => c \in Node
        BY <1>2 DEF SpliceSite
      <4> QED
        BY <1>3, <4>1, <4>2
    <3>2. CASE x.root # n
      <4>1. y.root = x.root /\ (x.root # NIL => x.root \in Node /\ x.up[x.root] = NIL)
        BY <1>1, <1>3, <3>2, TreeFields, Basics DEF Links
      <4>2. x.root # NIL => x.root # c
        BY <1>2 DEF SpliceSite
      <4> QED
        BY <1>3, <3>2, <4>1, <4>2
    <3> QED
      BY <3>1, <3>2
  <2>4. ASSUME NEW m \in Node, NEW d \in Side, m \notin InTree(y) PROVE y.kid[m][d] = NIL
    <3>1. CASE m = n
      BY <1>3, <3>1
    <3>2. CASE m # n
      <4>1. m \notin InTree(x)
        BY <1>4, <2>4, <3>2
      <4>2. x.kid[m][d] = NIL
        BY <4>1 DEF Links
      <4> QED
        BY <1>3, <3>2, <4>2
    <3> QED
      BY <3>1, <3>2
  <2> QED
    BY <1>3, <2>1, <2>2, <2>3, <2>4 DEF Links
<1>6. PICK S2 : S2 = [l \in Link |-> IF l = n THEN {n} ELSE S[l] \ {n}]
  OBVIOUS
<1>7. S2[n] = {n} /\ \A l \in Link : l # n => S2[l] = S[l] \ {n}
  BY <1>3, <1>6, Basics
<1>8. S2 \in [Link -> SUBSET Node]
  <2>1. ASSUME NEW l \in Link PROVE (IF l = n THEN {n} ELSE S[l] \ {n}) \in SUBSET Node
    BY <1>1, <1>3 DEF KidFacts
  <2> QED
    BY <1>6, <2>1
<1>9. S2[NIL] = {} /\ S[NIL] = {}
  <2>1. S[NIL] = {}
    BY DEF Shape
  <2> QED
    BY <1>3, <1>7, <2>1, Basics
<1>10. S2[c] = S[c] /\ S[n] \ {n} = S[c]
  <2>1. n \notin S[c] /\ S[n] = {n} \cup S[c]
    BY <1>2 DEF SpliceSite
  <2>2. S2[c] = S[c] \ {n}
    BY <1>3, <1>7
  <2> QED
    BY <2>1, <2>2
<1>11. S2[y.root] = InTree(y)
  <2>1. S[x.root] = InTree(x) /\ x.root \in Link
    BY <1>1, TreeFields DEF Shape
  <2>2. CASE x.root = n
    <3>1. y.root = c
      BY <1>3, <2>2
    <3>2. S2[c] = S[n] \ {n}
      BY <1>10
    <3> QED
      BY <1>4, <2>1, <2>2, <3>1, <3>2
  <2>3. CASE x.root # n
    <3>1. y.root = x.root
      BY <1>3, <2>3
    <3>2. S2[x.root] = S[x.root] \ {n}
      BY <1>7, <2>1, <2>3
    <3> QED
      BY <1>4, <2>1, <3>1, <3>2
  <2> QED
    BY <2>2, <2>3
<1>12. \A m \in Node, d \in Side : m # n => S2[y.kid[m][d]] = S[x.kid[m][d]] \ {n}
  <2> TAKE m \in Node, d \in Side
  <2> HAVE m # n
  <2>1. CASE x.kid[m][d] = n
    BY <1>3, <1>10, <2>1
  <2>2. CASE x.kid[m][d] # n
    <3>1. x.kid[m][d] \in Link /\ y.kid[m][d] = x.kid[m][d]
      BY <1>1, <1>3, <2>2 DEF KidFacts
    <3> QED
      BY <1>7, <2>2, <3>1
  <2> QED
    BY <2>1, <2>2
<1>13. ASSUME NEW m \in Node
       PROVE  S2[m] = {m} \cup S2[y.kid[m]["left"]] \cup S2[y.kid[m]["right"]]
  <2>1. CASE m = n
    BY <1>3, <1>7, <1>9, <2>1, Basics
  <2>2. CASE m # n
    <3>1. S[m] = {m} \cup S[x.kid[m]["left"]] \cup S[x.kid[m]["right"]]
      BY DEF Shape
    <3>2. S2[m] = S[m] \ {n}
      BY <1>7, <2>2, Basics
    <3>3. /\ S2[y.kid[m]["left"]] = S[x.kid[m]["left"]] \ {n}
          /\ S2[y.kid[m]["right"]] = S[x.kid[m]["right"]] \ {n}
      BY <1>12, <2>2, Basics
    <3> QED
      BY <2>2, <3>1, <3>2, <3>3
  <2> QED
    BY <2>1, <2>2
<1>14. ASSUME NEW m \in Node, NEW d \in Side, NEW a \in S2[y.kid[m][d]]
       PROVE  At(pos, a, d, m)
  <2>1. m # n
    BY <1>3, <1>9
  <2>2. a \in S[x.kid[m][d]]
    BY <1>12, <2>1
  <2> QED
    BY <2>2 DEF Shape
<1>15. pos \in [Node -> Int]
  BY DEF Shape
<1>16. Shape(y, S2, pos)
  BY <1>8, <1>9, <1>11, <1>13, <1>14, <1>15 DEF Shape
<1> QED
  BY <1>4, <1>5, <1>16

\* The colours after EraseOneChild: c takes the colour of n.
SpliceColors(x, y, n, c) ==
    \A m \in Node : m \in y.black <=> /\ m # n
                                      /\ IF m = c THEN n \in x.black ELSE m \in x.black

\* A child moves up only below a black node.  The tree is red-black again
\* unless a black leaf is gone that was not the root.
SpliceOutcome(x, y, n, c) ==
    /\ c # NIL => n \in x.black
    /\ (c # NIL \/ n \notin x.black \/ x.up[n] = NIL) => Rest(y)
    /\ (c = NIL /\ n \in x.black /\ x.up[n] # NIL) =>
          \E d \in Side, h2 \in [Link -> Nat] :
             /\ Erasing(y, h2, NIL, x.up[n], d)
             /\ y.kid[x.up[n]][Other(d)] # NIL

\* The tree is red-black, or one black node is missing where n was.
LEMMA SpliceHeights ==
    ASSUME NEW x, NEW S, NEW pos, Links(x), Shape(x, S, pos), NEW h,
           Coloured(x, NIL), Balanced(x, h), NEW n \in InTree(x),
           NEW c, OnlyChild(x, n, c), NEW y, Spliced(x, y, n, c), SpliceColors(x, y, n, c),
           InTree(y) = InTree(x) \ {n}
    PROVE  SpliceOutcome(x, y, n, c)
<1>1. KidFacts(x, S, pos) /\ x \in Tree
  BY ShapeFacts DEF Links
<1>2. SpliceSite(x, S, n, c)
  BY SpliceFacts
<1>3. /\ n \in Node /\ n # NIL /\ n \in Link /\ c \in Link /\ c # n
      /\ x.up[n] \in Link /\ x.up[n] # n
      /\ y \in Tree
      /\ \A m \in Node : y.up[m] = IF m = n THEN NIL
                                   ELSE IF m = c THEN x.up[n] ELSE x.up[m]
      /\ \A m \in Node, d \in Side :
            y.kid[m][d] = IF m = n THEN NIL
                          ELSE IF x.kid[m][d] = n THEN c ELSE x.kid[m][d]
  BY <1>2, Basics DEF Spliced, SpliceSite
<1>4. \A m \in Node : m \in y.black <=> /\ m # n
                                        /\ IF m = c THEN n \in x.black ELSE m \in x.black
  BY DEF SpliceColors
<1>5. /\ h \in [Link -> Nat] /\ h[NIL] = 0 /\ NIL \in Link
      /\ \A m \in Node, d \in Side :
            h[m] = h[x.kid[m][d]] + (IF m \in x.black THEN 1 ELSE 0)
  BY Basics DEF Balanced
<1>6. /\ x.black \subseteq InTree(x) /\ InTree(x) \subseteq Node
      /\ \A m \in InTree(x) : m \notin x.black => x.up[m] \in x.black
  BY Basics DEF Coloured, InTree
<1>7. PICK s \in Side : x.kid[n][s] = c /\ x.kid[n][Other(s)] = NIL
  BY DEF OnlyChild
<1>8. h[n] = h[c] + (IF n \in x.black THEN 1 ELSE 0) /\ h[n] = (IF n \in x.black THEN 1 ELSE 0)
  <2>1. Other(s) \in Side
    BY <1>7, Basics
  <2>2. h[n] = h[NIL] + (IF n \in x.black THEN 1 ELSE 0)
    BY <1>3, <1>5, <1>7, <2>1
  <2>3. h[n] = h[c] + (IF n \in x.black THEN 1 ELSE 0)
    BY <1>3, <1>5, <1>7
  <2> QED
    BY <1>5, <2>2, <2>3
<1>9. h[c] = 0
  <2>1. h[c] \in Nat /\ h[n] \in Nat
    BY <1>3, <1>5
  <2> QED
    BY <1>8, <2>1
<1>10. ASSUME c # NIL
       PROVE  /\ c \in Node /\ c \in InTree(x) /\ c \notin x.black /\ n \in x.black
              /\ \A d \in Side : h[x.kid[c][d]] = 0
  <2>1. c \in Node /\ x.up[c] = n
    BY <1>2, <1>10 DEF SpliceSite
  <2>2. c \in InTree(x)
    BY <1>3, <2>1 DEF InTree
  <2>3. ASSUME NEW d \in Side PROVE c \notin x.black /\ h[x.kid[c][d]] = 0
    <3>1. x.kid[c][d] \in Link
      BY <1>1, <2>1 DEF KidFacts
    <3>2. h[x.kid[c][d]] \in Nat
      BY <1>5, <3>1
    <3>3. h[c] = h[x.kid[c][d]] + (IF c \in x.black THEN 1 ELSE 0)
      BY <1>5, <2>1
    <3> QED
      BY <1>9, <3>2, <3>3
  <2>4. c \notin x.black
    BY <2>3, Basics
  <2> QED
    BY <1>6, <2>1, <2>2, <2>3, <2>4
<1>11. Coloured(y, NIL)
  <2>1. y.black \subseteq InTree(y)
    <3>1. ASSUME NEW m \in y.black PROVE m \in InTree(y)
      <4>1. m \in Node
        BY <1>3, TreeFields
      <4>2. m # n /\ (m = c \/ m \in x.black)
        BY <1>4, <4>1
      <4>3. m = c => m \in InTree(x)
        BY <1>10, <4>1, Basics
      <4> QED
        BY <1>6, <4>2, <4>3
    <3> QED
      BY <3>1
  <2>2. ASSUME NEW m \in InTree(y), m \notin y.black PROVE y.up[m] \in y.black
    <3>1. m \in InTree(x) /\ m \in Node /\ m # n /\ m # NIL
      BY <1>6, Basics
    <3>2. m # c
      BY <1>4, <1>10, <2>2, <3>1
    <3>3. m \notin x.black /\ y.up[m] = x.up[m]
      BY <1>3, <1>4, <2>2, <3>1, <3>2
    <3>4. x.up[m] \in x.black /\ x.up[m] # n /\ x.up[m] \in Node
      BY <1>2, <1>6, <3>1, <3>2, <3>3 DEF SpliceSite
    <3>5. x.up[m] \in y.black
      <4>1. x.up[m] = c => n \in x.black
        BY <1>10, <3>4, Basics
      <4> QED
        BY <1>4, <3>4, <4>1
    <3> QED
      BY <3>3, <3>5
  <2> QED
    BY <2>1, <2>2 DEF Coloured
<1>12. PICK h2 : h2 = [l \in Link |-> IF l = n THEN 0
                                      ELSE IF l = c /\ c # NIL THEN 1 ELSE h[l]]
  OBVIOUS
<1>13. /\ h2 \in [Link -> Nat] /\ h2[NIL] = 0 /\ h2[n] = 0 /\ (c # NIL => h2[c] = 1)
       /\ \A l \in Link : l # n /\ l # c => h2[l] = h[l]
  BY <1>3, <1>5, <1>12
<1>14. ASSUME NEW m \in Node, NEW d \in Side, x.kid[m][d] # n \/ c # NIL \/ n \notin x.black
       PROVE  h2[m] = h2[y.kid[m][d]] + (IF m \in y.black THEN 1 ELSE 0)
  <2>1. m \in Link /\ m # NIL /\ x.kid[m][d] \in Link
    BY <1>1, Basics DEF KidFacts
  <2>2. CASE m = n
    BY <1>3, <1>4, <1>13, <2>2
  <2>3. CASE m = c
    <3>1. c # NIL /\ x.kid[c][d] # n /\ x.kid[c][d] # c
      <4>1. c # NIL
        BY <2>1, <2>3
      <4>2. x.kid[c][d] # n
        <5>1. x.up[c] = n
          BY <1>2, <4>1 DEF SpliceSite
        <5>2. x.kid[c][d] = n => c = x.up[n]
          BY <1>2, <2>3 DEF SpliceSite
        <5>3. S[c] \subseteq S[n] /\ n \in S[n] /\ n \notin S[c]
          BY <1>2 DEF SpliceSite
        <5>4. S[x.kid[c][d]] \subseteq S[c]
          BY <1>1, <2>3 DEF KidFacts
        <5> QED
          BY <5>3, <5>4
      <4>3. x.kid[c][d] # c
        BY <1>1, <2>3, <4>1 DEF KidFacts
      <4> QED
        BY <4>1, <4>2, <4>3
    <3>2. y.kid[m][d] = x.kid[c][d] /\ h2[x.kid[c][d]] = h[x.kid[c][d]]
      BY <1>3, <1>13, <2>1, <2>3, <3>1
    <3>3. h[x.kid[c][d]] = 0 /\ m \in y.black
      BY <1>3, <1>4, <1>10, <2>3, <3>1
    <3> QED
      BY <1>13, <2>3, <3>1, <3>2, <3>3
  <2>4. CASE m # n /\ m # c
    <3>1. h2[m] = h[m] /\ (m \in y.black <=> m \in x.black)
      BY <1>4, <1>13, <2>1, <2>4
    <3>2. h[m] = h[x.kid[m][d]] + (IF m \in x.black THEN 1 ELSE 0)
      BY <1>5
    <3>3. CASE x.kid[m][d] = n
      <4>1. y.kid[m][d] = c
        BY <1>3, <2>4, <3>3
      <4>2. CASE c # NIL
        <5>1. h[n] = 1 /\ h2[c] = 1
          BY <1>8, <1>10, <1>13, <4>2
        <5> QED
          BY <3>1, <3>2, <3>3, <4>1, <5>1
      <4>3. CASE c = NIL
        <5>1. h[n] = 0 /\ h2[c] = 0
          BY <1>8, <1>13, <1>14, <3>3, <4>3
        <5> QED
          BY <3>1, <3>2, <3>3, <4>1, <5>1
      <4> QED
        BY <4>2, <4>3
    <3>4. CASE x.kid[m][d] # n
      <4>1. y.kid[m][d] = x.kid[m][d]
        BY <1>3, <2>4, <3>4
      <4>2. x.kid[m][d] # c \/ c = NIL
        BY <1>2, <2>4 DEF SpliceSite
      <4>3. h2[x.kid[m][d]] = h[x.kid[m][d]]
        BY <1>5, <1>13, <2>1, <3>4, <4>2
      <4> QED
        BY <3>1, <3>2, <4>1, <4>3
    <3> QED
      BY <3>3, <3>4
  <2> QED
    BY <2>2, <2>3, <2>4
<1>15. ASSUME c # NIL \/ n \notin x.black \/ x.up[n] = NIL PROVE Rest(y)
  <2>1. ASSUME NEW m \in Node, NEW d \in Side
        PROVE  h2[m] = h2[y.kid[m][d]] + (IF m \in y.black THEN 1 ELSE 0)
    <3>1. x.up[n] = NIL => x.kid[m][d] # n
      BY <1>2, Basics DEF SpliceSite
    <3> QED
      BY <1>14, <1>15, <3>1
  <2>2. Balanced(y, h2)
    BY <1>13, <2>1 DEF Balanced
  <2> QED
    BY <1>11, <2>2 DEF Rest
<1>16. ASSUME c = NIL, n \in x.black, x.up[n] # NIL
       PROVE  \E d \in Side, g \in [Link -> Nat] :
                 Erasing(y, g, NIL, x.up[n], d) /\ y.kid[x.up[n]][Other(d)] # NIL
  <2>1. PICK u \in Node : u = x.up[n] /\ u # n
    BY <1>3, <1>16, Basics
  <2>2. PICK e \in Side : x.kid[u][e] = n
    BY <1>3, <1>16, <2>1 DEF Links
  <2>3. PICK o \in Side : o = Other(e) /\ o # e
    BY Basics
  <2>4. x.kid[u][o] # n /\ x.kid[u][o] \in Link
    BY <1>1, <1>3, <2>2, <2>3 DEF KidFacts
  <2>5. y.kid[u][e] = NIL /\ y.kid[u][o] = x.kid[u][o]
    BY <1>3, <1>16, <2>1, <2>2, <2>4
  <2>6. h[n] = 1
    BY <1>8, <1>16
  <2>7. x.kid[u][o] # NIL
    <3>1. PICK b \in Nat : b = IF u \in x.black THEN 1 ELSE 0
      OBVIOUS
    <3>2. h[u] = 1 + b
      BY <1>5, <2>2, <2>6, <3>1
    <3>3. h[u] = h[x.kid[u][o]] + b
      BY <1>5, <3>1
    <3>4. h[x.kid[u][o]] \in Nat
      BY <1>5, <2>4
    <3>5. h[x.kid[u][o]] = 1
      BY <3>1, <3>2, <3>3, <3>4
    <3> QED
      BY <1>5, <3>5
  <2>8. \A m \in Node, d \in Side : x.kid[m][d] = n => m = u /\ d = e
    <3> TAKE m \in Node, d \in Side
    <3> HAVE x.kid[m][d] = n
    <3>1. m = u
      BY <1>2, <2>1 DEF SpliceSite
    <3> QED
      BY <2>3, <2>4, <3>1, Basics
  <2>9. ASSUME NEW m \in Node, NEW d \in Side
        PROVE  h2[m] = h2[y.kid[m][d]] + (IF m \in y.black THEN 1 ELSE 0)
                                       + (IF m = u /\ d = e THEN 1 ELSE 0)
    <3>1. CASE m = u /\ d = e
      <4>1. PICK b \in Nat : b = IF u \in x.black THEN 1 ELSE 0
        OBVIOUS
      <4>2. h[u] = 1 + b
        BY <1>5, <2>2, <2>6, <4>1
      <4>3. h2[u] = h[u] /\ h2[y.kid[u][e]] = 0 /\ (u \in y.black <=> u \in x.black)
        <5>1. u # NIL /\ u \in Link
          BY Basics
        <5> QED
          BY <1>4, <1>13, <1>16, <2>1, <2>5, <5>1
      <4> QED
        BY <3>1, <4>1, <4>2, <4>3
    <3>2. CASE ~(m = u /\ d = e)
      <4>1. x.kid[m][d] # n
        BY <2>8, <3>2
      <4>2. h2[m] = h2[y.kid[m][d]] + (IF m \in y.black THEN 1 ELSE 0)
        BY <1>14, <4>1
      <4>3. y.kid[m][d] \in Link
        BY <1>3, TreeFields
      <4>4. h2[y.kid[m][d]] \in Nat
        BY <1>13, <4>3
      <4> QED
        BY <3>2, <4>2, <4>4
    <3> QED
      BY <3>1, <3>2
  <2>10. Gapped(y, h2, u, e)
    BY <1>13, <2>9 DEF Gapped
  <2>11. u \in InTree(y)
    <3>1. u \in InTree(x)
      <4>1. u = x.root \/ x.up[u] # NIL
        <5>1. S[x.root] = InTree(x) /\ n \in S[x.root]
          BY DEF Shape
        <5>2. CASE n = x.root
          BY <1>2, <1>16, <5>2 DEF SpliceSite
        <5>3. CASE n # x.root
          <6>1. x.root \in Node
            <7>1. x.root # NIL
              BY <5>1 DEF Shape
            <7> QED
              BY <1>1, <7>1, TreeFields, Basics
          <6>2. x.up[n] \in S[x.root]
            BY <5>1, <5>3, <6>1, ParentsNest
          <6> QED
            BY <2>1, <5>1, <6>2 DEF InTree
        <5> QED
          BY <5>2, <5>3
      <4> QED
        BY <4>1 DEF InTree
    <3> QED
      BY <2>1, <3>1
  <2>12. Erasing(y, h2, NIL, u, e)
    BY <1>11, <2>5, <2>10, <2>11 DEF Erasing
  <2> QED
    BY <1>13, <2>1, <2>3, <2>5, <2>7, <2>12
<1> QED
  BY <1>10, <1>15, <1>16 DEF SpliceOutcome

----------------------------------------------------------------------------
(* A node of the tree is replaced by one that is not in it.                *)

\* z is y with new in the place of old.
Replaced(y, z, old, new) ==
    /\ z \in Tree
    /\ z.root = IF y.root = old THEN new ELSE y.root
    /\ \A m \in Node : z.up[m] = IF m = old THEN NIL
                                 ELSE IF m = new THEN y.up[old]
                                 ELSE IF y.up[m] = old THEN new ELSE y.up[m]
    /\ \A m \in Node, d \in Side :
          z.kid[m][d] = IF m = old THEN NIL
                        ELSE IF m = new THEN y.kid[old][d]
                        ELSE IF y.kid[m][d] = old THEN new ELSE y.kid[m][d]
    /\ \A m \in Node : m \in z.black <=>
          m # old /\ IF m = new THEN old \in y.black ELSE m \in y.black

\* Where the order puts new.
ReplacePos(pos, old, new) == [m \in Node |-> IF m = new THEN pos[old] ELSE pos[m]]

\* The link l when new has taken the place of old.
Renamed(l, old, new) == IF l = old THEN new ELSE l

\* What surrounds the two nodes.
ReplaceSite(y, old, new) ==
    /\ old \in Node /\ new \in Node /\ old # new /\ old # NIL /\ new # NIL
    /\ y.up[new] = NIL /\ y.root # new /\ y.up[old] \in Link
    /\ y.up[old] # old /\ y.up[old] # new
    /\ \A d \in Side : y.kid[new][d] = NIL /\ y.kid[old][d] # old
    /\ \A m \in Node, d \in Side : y.kid[m][d] # new
    /\ \A m \in Node : y.up[m] # new
    /\ \A m \in Node, d \in Side : y.kid[m][d] = old => m = y.up[old]
    /\ y.root = old \/ y.up[old] # NIL
    /\ y.root = old => y.up[old] = NIL

\* The surroundings are such in every tree.
LEMMA ReplaceFacts ==
    ASSUME NEW y, NEW S, NEW pos, Links(y), Shape(y, S, pos), NEW old \in InTree(y),
           NEW new \in Node, new \notin InTree(y)
    PROVE  ReplaceSite(y, old, new)
<1>1. KidFacts(y, S, pos) /\ y \in Tree
  BY ShapeFacts DEF Links
<1>2. old \in Node /\ old # NIL /\ new # NIL /\ old # new /\ y.up[old] \in Link
  BY <1>1, TreeFields, Basics DEF InTree
<1>3. y.up[new] = NIL /\ y.root # new
  BY DEF InTree
<1>4. \A d \in Side : y.kid[new][d] = NIL
  BY DEF Links
<1>5. \A m \in Node, d \in Side : y.kid[m][d] # new
  BY <1>1, <1>2, <1>3, Basics DEF KidFacts
<1>6. \A m \in Node : y.up[m] # new
  <2> SUFFICES ASSUME NEW m \in Node, y.up[m] = new PROVE FALSE
    OBVIOUS
  <2>1. PICK d \in Side : y.kid[new][d] = m
    BY <1>2 DEF Links
  <2> QED
    BY <1>4, <2>1, Basics
<1>7. \A m \in Node, d \in Side : y.kid[m][d] = old => m = y.up[old]
  BY <1>1, <1>2 DEF KidFacts
<1>8. \A d \in Side : y.kid[old][d] # old
  BY <1>1, <1>2 DEF KidFacts
<1>9. y.up[old] # old
  <2> SUFFICES ASSUME y.up[old] = old PROVE FALSE
    OBVIOUS
  <2>1. PICK d \in Side : y.kid[old][d] = old
    BY <1>2 DEF Links
  <2> QED
    BY <1>8, <2>1
<1>10. y.root = old \/ y.up[old] # NIL
  BY DEF InTree
<1>11. y.root = old => y.up[old] = NIL
  BY <1>2 DEF Links
<1> QED
  BY <1>2, <1>3, <1>4, <1>5, <1>6, <1>7, <1>8, <1>9, <1>10, <1>11 DEF ReplaceSite

\* The new node lies where the old one lay.
LEMMA ReplaceShape ==
    ASSUME NEW y, NEW S, NEW pos, Links(y), Shape(y, S, pos), NEW old \in InTree(y),
           NEW new \in Node, new \notin InTree(y), NEW z, Replaced(y, z, old, new)
    PROVE  /\ Links(z) /\ InTree(z) = (InTree(y) \ {old}) \cup {new}
           /\ \E S2 : Shape(z, S2, ReplacePos(pos, old, new))
<1>1. PICK S1 : Shape(y, S1, pos) /\ Clean(y, S1)
  BY CleanShape
<1>2. KidFacts(y, S1, pos) /\ y \in Tree
  BY <1>1, ShapeFacts DEF Links
<1>3. ReplaceSite(y, old, new)
  BY ReplaceFacts
<1>4. /\ old \in Node /\ new \in Node /\ old # new /\ old # NIL /\ new # NIL
      /\ old \in Link /\ new \in Link
      /\ z \in Tree
      /\ z.root = IF y.root = old THEN new ELSE y.root
      /\ \A m \in Node : z.up[m] = IF m = old THEN NIL
                                   ELSE IF m = new THEN y.up[old]
                                   ELSE IF y.up[m] = old THEN new ELSE y.up[m]
      /\ \A m \in Node, d \in Side :
            z.kid[m][d] = IF m = old THEN NIL
                          ELSE IF m = new THEN y.kid[old][d]
                          ELSE IF y.kid[m][d] = old THEN new ELSE y.kid[m][d]
  BY <1>3, Basics DEF Replaced, ReplaceSite
<1>5. InTree(z) = (InTree(y) \ {old}) \cup {new}
  <2>1. ASSUME NEW m \in Node
        PROVE  m \in InTree(z) <=> (m \in InTree(y) /\ m # old) \/ m = new
    <3>1. m \in InTree(z) <=> m = z.root \/ z.up[m] # NIL
      BY DEF InTree
    <3>2. m \in InTree(y) <=> m = y.root \/ y.up[m] # NIL
      BY DEF InTree
    <3>3. m # NIL
      BY Basics
    <3>4. CASE m = old
      BY <1>3, <1>4, <3>1, <3>4 DEF ReplaceSite
    <3>5. CASE m = new
      BY <1>3, <1>4, <3>1, <3>5 DEF ReplaceSite
    <3>6. CASE m # old /\ m # new
      BY <1>4, <3>1, <3>2, <3>6
    <3> QED
      BY <3>4, <3>5, <3>6
  <2>2. InTree(z) \subseteq Node /\ InTree(y) \subseteq Node
    BY DEF InTree
  <2> QED
    BY <1>4, <2>1, <2>2
<1>6. Links(z)
  <2>1. ASSUME NEW m \in Node, NEW d \in Side, z.kid[m][d] # NIL
        PROVE  z.up[z.kid[m][d]] = m
    <3>1. m # old
      BY <1>4, <2>1
    <3>2. CASE m = new
      <4>1. z.kid[m][d] = y.kid[old][d] /\ y.kid[old][d] # NIL
        BY <1>4, <2>1, <3>2
      <4>2. /\ y.kid[old][d] \in Node /\ y.up[y.kid[old][d]] = old
            /\ y.kid[old][d] # old /\ y.kid[old][d] # new
        BY <1>2, <1>3, <1>4, <4>1 DEF KidFacts, ReplaceSite
      <4> QED
        BY <1>4, <3>2, <4>1, <4>2
    <3>3. CASE m # new /\ y.kid[m][d] = old
      <4>1. z.kid[m][d] = new /\ m = y.up[old]
        BY <1>3, <1>4, <3>1, <3>3 DEF ReplaceSite
      <4> QED
        BY <1>4, <4>1
    <3>4. CASE m # new /\ y.kid[m][d] # old
      <4>1. z.kid[m][d] = y.kid[m][d] /\ y.kid[m][d] # NIL
        BY <1>4, <2>1, <3>1, <3>4
      <4>2. y.kid[m][d] \in Node /\ y.up[y.kid[m][d]] = m /\ y.kid[m][d] # new
        BY <1>2, <1>3, <4>1 DEF KidFacts, ReplaceSite
      <4> QED
        BY <1>4, <3>1, <3>4, <4>1, <4>2
    <3> QED
      BY <3>2, <3>3, <3>4
  <2>2. ASSUME NEW m \in Node, z.up[m] # NIL
        PROVE  \E d \in Side : z.kid[z.up[m]][d] = m
    <3>1. m # old
      BY <1>4, <2>2
    <3>2. CASE m = new
      <4>1. z.up[m] = y.up[old] /\ y.up[old] # NIL /\ y.up[old] \in Node
        BY <1>3, <1>4, <2>2, <3>1, <3>2, Basics DEF ReplaceSite
      <4>2. PICK d \in Side : y.kid[y.up[old]][d] = old
        BY <1>4, <4>1 DEF Links
      <4>3. y.up[old] # old /\ y.up[old] # new
        BY <1>3 DEF ReplaceSite
      <4> QED
        BY <1>4, <3>2, <4>1, <4>2, <4>3
    <3>3. CASE m # new /\ y.up[m] = old
      <4>1. z.up[m] = new
        BY <1>4, <3>1, <3>3
      <4>2. PICK d \in Side : y.kid[old][d] = m
        BY <1>4, <3>3 DEF Links
      <4> QED
        BY <1>4, <4>1, <4>2
    <3>4. CASE m # new /\ y.up[m] # old
      <4>1. z.up[m] = y.up[m] /\ y.up[m] # NIL /\ y.up[m] \in Node /\ y.up[m] # new
        BY <1>2, <1>3, <1>4, <2>2, <3>1, <3>4, TreeFields, Basics DEF ReplaceSite
      <4>2. PICK d \in Side : y.kid[y.up[m]][d] = m
        BY <4>1 DEF Links
      <4> QED
        BY <1>4, <3>1, <3>4, <4>1, <4>2
    <3> QED
      BY <3>2, <3>3, <3>4
  <2>3. z.root # NIL => z.up[z.root] = NIL
    <3>1. CASE y.root = old
      BY <1>3, <1>4, <3>1 DEF ReplaceSite
    <3>2. CASE y.root # old
      <4>1. z.root = y.root /\ (y.root # NIL => y.root \in Node /\ y.up[y.root] = NIL)
        BY <1>2, <1>4, <3>2, TreeFields, Basics DEF Links
      <4>2. y.root # new
        BY <1>3 DEF ReplaceSite
      <4> QED
        BY <1>4, <3>2, <4>1, <4>2
    <3> QED
      BY <3>1, <3>2
  <2>4. ASSUME NEW m \in Node, NEW d \in Side, m \notin InTree(z) PROVE z.kid[m][d] = NIL
    <3>1. CASE m = old
      BY <1>4, <3>1
    <3>2. CASE m # old
      <4>1. m \notin InTree(y) /\ m # new
        BY <1>5, <2>4, <3>2
      <4>2. y.kid[m][d] = NIL
        BY <4>1 DEF Links
      <4> QED
        BY <1>4, <3>2, <4>1, <4>2
    <3> QED
      BY <3>1, <3>2
  <2> QED
    BY <1>4, <2>1, <2>2, <2>3, <2>4 DEF Links
<1> DEFINE Ren(A) == IF old \in A THEN (A \ {old}) \cup {new} ELSE A
<1>7. PICK S2 : S2 = [l \in Link |-> IF l = old THEN {old}
                                     ELSE IF l = new THEN Ren(S1[old]) ELSE Ren(S1[l])]
  OBVIOUS
<1>8. /\ S2[old] = {old} /\ S2[new] = Ren(S1[old])
      /\ \A l \in Link : l # old /\ l # new => S2[l] = Ren(S1[l])
  BY <1>4, <1>7
<1>9. S2 \in [Link -> SUBSET Node]
  <2>1. ASSUME NEW l \in Link
        PROVE  (IF l = old THEN {old}
                ELSE IF l = new THEN Ren(S1[old]) ELSE Ren(S1[l])) \in SUBSET Node
    <3>1. S1[l] \subseteq Node /\ S1[old] \subseteq Node
      BY <1>2, <1>4 DEF KidFacts
    <3> QED
      BY <1>4, <3>1
  <2> HIDE DEF Ren
  <2> QED
    BY <1>7, <2>1
<1>10. S2[NIL] = {} /\ S1[NIL] = {}
  <2>1. S1[NIL] = {}
    BY <1>1 DEF Shape
  <2> QED
    BY <1>4, <1>8, <2>1, Basics
<1>11. ASSUME NEW l \in Link, l # new PROVE S2[Renamed(l, old, new)] = Ren(S1[l])
  BY <1>8, <1>11 DEF Renamed
<1>12. S2[z.root] = InTree(z)
  <2>1. S1[y.root] = InTree(y) /\ y.root \in Link /\ y.root # new
    BY <1>1, <1>2, <1>3, TreeFields DEF Shape, ReplaceSite
  <2>2. z.root = Renamed(y.root, old, new)
    BY <1>4 DEF Renamed
  <2>3. S2[z.root] = Ren(InTree(y))
    BY <1>11, <2>1, <2>2
  <2> QED
    BY <1>5, <2>3
<1>13. \A m \in Node, d \in Side : m # old =>
          /\ z.kid[m][d] = Renamed(y.kid[IF m = new THEN old ELSE m][d], old, new)
          /\ y.kid[IF m = new THEN old ELSE m][d] \in Link
          /\ y.kid[IF m = new THEN old ELSE m][d] # new
  BY <1>2, <1>3, <1>4 DEF Renamed, KidFacts, ReplaceSite
<1>14. \A m \in Node : m # new => new \notin S1[m]
  BY <1>1 DEF Clean
<1>15. ASSUME NEW m \in Node
       PROVE  S2[m] = {m} \cup S2[z.kid[m]["left"]] \cup S2[z.kid[m]["right"]]
  <2>1. CASE m = old
    BY <1>4, <1>8, <1>10, <2>1, Basics
  <2>2. CASE m # old
    <3>1. PICK k \in Node : k = IF m = new THEN old ELSE m
      BY <1>4
    <3>2. S1[k] = {k} \cup S1[y.kid[k]["left"]] \cup S1[y.kid[k]["right"]]
      BY <1>1 DEF Shape
    <3>3. S2[m] = Ren(S1[k])
      BY <1>8, <2>2, <3>1, Basics
    <3>4. /\ S2[z.kid[m]["left"]] = Ren(S1[y.kid[k]["left"]])
          /\ S2[z.kid[m]["right"]] = Ren(S1[y.kid[k]["right"]])
      <4>1. ASSUME NEW d \in Side PROVE S2[z.kid[m][d]] = Ren(S1[y.kid[k][d]])
        <5>1. z.kid[m][d] = Renamed(y.kid[k][d], old, new) /\ y.kid[k][d] \in Link /\ y.kid[k][d] # new
          BY <1>13, <2>2, <3>1
        <5> HIDE DEF Ren
        <5> QED
          BY <1>11, <5>1
      <4> QED
        BY <4>1, Basics
    <3>5. Ren({k}) = {m}
      BY <2>2, <3>1
    <3>6. \A A, B, C : Ren(A \cup B \cup C) = Ren(A) \cup Ren(B) \cup Ren(C)
      OBVIOUS
    <3>7. Ren(S1[k]) = Ren({k}) \cup Ren(S1[y.kid[k]["left"]]) \cup Ren(S1[y.kid[k]["right"]])
      <4> HIDE DEF Ren
      <4> QED
        BY <3>2, <3>6
    <3> QED
      BY <3>3, <3>4, <3>5, <3>7
  <2> QED
    BY <2>1, <2>2
<1>16. PICK pos2 : pos2 = ReplacePos(pos, old, new)
  OBVIOUS
<1>17. /\ pos2 \in [Node -> Int] /\ pos2[new] = pos[old]
       /\ \A m \in Node : m # new => pos2[m] = pos[m]
  <2>1. \A m \in Node : pos[m] \in Int
    BY <1>2 DEF KidFacts
  <2> QED
    BY <1>4, <1>16, <2>1 DEF ReplacePos
<1>18. ASSUME NEW m \in Node, NEW d \in Side, NEW a \in S2[z.kid[m][d]]
       PROVE  At(pos2, a, d, m)
  <2>1. m # old
    BY <1>4, <1>10
  <2>2. PICK k \in Node : k = IF m = new THEN old ELSE m
    BY <1>4
  <2>3. z.kid[m][d] = Renamed(y.kid[k][d], old, new) /\ y.kid[k][d] \in Link /\ y.kid[k][d] # new
    BY <1>13, <2>1, <2>2
  <2>4. a \in Ren(S1[y.kid[k][d]])
    BY <1>11, <2>3
  <2>5. S1[y.kid[k][d]] \subseteq Node /\ new \notin S1[y.kid[k][d]]
    <3>1. y.kid[k][d] = NIL \/ y.kid[k][d] \in Node
      BY <2>3, Basics
    <3> QED
      BY <1>2, <1>10, <1>14, <2>3, <3>1 DEF KidFacts
  <2>6. PICK b \in S1[y.kid[k][d]] : a = IF b = old THEN new ELSE b
    BY <2>4
  <2>7. At(pos, b, d, k) /\ b \in Node
    BY <1>1, <2>5 DEF Shape
  <2>8. pos2[a] = pos[b]
    BY <1>17, <2>5, <2>6, <2>7
  <2>9. pos2[m] = pos[k]
    BY <1>17, <2>2
  <2> QED
    BY <2>7, <2>8, <2>9 DEF At
<1>19. Shape(z, S2, pos2)
  BY <1>9, <1>10, <1>12, <1>15, <1>17, <1>18 DEF Shape
<1> QED
  BY <1>5, <1>6, <1>16, <1>19

\* A replaced node leaves no red child below a red node.
LEMMA ReplaceColoured ==
    ASSUME NEW y, NEW S, NEW pos, Links(y), Shape(y, S, pos), NEW old \in InTree(y),
           NEW new \in Node, new \notin InTree(y), NEW z, Replaced(y, z, old, new),
           InTree(z) = (InTree(y) \ {old}) \cup {new}, Coloured(y, NIL)
    PROVE  Coloured(z, NIL)
<1>1. ReplaceSite(y, old, new)
  BY ReplaceFacts
<1>2. /\ y.black \subseteq InTree(y) /\ InTree(y) \subseteq Node
      /\ \A m \in InTree(y) : m \notin y.black => y.up[m] \in y.black
  BY Basics DEF Coloured, InTree
<1>3. /\ z \in Tree /\ old \in Node /\ new \in Node /\ old # new
      /\ \A m \in Node : z.up[m] = IF m = old THEN NIL
                                   ELSE IF m = new THEN y.up[old]
                                   ELSE IF y.up[m] = old THEN new ELSE y.up[m]
      /\ \A m \in Node : m \in z.black <=>
            m # old /\ IF m = new THEN old \in y.black ELSE m \in y.black
  BY <1>1 DEF Replaced, ReplaceSite
<1>4. z.black \subseteq InTree(z)
  <2>1. z.black \subseteq Node
    BY <1>3, TreeFields
  <2> QED
    BY <1>2, <1>3, <2>1
<1>5. ASSUME NEW m \in InTree(z), m \notin z.black PROVE z.up[m] \in z.black
  <2>1. m \in Node /\ m # old
    BY <1>2, <1>3
  <2>2. PICK k \in Node : k = IF m = new THEN old ELSE m
    BY <1>3, <2>1
  <2>3. k \in InTree(y) /\ k \notin y.black
    BY <1>3, <1>5, <2>1, <2>2
  <2>4. y.up[k] \in y.black /\ y.up[k] \in Node /\ y.up[k] # new
    BY <1>1, <1>2, <2>3 DEF ReplaceSite
  <2>5. z.up[m] = IF y.up[k] = old THEN new ELSE y.up[k]
    BY <1>1, <1>3, <2>1, <2>2 DEF ReplaceSite
  <2> QED
    BY <1>3, <2>4, <2>5
<1> QED
  BY <1>4, <1>5 DEF Coloured

\* A replaced node leaves the black heights as they are.
LEMMA ReplaceGapped ==
    ASSUME NEW y, NEW S, NEW pos, Links(y), Shape(y, S, pos), NEW old \in InTree(y),
           NEW new \in Node, new \notin InTree(y), NEW z, Replaced(y, z, old, new),
           NEW h, NEW p \in Link, p # new, NEW e \in Side, Gapped(y, h, p, e)
    PROVE  \E h2 \in [Link -> Nat] : Gapped(z, h2, Renamed(p, old, new), e)
<1>1. ReplaceSite(y, old, new) /\ KidFacts(y, S, pos)
  BY ReplaceFacts, ShapeFacts
<1>2. /\ old \in Node /\ new \in Node /\ old # new /\ old # NIL /\ new # NIL
      /\ old \in Link /\ new \in Link
      /\ \A m \in Node, d \in Side :
            z.kid[m][d] = IF m = old THEN NIL
                          ELSE IF m = new THEN y.kid[old][d]
                          ELSE IF y.kid[m][d] = old THEN new ELSE y.kid[m][d]
      /\ \A m \in Node : m \in z.black <=>
            m # old /\ IF m = new THEN old \in y.black ELSE m \in y.black
  BY <1>1, Basics DEF Replaced, ReplaceSite
<1>3. /\ h \in [Link -> Nat] /\ h[NIL] = 0 /\ NIL \in Link
      /\ \A m \in Node, d \in Side :
            h[m] = h[y.kid[m][d]] + (IF m \in y.black THEN 1 ELSE 0)
                                  + (IF m = p /\ d = e THEN 1 ELSE 0)
  BY Basics DEF Gapped
<1>4. PICK h2 : h2 = [l \in Link |-> IF l = old THEN 0 ELSE IF l = new THEN h[old] ELSE h[l]]
  OBVIOUS
<1>5. /\ h2 \in [Link -> Nat] /\ h2[NIL] = 0 /\ h2[old] = 0 /\ h2[new] = h[old]
      /\ \A l \in Link : l # old /\ l # new => h2[l] = h[l]
  BY <1>2, <1>3, <1>4
<1>6. PICK q : q = Renamed(p, old, new)
  OBVIOUS
<1>7. ASSUME NEW m \in Node, NEW d \in Side
      PROVE  h2[m] = h2[z.kid[m][d]] + (IF m \in z.black THEN 1 ELSE 0)
                                     + (IF m = q /\ d = e THEN 1 ELSE 0)
  <2>1. CASE m = old
    <3>1. q # old
      BY <1>2, <1>6 DEF Renamed
    <3> QED
      BY <1>2, <1>5, <2>1, <3>1
  <2>2. CASE m # old
    <3>1. PICK k \in Node : k = IF m = new THEN old ELSE m
      BY <1>2
    <3>2. y.kid[k][d] \in Link /\ y.kid[k][d] # new
      BY <1>1 DEF KidFacts, ReplaceSite
    <3>3. z.kid[m][d] = IF y.kid[k][d] = old THEN new ELSE y.kid[k][d]
      BY <1>1, <1>2, <2>2, <3>1 DEF ReplaceSite
    <3>4. h2[z.kid[m][d]] = h[y.kid[k][d]]
      BY <1>5, <3>2, <3>3
    <3>5. h2[m] = h[k]
      BY <1>5, <2>2, <3>1, Basics
    <3>6. (m \in z.black <=> k \in y.black) /\ (m = q <=> k = p)
      BY <1>2, <1>6, <2>2, <3>1 DEF Renamed
    <3>7. h[k] = h[y.kid[k][d]] + (IF k \in y.black THEN 1 ELSE 0)
                                + (IF k = p /\ d = e THEN 1 ELSE 0)
      BY <1>3
    <3> QED
      BY <3>4, <3>5, <3>6, <3>7
  <2> QED
    BY <2>1, <2>2
<1>8. Gapped(z, h2, q, e)
  BY <1>5, <1>7 DEF Gapped
<1> QED
  BY <1>5, <1>6, <1>8

\* A balanced tree has no gap.
LEMMA NoGap ==
    ASSUME NEW x, x \in Tree, NEW h, NEW e \in Side
    PROVE  Balanced(x, h) <=> Gapped(x, h, NIL, e)
<1>1. \A m \in Node, d \in Side : m # NIL /\ x.kid[m][d] \in Link
  BY TreeFields, Basics
<1>2. ASSUME h \in [Link -> Nat], NEW m \in Node, NEW d \in Side
      PROVE  h[x.kid[m][d]] + (IF m \in x.black THEN 1 ELSE 0)
              = h[x.kid[m][d]] + (IF m \in x.black THEN 1 ELSE 0)
                               + (IF m = NIL /\ d = e THEN 1 ELSE 0)
  <2>1. h[x.kid[m][d]] \in Nat /\ m # NIL
    BY <1>1, <1>2
  <2> QED
    BY <2>1
<1> QED
  BY <1>2 DEF Balanced, Gapped

----------------------------------------------------------------------------
(* The writes of rb_erase and rb_replace_node.                             *)

\* y is x after Forget.
Forgotten(x, y, n) ==
    /\ y \in Tree /\ y.root = x.root
    /\ \A m \in Node : y.up[m] = IF m = n THEN NIL ELSE x.up[m]
    /\ \A m \in Node, d \in Side : y.kid[m][d] = IF m = n THEN NIL ELSE x.kid[m][d]
    /\ \A m \in Node : m \in y.black <=> m \in x.black /\ m # n

\* Forget clears one node.
LEMMA ForgetFields ==
    ASSUME NEW x \in Tree, NEW n \in Node
    PROVE  Forgotten(x, Forget(x, n), n)
<1>1. NoKids \in [Side -> Link] /\ \A d \in Side : NoKids[d] = NIL
  BY Basics DEF NoKids
<1>2. PICK y : y = Forget(x, n)
  OBVIOUS
<1>3. /\ y.root = x.root /\ y.up = [x.up EXCEPT ![n] = NIL]
      /\ y.kid = [x.kid EXCEPT ![n] = NoKids] /\ y.black = x.black \ {n}
  BY <1>2 DEF Forget, Tree
<1>4. /\ x.root \in Link /\ x.up \in [Node -> Link] /\ x.kid \in [Node -> [Side -> Link]]
      /\ x.black \subseteq Node
  BY DEF Tree
<1>5. /\ y.up \in [Node -> Link] /\ y.kid \in [Node -> [Side -> Link]]
      /\ y.black \subseteq Node
  BY <1>1, <1>3, <1>4, Basics
<1>6. y \in Tree
  BY <1>2, <1>3, <1>4, <1>5 DEF Tree, Forget
<1>7. /\ \A m \in Node : y.up[m] = IF m = n THEN NIL ELSE x.up[m]
      /\ \A m \in Node, d \in Side : y.kid[m][d] = IF m = n THEN NIL ELSE x.kid[m][d]
  BY <1>1, <1>3, <1>4
<1>8. \A m \in Node : m \in y.black <=> m \in x.black /\ m # n
  BY <1>3
<1>9. Forgotten(x, y, n)
  BY <1>3, <1>6, <1>7, <1>8 DEF Forgotten
<1> QED
  BY <1>2, <1>9

\* The place where __rb_change_child writes.
ParentPlace(x, n) ==
    /\ x.up[n] = NIL <=> x.root = n
    /\ \A m \in Node, d \in Side :
          (m = x.up[n] /\ d = SideOf(x, x.up[n], n)) <=> x.kid[m][d] = n

\* A node of the tree is the root or a child of its parent.
LEMMA ParentFacts ==
    ASSUME NEW x, NEW S, NEW pos, Links(x), Shape(x, S, pos), NEW n \in InTree(x)
    PROVE  ParentPlace(x, n)
<1>1. KidFacts(x, S, pos) /\ x \in Tree
  BY ShapeFacts DEF Links
<1>2. n \in Node /\ n # NIL /\ x.up[n] \in Link
  BY <1>1, TreeFields, Basics DEF InTree
<1>3. x.up[n] = NIL <=> x.root = n
  BY <1>2 DEF InTree, Links
<1>4. ASSUME NEW m \in Node, NEW d \in Side, x.kid[m][d] = n
      PROVE  m = x.up[n] /\ d = SideOf(x, x.up[n], n)
  <2>1. m = x.up[n]
    BY <1>1, <1>2, <1>4 DEF KidFacts
  <2>2. x.kid[m][Other(d)] # n
    BY <1>1, <1>2, <1>4 DEF KidFacts
  <2>3. d = SideOf(x, m, n)
    <3>1. CASE d = "left"
      BY <1>4, <3>1 DEF SideOf
    <3>2. CASE d = "right"
      BY <2>2, <3>2, Basics DEF SideOf
    <3> QED
      BY <3>1, <3>2, Basics
  <2> QED
    BY <2>1, <2>3
<1>5. ASSUME NEW m \in Node, NEW d \in Side, m = x.up[n], d = SideOf(x, x.up[n], n)
      PROVE  x.kid[m][d] = n
  <2>1. PICK e \in Side : x.kid[m][e] = n
    BY <1>2, <1>5, Basics DEF Links
  <2>2. e = SideOf(x, x.up[n], n)
    BY <1>4, <2>1
  <2> QED
    BY <1>5, <2>1, <2>2
<1> QED
  BY <1>3, <1>4, <1>5 DEF ParentPlace

\* EraseOneChild links the child of n in the place of n.
LEMMA EraseOneFields ==
    ASSUME NEW x, NEW S, NEW pos, Links(x), Shape(x, S, pos), NEW n \in InTree(x),
           NEW c, OnlyChild(x, n, c)
    PROVE  /\ Spliced(x, Forget(EraseOneChild(x, n, c).tree, n), n, c)
           /\ SpliceColors(x, Forget(EraseOneChild(x, n, c).tree, n), n, c)
<1>1. SpliceSite(x, S, n, c) /\ ParentPlace(x, n) /\ x \in Tree
  BY SpliceFacts, ParentFacts DEF Links
<1>2. n \in Node /\ n # NIL /\ c \in Link /\ c # n /\ x.up[n] \in Link
  BY <1>1 DEF SpliceSite
<1>3. PICK p \in Link : p = x.up[n]
  BY <1>2
<1>4. PICK b \in BOOLEAN : b = IsBlack(x, n)
  BY DEF IsBlack
<1>5. b <=> n \in x.black
  BY <1>2, <1>4 DEF IsBlack
<1>6. PICK x1 : x1 = __rb_change_child(x, n, c, p)
  OBVIOUS
<1>7. ChildChanged(x, x1, n, c, p)
  BY <1>1, <1>2, <1>6, ChangeFields
<1>8. PICK x2 : x2 = SetIfNode(x1, c, p, b)
  OBVIOUS
<1>9. ColorSet(x1, x2, c, p, b)
  <2>1. x1 \in Tree
    BY <1>7 DEF ChildChanged
  <2> QED
    BY <1>2, <1>8, <2>1, SetIfNodeFields
<1>10. x2 \in Tree
  BY <1>9 DEF ColorSet
<1>11. EraseOneChild(x, n, c).tree = x2
  BY <1>3, <1>4, <1>6, <1>8 DEF EraseOneChild
<1>12. PICK y : y = Forget(x2, n)
  OBVIOUS
<1>13. Forgotten(x2, y, n)
  BY <1>2, <1>10, <1>12, ForgetFields
<1>14. y.root = IF x.root = n THEN c ELSE x.root
  <2>1. y.root = x1.root
    BY <1>9, <1>13 DEF ColorSet, Forgotten
  <2> QED
    BY <1>1, <1>3, <1>7, <2>1 DEF ChildChanged, ParentPlace
<1>15. ASSUME NEW m \in Node
       PROVE  y.up[m] = IF m = n THEN NIL ELSE IF m = c THEN x.up[n] ELSE x.up[m]
  <2>1. x1.up[m] = x.up[m]
    BY <1>7 DEF ChildChanged
  <2> QED
    BY <1>3, <1>9, <1>13, <2>1 DEF ColorSet, Forgotten
<1>16. ASSUME NEW m \in Node, NEW d \in Side
       PROVE  y.kid[m][d] = IF m = n THEN NIL
                            ELSE IF x.kid[m][d] = n THEN c ELSE x.kid[m][d]
  <2>1. x1.kid[m][d] = IF x.kid[m][d] = n THEN c ELSE x.kid[m][d]
    BY <1>1, <1>3, <1>7 DEF ChildChanged, ParentPlace
  <2> QED
    BY <1>9, <1>13, <2>1 DEF ColorSet, Forgotten
<1>17. ASSUME NEW m \in Node
       PROVE  m \in y.black <=> m # n /\ IF m = c THEN n \in x.black ELSE m \in x.black
  <2>1. x1.black = x.black
    BY <1>7 DEF ChildChanged
  <2> QED
    BY <1>5, <1>9, <1>13, <2>1 DEF ColorSet, Forgotten
<1>18. y \in Tree
  BY <1>13 DEF Forgotten
<1>19. Spliced(x, y, n, c)
  BY <1>14, <1>15, <1>16, <1>18 DEF Spliced
<1>20. SpliceColors(x, y, n, c)
  BY <1>17 DEF SpliceColors
<1> QED
  BY <1>11, <1>12, <1>19, <1>20

\* rb_replace_node puts new in the place of old.
LEMMA ReplaceFields ==
    ASSUME NEW x, NEW S, NEW pos, Links(x), Shape(x, S, pos), NEW old \in InTree(x),
           NEW new \in Node, new \notin InTree(x), Coloured(x, NIL)
    PROVE  Replaced(x, Forget(rb_replace_node(x, old, new), old), old, new)
<1>1. ReplaceSite(x, old, new) /\ ParentPlace(x, old) /\ x \in Tree /\ KidFacts(x, S, pos)
  BY ReplaceFacts, ParentFacts, ShapeFacts DEF Links
<1>2. old \in Node /\ new \in Link /\ old # NIL /\ new # NIL /\ old # new /\ x.up[old] \in Link
  BY <1>1, Basics DEF ReplaceSite
<1>3. new \notin x.black
  BY DEF Coloured
<1>4. PICK p \in Link : p = x.up[old]
  BY <1>2
<1>5. PICK x1 : x1 = [x EXCEPT !.up[new] = p, !.kid[new] = x.kid[old],
                               !.black = IF old \in @ THEN @ \union {new} ELSE @]
  OBVIOUS
<1>6. /\ x1 \in Tree /\ x1.root = x.root
      /\ \A m \in Node : x1.up[m] = IF m = new THEN p ELSE x.up[m]
      /\ \A m \in Node, d \in Side : x1.kid[m][d] = IF m = new THEN x.kid[old][d] ELSE x.kid[m][d]
      /\ \A m \in Node : m \in x1.black <=> IF m = new THEN old \in x.black ELSE m \in x.black
  BY <1>1, <1>2, <1>3, <1>5 DEF Tree
<1>7. PICK K : K = {x.kid[old][s] : s \in Side}
  OBVIOUS
<1>8. PICK x2 : x2 = [x1 EXCEPT !.up = [m \in Node |-> IF m \in K THEN new ELSE @[m]]]
  OBVIOUS
<1>9. /\ x2 \in Tree /\ x2.root = x1.root /\ x2.kid = x1.kid /\ x2.black = x1.black
      /\ \A m \in Node : x2.up[m] = IF m \in K THEN new ELSE x1.up[m]
  BY <1>2, <1>6, <1>8 DEF Tree
<1>10. \A m \in Node : m \in K <=> x.up[m] = old
  <2> TAKE m \in Node
  <2>1. ASSUME m \in K PROVE x.up[m] = old
    BY <1>1, <1>2, <1>7, <2>1, Basics DEF KidFacts
  <2>2. ASSUME x.up[m] = old PROVE m \in K
    <3>1. PICK s \in Side : x.kid[old][s] = m
      BY <1>2, <2>2 DEF Links
    <3> QED
      BY <1>7, <3>1
  <2> QED
    BY <2>1, <2>2
<1>11. PICK x3 : x3 = __rb_change_child(x2, old, new, p)
  OBVIOUS
<1>12. ChildChanged(x2, x3, old, new, p)
  BY <1>2, <1>9, <1>11, ChangeFields
<1>13. rb_replace_node(x, old, new) = x3
  BY <1>4, <1>5, <1>7, <1>8, <1>11 DEF rb_replace_node
<1>14. PICK y : y = Forget(x3, old)
  OBVIOUS
<1>15. Forgotten(x3, y, old)
  BY <1>2, <1>12, <1>14, ForgetFields DEF ChildChanged
<1>16. p # NIL => p \in Node /\ p # new /\ SideOf(x2, p, old) = SideOf(x, p, old)
  <2> HAVE p # NIL
  <2>1. p \in Node /\ p # new
    BY <1>1, <1>4, Basics DEF ReplaceSite
  <2> QED
    BY <1>6, <1>9, <2>1, Basics DEF SideOf
<1>17. y.root = IF x.root = old THEN new ELSE x.root
  BY <1>1, <1>4, <1>6, <1>9, <1>12, <1>15 DEF ChildChanged, ParentPlace, Forgotten
<1>18. ASSUME NEW m \in Node
       PROVE  y.up[m] = IF m = old THEN NIL ELSE IF m = new THEN x.up[old]
                        ELSE IF x.up[m] = old THEN new ELSE x.up[m]
  <2>1. x.up[new] # old
    BY <1>1 DEF ReplaceSite
  <2>2. x3.up[m] = x2.up[m]
    BY <1>12 DEF ChildChanged
  <2>3. y.up[m] = IF m = old THEN NIL ELSE x3.up[m]
    BY <1>15 DEF Forgotten
  <2> QED
    BY <1>4, <1>6, <1>9, <1>10, <2>1, <2>2, <2>3
<1>19. ASSUME NEW m \in Node, NEW d \in Side
       PROVE  y.kid[m][d] = IF m = old THEN NIL ELSE IF m = new THEN x.kid[old][d]
                            ELSE IF x.kid[m][d] = old THEN new ELSE x.kid[m][d]
  <2>1. m # NIL
    BY Basics
  <2>2. (m = p /\ d = SideOf(x, p, old)) <=> x.kid[m][d] = old
    BY <1>1, <1>4 DEF ParentPlace
  <2>3. x3.kid[m][d] = IF m = p /\ d = SideOf(x2, p, old) THEN new ELSE x1.kid[m][d]
    BY <1>9, <1>12 DEF ChildChanged
  <2>4. y.kid[m][d] = IF m = old THEN NIL ELSE x3.kid[m][d]
    BY <1>15 DEF Forgotten
  <2> QED
    BY <1>6, <1>16, <2>1, <2>2, <2>3, <2>4
<1>20. ASSUME NEW m \in Node
       PROVE  m \in y.black <=>
                 m # old /\ IF m = new THEN old \in x.black ELSE m \in x.black
  <2>1. x3.black = x1.black
    BY <1>9, <1>12 DEF ChildChanged
  <2> QED
    BY <1>6, <1>15, <2>1 DEF Forgotten
<1>21. Replaced(x, y, old, new)
  BY <1>15, <1>17, <1>18, <1>19, <1>20 DEF Replaced, Forgotten
<1> QED
  BY <1>13, <1>14, <1>21

----------------------------------------------------------------------------
(* rb_erase of a node with two children: its successor is spliced out and  *)
(* put in its place.                                                       *)

\* What surrounds n, its children l and r, and its successor s with its
\* child c.
TwoSite(x, n, l, r, s, c) ==
    /\ n \in Node /\ l \in Node /\ r \in Node /\ s \in Node /\ c \in Link
    /\ x.kid[n]["left"] = l /\ x.kid[n]["right"] = r
    /\ x.kid[s]["left"] = NIL /\ x.kid[s]["right"] = c
    /\ s \in InTree(x) /\ x.root # s /\ x.up[n] \in Link
    /\ n # s /\ l # s /\ l # r /\ l # n /\ r # n
    /\ n # c /\ l # c /\ r # c /\ s # c
    /\ \A m \in Node : x.up[m] = n <=> m = l \/ m = r
    /\ x.up[n] # s /\ x.up[n] # n /\ (s # r => x.up[n] # x.up[s])
    /\ s # r => /\ x.up[s] \in Node /\ x.up[s] # n /\ x.up[s] # s
                /\ x.kid[x.up[s]]["left"] = s
    /\ \A m \in Node, d \in Side : x.kid[m][d] = s => m = x.up[s]
    /\ s # r => x.kid[x.up[s]]["right"] # s

\* The surroundings are such in every tree.
LEMMA TwoFacts ==
    ASSUME NEW x, NEW S, NEW pos, Links(x), Shape(x, S, pos), NEW n \in InTree(x),
           NEW l, NEW r, NEW s, NEW c,
           x.kid[n]["left"] = l, x.kid[n]["right"] = r, l # NIL, r # NIL,
           Furthest(x, r, "left") = s, x.kid[s]["right"] = c
    PROVE  TwoSite(x, n, l, r, s, c)
<1>1. KidFacts(x, S, pos) /\ x \in Tree /\ pos \in [Node -> Int]
  BY ShapeFacts DEF Links, Shape
<1>2. n \in Node /\ n # NIL /\ x.up[n] \in Link
  BY <1>1, TreeFields, Basics DEF InTree
<1>3. /\ l \in Node /\ r \in Node /\ l # r /\ l # n /\ r # n
      /\ n \notin S[l] /\ n \notin S[r] /\ S[r] \subseteq S[n] /\ S[l] \subseteq S[n]
      /\ x.up[l] = n /\ x.up[r] = n /\ S[r] \subseteq Node /\ l \in S[l]
  BY <1>1, <1>2, Basics DEF KidFacts
<1>4. S[l] \cap S[r] = {}
  <2>1. S[x.kid[n]["left"]] \cap S[x.kid[n][Other("left")]] = {}
    BY <1>1, <1>2, Basics DEF KidFacts
  <2> QED
    BY <2>1, Basics
<1>5. /\ s \in S[r] /\ x.kid[s]["left"] = NIL
      /\ \A a \in S[r] : a = s \/ At(pos, a, "right", s)
  BY <1>3, FurthestFacts, Basics
<1>6. s \in Node /\ s # n /\ s # l
  BY <1>3, <1>4, <1>5
<1>7. /\ c \in Link /\ S[c] \subseteq S[s] /\ S[s] \subseteq S[r]
      /\ c # NIL => c \in S[c] /\ c # s /\ r \notin S[c]
  <2>1. c \in Link /\ S[c] \subseteq S[s]
    BY <1>1, <1>6, Basics DEF KidFacts
  <2>2. S[s] \subseteq S[r]
    BY <1>3, <1>5, SubtreesNest
  <2>3. c # NIL => c \in S[c] /\ c # s /\ s \notin S[c]
    BY <1>1, <1>6, <2>1, Basics DEF KidFacts
  <2>4. c # NIL => r \notin S[c]
    <3> SUFFICES ASSUME c # NIL, r \in S[c] PROVE FALSE
      OBVIOUS
    <3>1. S[r] \subseteq S[c]
      BY <2>1, <2>3, Basics, SubtreesNest
    <3> QED
      BY <1>5, <2>3, <3>1
  <2> QED
    BY <2>1, <2>2, <2>3, <2>4
<1>8. n # c /\ l # c /\ r # c /\ s # c
  BY <1>2, <1>3, <1>4, <1>6, <1>7, Basics
<1>9. \A m \in Node : x.up[m] = n <=> m = l \/ m = r
  <2> TAKE m \in Node
  <2>1. ASSUME x.up[m] = n PROVE m = l \/ m = r
    <3>1. PICK d \in Side : x.kid[n][d] = m
      BY <1>2, <2>1 DEF Links
    <3> QED
      BY <3>1, Basics
  <2> QED
    BY <1>3, <2>1
<1>10. x.up[n] # NIL => x.up[n] \in Node /\ x.up[n] \notin S[n]
  <2> HAVE x.up[n] # NIL
  <2>1. PICK d \in Side : x.kid[x.up[n]][d] = n
    BY <1>2 DEF Links
  <2> QED
    BY <1>1, <1>2, <2>1, Basics DEF KidFacts
<1>11. s # r => x.up[s] \in S[r]
  BY <1>3, <1>5, ParentsNest
<1>12. x.up[n] # s /\ x.up[n] # n /\ (s # r => x.up[n] # x.up[s])
  <2>1. s \in S[n] /\ n \in S[n] /\ (s # r => x.up[s] \in S[n])
    BY <1>1, <1>2, <1>3, <1>5, <1>11 DEF KidFacts
  <2> QED
    BY <1>2, <1>3, <1>6, <1>10, <1>11, <2>1, Basics
<1>13. ASSUME s # r
       PROVE  /\ x.up[s] \in Node /\ x.up[s] # n /\ x.up[s] # s
              /\ x.kid[x.up[s]]["left"] = s /\ x.kid[x.up[s]]["right"] # s
  <2>1. x.up[s] \in Node /\ x.up[s] # n /\ x.up[s] # NIL
    BY <1>3, <1>11, <1>13, Basics
  <2>2. PICK d \in Side : x.kid[x.up[s]][d] = s
    BY <1>6, <2>1 DEF Links
  <2>3. x.up[s] # s
    BY <1>1, <1>6, <2>1, <2>2, Basics DEF KidFacts
  <2>4. At(pos, x.up[s], "right", s)
    BY <1>5, <1>11, <1>13, <2>3
  <2>5. s \in S[s]
    BY <1>1, <1>6 DEF KidFacts
  <2>6. x.kid[x.up[s]]["right"] # s
    <3> SUFFICES ASSUME x.kid[x.up[s]]["right"] = s PROVE FALSE
      OBVIOUS
    <3>1. At(pos, s, "right", x.up[s])
      BY <2>1, <2>5, Basics DEF Shape
    <3>2. pos[s] \in Int /\ pos[x.up[s]] \in Int
      BY <1>1, <1>6, <2>1
    <3> QED
      BY <2>4, <3>1, <3>2, Basics DEF At
  <2> QED
    BY <2>1, <2>2, <2>3, <2>6, Basics
<1>14. x.up[s] # NIL
  BY <1>2, <1>3, <1>13, Basics
<1>15. s \in InTree(x) /\ x.root # s
  BY <1>6, <1>14, Basics DEF InTree, Links
<1>16. \A m \in Node, d \in Side : x.kid[m][d] = s => m = x.up[s]
  BY <1>1, <1>6, Basics DEF KidFacts
<1> QED
  BY <1>2, <1>3, <1>5, <1>6, <1>7, <1>8, <1>9, <1>12, <1>13, <1>15, <1>16 DEF TwoSite

\* The tree that EraseTwoChildren leaves.
TwoWrites(x, z, n, l, r, s, c, p) ==
    /\ z \in Tree
    /\ z.root = IF x.root = n THEN s ELSE x.root
    /\ \A m \in Node : z.up[m] = IF m = n THEN NIL
                                 ELSE IF m = c THEN p
                                 ELSE IF m = s THEN x.up[n]
                                 ELSE IF m = l \/ m = r THEN s ELSE x.up[m]
    /\ \A m \in Node, d \in Side :
          z.kid[m][d] = IF m = n THEN NIL
                        ELSE IF m = s THEN IF d = "left" THEN l ELSE IF s = r THEN c ELSE r
                        ELSE IF s # r /\ m = p /\ d = "left" THEN c
                        ELSE IF x.kid[m][d] = n THEN s ELSE x.kid[m][d]
    /\ \A m \in Node : m \in z.black <=>
          m # n /\ (m = c \/ IF m = s THEN n \in x.black ELSE m \in x.black)

\* EraseTwoChildren does those writes.
LEMMA EraseTwoFields ==
    ASSUME NEW x \in Tree, NEW n, NEW l, NEW r, NEW s, NEW c, TwoSite(x, n, l, r, s, c),
           ParentPlace(x, n), Furthest(x, r, "left") = s, NEW p,
           p = IF s = r THEN s ELSE x.up[s]
    PROVE  TwoWrites(x, Forget(EraseTwoChildren(x, n).tree, n), n, l, r, s, c, p)
<1>1. /\ n \in Node /\ l \in Node /\ r \in Node /\ s \in Node /\ c \in Link /\ p \in Node
      /\ x.kid[n]["left"] = l /\ x.kid[n]["right"] = r
      /\ x.kid[s]["left"] = NIL /\ x.kid[s]["right"] = c
      /\ x.up[n] \in Link /\ l \in Link /\ r \in Link /\ s \in Link /\ p \in Link
      /\ "left" \in Side /\ "right" \in Side /\ "left" # "right"
      /\ s # r => p # s
  BY Basics DEF TwoSite
<1>2. PICK xa : xa = SetKid(x, p, "left", c)
  OBVIOUS
<1>3. KidSet(x, xa, p, "left", c)
  BY <1>1, <1>2, SetKidFields
<1>4. PICK xb : xb = SetKid(xa, s, "right", r)
  OBVIOUS
<1>5. KidSet(xa, xb, s, "right", r)
  <2>1. xa \in Tree
    BY <1>3 DEF KidSet
  <2> QED
    BY <1>1, <1>4, <2>1, SetKidFields
<1>6. PICK xc : xc = rb_set_parent(xb, r, s)
  OBVIOUS
<1>7. UpSet(xb, xc, r, s)
  <2>1. xb \in Tree
    BY <1>5 DEF KidSet
  <2> QED
    BY <1>1, <1>6, <2>1, SetParentFields
<1>8. PICK x1 : x1 = IF s = r THEN x ELSE xc
  OBVIOUS
<1>9. /\ x1 \in Tree /\ x1.root = x.root /\ x1.black = x.black
      /\ \A m \in Node : x1.up[m] = IF s # r /\ m = r THEN s ELSE x.up[m]
      /\ \A m \in Node, d \in Side :
            x1.kid[m][d] = IF s # r /\ m = p /\ d = "left" THEN c
                           ELSE IF s # r /\ m = s /\ d = "right" THEN r ELSE x.kid[m][d]
  <2>1. CASE s = r
    BY <1>8, <2>1
  <2>2. CASE s # r
    <3>1. x1 = xc /\ p # s
      BY <1>1, <1>8, <2>2
    <3> QED
      BY <1>3, <1>5, <1>7, <2>2, <3>1 DEF KidSet, UpSet
  <2> QED
    BY <2>1, <2>2
<1>10. PICK xd : xd = SetKid(x1, s, "left", l)
  OBVIOUS
<1>11. KidSet(x1, xd, s, "left", l)
  BY <1>1, <1>9, <1>10, SetKidFields
<1>12. PICK x2 : x2 = rb_set_parent(xd, l, s)
  OBVIOUS
<1>13. UpSet(xd, x2, l, s)
  <2>1. xd \in Tree
    BY <1>11 DEF KidSet
  <2> QED
    BY <1>1, <1>12, <2>1, SetParentFields
<1>14. PICK u \in Link : u = x.up[n]
  BY <1>1
<1>15. PICK x3 : x3 = __rb_change_child(x2, n, s, u)
  OBVIOUS
<1>16. ChildChanged(x2, x3, n, s, u)
  <2>1. x2 \in Tree
    BY <1>13 DEF UpSet
  <2> QED
    BY <1>1, <1>14, <1>15, <2>1, ChangeFields
<1>17. PICK b \in BOOLEAN : b = IsBlack(x, n)
  BY DEF IsBlack
<1>18. b <=> n \in x.black
  BY <1>1, <1>17, Basics DEF IsBlack
<1>19. PICK x4 : x4 = rb_set_parent_color(x3, s, u, b)
  OBVIOUS
<1>20. ColorSet(x3, x4, s, u, b)
  <2>1. x3 \in Tree
    BY <1>16 DEF ChildChanged
  <2> QED
    BY <1>1, <1>14, <1>19, <2>1, SetColorFields
<1>21. PICK x5 : x5 = SetIfNode(x4, c, p, TRUE)
  OBVIOUS
<1>22. ColorSet(x4, x5, c, p, TRUE)
  <2>1. x4 \in Tree
    BY <1>20 DEF ColorSet
  <2> QED
    BY <1>1, <1>21, <2>1, SetIfNodeFields
<1>23. EraseTwoChildren(x, n).tree = x5
  BY <1>1, <1>2, <1>4, <1>6, <1>8, <1>10, <1>12, <1>14, <1>15, <1>17, <1>19, <1>21, Zenon
     DEF EraseTwoChildren
<1>24. PICK z : z = Forget(x5, n)
  OBVIOUS
<1>25. Forgotten(x5, z, n)
  <2>1. x5 \in Tree
    BY <1>22 DEF ColorSet
  <2> QED
    BY <1>1, <1>24, <2>1, ForgetFields
<1>26. z.root = IF x.root = n THEN s ELSE x.root
  <2>1. z.root = x3.root
    BY <1>20, <1>22, <1>25 DEF ColorSet, Forgotten
  <2>2. x2.root = x.root
    BY <1>9, <1>11, <1>13 DEF KidSet, UpSet
  <2> QED
    BY <1>14, <1>16, <2>1, <2>2 DEF ChildChanged, ParentPlace
<1>27. ASSUME NEW m \in Node
       PROVE  z.up[m] = IF m = n THEN NIL ELSE IF m = c THEN p ELSE IF m = s THEN x.up[n]
                        ELSE IF m = l \/ m = r THEN s ELSE x.up[m]
  <2>1. x3.up[m] = IF m = l THEN s ELSE x1.up[m]
    BY <1>11, <1>13, <1>16 DEF KidSet, UpSet, ChildChanged
  <2>2. z.up[m] = IF m = n THEN NIL ELSE IF m = c THEN p ELSE IF m = s THEN u ELSE x3.up[m]
    BY <1>20, <1>22, <1>25 DEF ColorSet, Forgotten
  <2> QED
    BY <1>9, <1>14, <2>1, <2>2
<1>28. u # NIL => u \in Node /\ u # s /\ SideOf(x2, u, n) = SideOf(x, u, n)
  <2> HAVE u # NIL
  <2>1. u \in Node /\ u # s /\ (s # r => u # p)
    BY <1>14, Basics DEF TwoSite
  <2>2. x2.kid[u]["left"] = x.kid[u]["left"]
    BY <1>1, <1>9, <1>11, <1>13, <2>1 DEF KidSet, UpSet
  <2> QED
    BY <2>1, <2>2 DEF SideOf
<1>29. ASSUME NEW m \in Node, NEW d \in Side
       PROVE  z.kid[m][d] = IF m = n THEN NIL
                        ELSE IF m = s THEN IF d = "left" THEN l ELSE IF s = r THEN c ELSE r
                        ELSE IF s # r /\ m = p /\ d = "left" THEN c
                        ELSE IF x.kid[m][d] = n THEN s ELSE x.kid[m][d]
  <2>1. z.kid[m][d] = IF m = n THEN NIL ELSE x3.kid[m][d]
    BY <1>20, <1>22, <1>25 DEF ColorSet, Forgotten
  <2>2. x3.kid[m][d] = IF m = u /\ d = SideOf(x2, u, n) THEN s ELSE x2.kid[m][d]
    BY <1>16 DEF ChildChanged
  <2>3. x2.kid[m][d] = IF m = s /\ d = "left" THEN l ELSE x1.kid[m][d]
    BY <1>11, <1>13 DEF KidSet, UpSet
  <2>4. (m = u /\ d = SideOf(x, u, n)) <=> x.kid[m][d] = n
    BY <1>14 DEF ParentPlace
  <2>5. m # NIL /\ (d = "left" \/ d = "right")
    BY Basics
  <2>6. (m = u /\ d = SideOf(x2, u, n)) <=> x.kid[m][d] = n
    BY <1>28, <2>4, <2>5
  <2>7. CASE x.kid[m][d] = n
    <3>1. m = u /\ m # s /\ (s # r => m # p)
      BY <1>14, <1>28, <2>4, <2>5, <2>7 DEF TwoSite
    <3> QED
      BY <2>1, <2>2, <2>6, <2>7, <3>1
  <2>8. CASE x.kid[m][d] # n
    <3>1. z.kid[m][d] = IF m = n THEN NIL ELSE x2.kid[m][d]
      BY <2>1, <2>2, <2>6, <2>8
    <3>2. CASE m = s
      <4>1. x2.kid[m][d] = IF d = "left" THEN l ELSE IF s = r THEN c ELSE r
        BY <1>1, <1>9, <2>3, <2>5, <3>2
      <4> QED
        BY <3>1, <3>2, <4>1
    <3>3. CASE m # s
      BY <1>9, <2>3, <2>8, <3>1, <3>3
    <3> QED
      BY <3>2, <3>3
  <2> QED
    BY <2>7, <2>8
<1>30. ASSUME NEW m \in Node
       PROVE  m \in z.black <=>
                 m # n /\ (m = c \/ IF m = s THEN n \in x.black ELSE m \in x.black)
  <2>1. x3.black = x.black
    BY <1>9, <1>11, <1>13, <1>16 DEF KidSet, UpSet, ChildChanged
  <2>2. m \in z.black <=> m # n /\ (IF m = c THEN TRUE ELSE IF m = s THEN b ELSE m \in x3.black)
    BY <1>20, <1>22, <1>25 DEF ColorSet, Forgotten
  <2> QED
    BY <1>18, <2>1, <2>2
<1>31. TwoWrites(x, z, n, l, r, s, c, p)
  BY <1>25, <1>26, <1>27, <1>29, <1>30 DEF TwoWrites, Forgotten
<1> QED
  BY <1>23, <1>24, <1>31

\* The same tree: the successor spliced out, and then put in the place of n.
LEMMA TwoIsSpliceAndReplace ==
    ASSUME NEW x \in Tree, NEW n, NEW l, NEW r, NEW s, NEW c, TwoSite(x, n, l, r, s, c),
           NEW p, p = IF s = r THEN s ELSE x.up[s],
           NEW z, TwoWrites(x, z, n, l, r, s, c, p),
           NEW y, Spliced(x, y, s, c), SpliceColors(x, y, s, c),
           c # NIL => s \in x.black
    PROVE  Replaced(y, z, n, s)
<1>1. /\ n \in Node /\ l \in Node /\ r \in Node /\ s \in Node /\ c \in Link
      /\ x.kid[n]["left"] = l /\ x.kid[n]["right"] = r
      /\ x.root # s /\ n # s /\ l # s /\ l # r /\ l # n /\ r # n
      /\ n # c /\ l # c /\ r # c /\ s # c
      /\ \A m \in Node : x.up[m] = n <=> m = l \/ m = r
  BY DEF TwoSite
<1>2. /\ y.root = x.root
      /\ \A m \in Node : y.up[m] = IF m = s THEN NIL
                                   ELSE IF m = c THEN x.up[s] ELSE x.up[m]
      /\ \A m \in Node, d \in Side :
            y.kid[m][d] = IF m = s THEN NIL
                          ELSE IF x.kid[m][d] = s THEN c ELSE x.kid[m][d]
  BY <1>1 DEF Spliced
<1>3. \A m \in Node : m \in y.black <=> m # s /\ IF m = c THEN s \in x.black ELSE m \in x.black
  BY DEF SpliceColors
<1>4. ASSUME NEW m \in Node
      PROVE  z.up[m] = IF m = n THEN NIL ELSE IF m = s THEN y.up[n]
                       ELSE IF y.up[m] = n THEN s ELSE y.up[m]
  <2>1. z.up[m] = IF m = n THEN NIL ELSE IF m = c THEN p ELSE IF m = s THEN x.up[n]
                  ELSE IF m = l \/ m = r THEN s ELSE x.up[m]
    BY DEF TwoWrites
  <2>2. y.up[n] = x.up[n]
    BY <1>1, <1>2
  <2>3. CASE m = c
    <3>1. y.up[m] = x.up[s] /\ z.up[m] = p
      BY <1>1, <1>2, <2>1, <2>3
    <3>2. s = r => x.up[s] = n
      BY <1>1
    <3>3. s # r => x.up[s] # n
      BY DEF TwoSite
    <3> QED
      BY <1>1, <2>3, <3>1, <3>2, <3>3
  <2>4. CASE m # c
    BY <1>1, <1>2, <2>1, <2>2, <2>4
  <2> QED
    BY <2>3, <2>4
<1>5. ASSUME NEW m \in Node, NEW d \in Side
      PROVE  z.kid[m][d] = IF m = n THEN NIL ELSE IF m = s THEN y.kid[n][d]
                           ELSE IF y.kid[m][d] = n THEN s ELSE y.kid[m][d]
  <2>1. z.kid[m][d] = IF m = n THEN NIL
                      ELSE IF m = s THEN IF d = "left" THEN l ELSE IF s = r THEN c ELSE r
                      ELSE IF s # r /\ m = p /\ d = "left" THEN c
                      ELSE IF x.kid[m][d] = n THEN s ELSE x.kid[m][d]
    BY DEF TwoWrites
  <2>2. d = "left" \/ d = "right"
    BY Basics
  <2>3. y.kid[n][d] = IF d = "left" THEN l ELSE IF s = r THEN c ELSE r
    BY <1>1, <1>2, <2>2, Basics
  <2>4. CASE m # n /\ m # s
    <3>1. x.kid[m][d] = s => s # r /\ m = p /\ d = "left"
      <4> HAVE x.kid[m][d] = s
      <4>1. m = x.up[s]
        BY DEF TwoSite
      <4>2. s # r
        BY <1>1, <2>4, <4>1
      <4>3. d # "right"
        BY <4>1, <4>2 DEF TwoSite
      <4> QED
        BY <2>2, <4>1, <4>2, <4>3
    <3>2. s # r /\ m = p /\ d = "left" => x.kid[m][d] = s
      BY DEF TwoSite
    <3> QED
      BY <1>1, <1>2, <2>1, <2>4, <3>1, <3>2
  <2> QED
    BY <1>1, <2>1, <2>3, <2>4
<1>6. ASSUME NEW m \in Node
      PROVE  m \in z.black <=> m # n /\ IF m = s THEN n \in y.black ELSE m \in y.black
  <2>1. m \in z.black <=> m # n /\ (m = c \/ IF m = s THEN n \in x.black ELSE m \in x.black)
    BY DEF TwoWrites
  <2>2. m = c => s \in x.black
    BY Basics
  <2> QED
    BY <1>1, <1>3, <2>1, <2>2
<1>7. z \in Tree /\ z.root = IF y.root = n THEN s ELSE y.root
  BY <1>2 DEF TwoWrites
<1> QED
  BY <1>4, <1>5, <1>6, <1>7 DEF Replaced

----------------------------------------------------------------------------
(* What rb_erase leaves.                                                   *)

\* Positions may change as long as the nodes of the tree keep their order.
LEMMA Reorder ==
    ASSUME NEW x, NEW S, NEW pos, Links(x), Shape(x, S, pos), NEW pos2 \in [Node -> Int],
           \A a, b \in InTree(x) : pos[a] < pos[b] => pos2[a] < pos2[b]
    PROVE  \E S2 : Shape(x, S2, pos2)
<1>1. PICK S1 : Shape(x, S1, pos) /\ Clean(x, S1)
  BY CleanShape
<1>2. KidFacts(x, S1, pos)
  BY <1>1, ShapeFacts
<1>3. ASSUME NEW m \in Node, NEW d \in Side, NEW a \in S1[x.kid[m][d]]
      PROVE  At(pos2, a, d, m)
  <2>1. x.kid[m][d] # NIL
    BY <1>1 DEF Shape
  <2>2. m \in InTree(x)
    BY <2>1 DEF Links
  <2>3. a \in InTree(x)
    BY <1>1, <1>2, <2>2 DEF Clean, KidFacts
  <2>4. At(pos, a, d, m)
    BY <1>1 DEF Shape
  <2> QED
    BY <2>2, <2>3, <2>4 DEF At
<1>4. Shape(x, S1, pos2)
  BY <1>1, <1>3 DEF Shape
<1> QED
  BY <1>4

\* The tree y after an erasure, and the parent q where rebalancing starts.
Erased(y, q, pos) ==
    /\ Links(y) /\ q \in Link
    /\ \E S : Shape(y, S, pos)
    /\ q = NIL => Rest(y)
    /\ q # NIL => \E d \in Side, h \in [Link -> Nat] :
                     Erasing(y, h, NIL, q, d) /\ y.kid[q][Other(d)] # NIL

\* Case 1 of rb_erase takes n out.
LEMMA EraseOneErases ==
    ASSUME NEW x, NEW S, NEW pos, Links(x), Shape(x, S, pos), NEW h,
           Coloured(x, NIL), Balanced(x, h), NEW n \in InTree(x), NEW c, OnlyChild(x, n, c),
           NEW e, e = EraseOneChild(x, n, c)
    PROVE  /\ Erased(Forget(e.tree, n), e.rebalance, pos)
           /\ InTree(Forget(e.tree, n)) = InTree(x) \ {n}
<1>1. PICK y : y = Forget(EraseOneChild(x, n, c).tree, n)
  OBVIOUS
<1>2. Spliced(x, y, n, c) /\ SpliceColors(x, y, n, c)
  BY <1>1, EraseOneFields
<1>3. Links(y) /\ InTree(y) = InTree(x) \ {n} /\ \E S2 : Shape(y, S2, pos)
  BY <1>2, SpliceShape
<1>4. SpliceOutcome(x, y, n, c)
  BY <1>2, <1>3, SpliceHeights
<1>5. n \in Node /\ n # NIL /\ x.up[n] \in Link
  BY TreeFields, Basics DEF InTree, Links
<1>6. PICK q : q = EraseOneChild(x, n, c).rebalance
  OBVIOUS
<1>7. q = IF c = NIL /\ n \in x.black THEN x.up[n] ELSE NIL
  BY <1>5, <1>6 DEF EraseOneChild, IsBlack
<1>8. q \in Link
  BY <1>5, <1>7, Basics
<1>9. q = NIL => Rest(y)
  BY <1>4, <1>7 DEF SpliceOutcome
<1>10. q # NIL => \E d \in Side, g \in [Link -> Nat] :
                     Erasing(y, g, NIL, q, d) /\ y.kid[q][Other(d)] # NIL
  BY <1>4, <1>7 DEF SpliceOutcome
<1>11. Erased(y, q, pos)
  BY <1>3, <1>8, <1>9, <1>10 DEF Erased
<1> QED
  BY <1>1, <1>3, <1>6, <1>11

\* Cases 2 and 3 of rb_erase take n out.
LEMMA EraseTwoErases ==
    ASSUME NEW x, NEW S, NEW pos, Links(x), Shape(x, S, pos), NEW h,
           Coloured(x, NIL), Balanced(x, h), NEW n \in InTree(x),
           x.kid[n]["left"] # NIL, x.kid[n]["right"] # NIL
    PROVE  /\ Erased(Forget(EraseTwoChildren(x, n).tree, n), EraseTwoChildren(x, n).rebalance, pos)
           /\ InTree(Forget(EraseTwoChildren(x, n).tree, n)) = InTree(x) \ {n}
<1>1. PICK l, r, s, c : /\ x.kid[n]["left"] = l /\ x.kid[n]["right"] = r
                        /\ Furthest(x, r, "left") = s /\ x.kid[s]["right"] = c
  OBVIOUS
<1>2. TwoSite(x, n, l, r, s, c)
  BY <1>1, TwoFacts
<1>3. x \in Tree /\ ParentPlace(x, n) /\ pos \in [Node -> Int]
  BY ParentFacts DEF Links, Shape
<1>4. PICK p : p = IF s = r THEN s ELSE x.up[s]
  OBVIOUS
<1>5. PICK z : z = Forget(EraseTwoChildren(x, n).tree, n)
  OBVIOUS
<1>6. TwoWrites(x, z, n, l, r, s, c, p)
  BY <1>1, <1>2, <1>3, <1>4, <1>5, EraseTwoFields
<1>7. /\ n \in Node /\ s \in Node /\ s \in InTree(x) /\ n # s /\ s # NIL /\ n # NIL
      /\ OnlyChild(x, s, c)
  BY <1>2, Basics DEF TwoSite, OnlyChild
<1>8. PICK y : y = Forget(EraseOneChild(x, s, c).tree, s)
  OBVIOUS
<1>9. Spliced(x, y, s, c) /\ SpliceColors(x, y, s, c)
  BY <1>7, <1>8, EraseOneFields
<1>10. Links(y) /\ InTree(y) = InTree(x) \ {s} /\ \E S2 : Shape(y, S2, pos)
  BY <1>7, <1>9, SpliceShape
<1>11. PICK S2 : Shape(y, S2, pos)
  BY <1>10
<1>12. SpliceOutcome(x, y, s, c)
  BY <1>7, <1>9, <1>10, SpliceHeights
<1>13. Replaced(y, z, n, s)
  <2>1. c # NIL => s \in x.black
    BY <1>12 DEF SpliceOutcome
  <2> QED
    BY <1>2, <1>3, <1>4, <1>6, <1>9, <2>1, TwoIsSpliceAndReplace
<1>14. n \in InTree(y) /\ s \notin InTree(y)
  BY <1>7, <1>10
<1>15. /\ Links(z) /\ InTree(z) = (InTree(y) \ {n}) \cup {s}
       /\ \E S3 : Shape(z, S3, ReplacePos(pos, n, s))
  BY <1>7, <1>10, <1>11, <1>13, <1>14, ReplaceShape
<1>16. InTree(z) = InTree(x) \ {n}
  BY <1>7, <1>10, <1>15
<1>17. \E S3 : Shape(z, S3, pos)
  <2>1. PICK S3 : Shape(z, S3, ReplacePos(pos, n, s))
    BY <1>15
  <2>2. NextIs(x, pos, n, "right", s)
    <3>1. Neighbour(x, n, "right") = s
      BY <1>1, Basics DEF Neighbour
    <3> QED
      BY <3>1, NeighbourFacts, Basics
  <2>3. PICK pos2 : pos2 = ReplacePos(pos, n, s)
    OBVIOUS
  <2>4. /\ pos2[s] = pos[n] /\ pos[n] \in Int /\ pos[s] \in Int /\ pos[n] < pos[s]
        /\ \A m \in Node : m # s => pos2[m] = pos[m]
    BY <1>3, <1>7, <2>2, <2>3, Basics DEF ReplacePos, NextIs, At
  <2>5. ASSUME NEW a \in InTree(z), NEW b \in InTree(z), pos2[a] < pos2[b]
        PROVE  pos[a] < pos[b]
    <3>1. a \in Node /\ b \in Node /\ a \in InTree(x) /\ b \in InTree(x) /\ a # n /\ b # n
      BY <1>16 DEF InTree
    <3>2. pos[a] \in Int /\ pos[b] \in Int
      BY <1>3, <3>1
    <3>3. CASE a = s /\ b # s
      <4>1. pos[n] < pos[b]
        BY <2>4, <2>5, <3>1, <3>3
      <4>2. b = n \/ pos[b] < pos[n] \/ b = s \/ pos[s] < pos[b]
        BY <2>2, <3>1, Basics DEF NextIs, At
      <4> QED
        BY <2>4, <3>1, <3>2, <3>3, <4>1, <4>2
    <3>4. CASE a # s /\ b = s
      BY <2>4, <2>5, <3>1, <3>2, <3>4
    <3>5. CASE a = s /\ b = s
      BY <2>4, <2>5, <3>5
    <3>6. CASE a # s /\ b # s
      BY <2>4, <2>5, <3>1, <3>6
    <3> QED
      BY <3>3, <3>4, <3>5, <3>6
  <2> QED
    BY <1>3, <1>15, <2>1, <2>3, <2>5, Reorder
<1>18. PICK q : q = EraseTwoChildren(x, n).rebalance
  OBVIOUS
<1>19. q = IF c = NIL /\ s \in x.black THEN p ELSE NIL
  BY <1>1, <1>4, <1>7, <1>18 DEF EraseTwoChildren, IsBlack
<1>20. p \in Node /\ p # NIL /\ p \in Link /\ x.up[s] # NIL /\ x.up[s] \in Link /\ x.up[s] # s
  <2>1. s = r => x.up[s] = n
    BY <1>2 DEF TwoSite
  <2>2. s # r => x.up[s] \in Node /\ x.up[s] # s
    BY <1>2 DEF TwoSite
  <2> QED
    BY <1>4, <1>7, <2>1, <2>2, Basics
<1>21. p = Renamed(x.up[s], n, s) /\ p # n
  BY <1>2, <1>4, <1>7 DEF TwoSite, Renamed
<1>22. ASSUME q = NIL PROVE Rest(z)
  <2>1. Rest(y)
    BY <1>12, <1>19, <1>20, <1>22 DEF SpliceOutcome
  <2>2. PICK g : Balanced(y, g)
    BY <2>1 DEF Rest
  <2>3. Coloured(z, NIL)
    BY <1>7, <1>10, <1>11, <1>13, <1>14, <1>15, <2>1, ReplaceColoured DEF Rest
  <2>4. y \in Tree /\ z \in Tree
    BY <1>10, <1>15 DEF Links
  <2>5. Gapped(y, g, NIL, "left")
    BY <2>2, <2>4, NoGap, Basics
  <2>6. PICK g2 \in [Link -> Nat] : Gapped(z, g2, Renamed(NIL, n, s), "left")
    BY <1>7, <1>10, <1>11, <1>13, <1>14, <2>5, ReplaceGapped, Basics
  <2>7. Renamed(NIL, n, s) = NIL
    BY <1>7 DEF Renamed
  <2>8. Balanced(z, g2)
    BY <2>4, <2>6, <2>7, NoGap, Basics
  <2> QED
    BY <2>3, <2>8 DEF Rest
<1>23. ASSUME q # NIL
       PROVE  \E d \in Side, g \in [Link -> Nat] :
                 Erasing(z, g, NIL, q, d) /\ z.kid[q][Other(d)] # NIL
  <2>1. c = NIL /\ s \in x.black /\ q = p
    BY <1>19, <1>23
  <2>2. PICK d \in Side, g \in [Link -> Nat] :
           Erasing(y, g, NIL, x.up[s], d) /\ y.kid[x.up[s]][Other(d)] # NIL
    BY <1>12, <1>20, <2>1 DEF SpliceOutcome
  <2>3. /\ Coloured(y, NIL) /\ Gapped(y, g, x.up[s], d) /\ x.up[s] \in InTree(y)
        /\ y.kid[x.up[s]][d] = NIL
    BY <2>2 DEF Erasing
  <2>4. Coloured(z, NIL)
    BY <1>7, <1>10, <1>11, <1>13, <1>14, <1>15, <2>3, ReplaceColoured
  <2>5. PICK g2 \in [Link -> Nat] : Gapped(z, g2, p, d)
    BY <1>7, <1>10, <1>11, <1>13, <1>14, <1>20, <1>21, <2>3, ReplaceGapped
  <2>6. p \in InTree(z)
    BY <1>15, <1>21, <2>3 DEF Renamed
  <2>7. ASSUME NEW f \in Side PROVE z.kid[p][f] = Renamed(y.kid[x.up[s]][f], n, s)
    <3>1. z.kid[p][f] = IF p = n THEN NIL ELSE IF p = s THEN y.kid[n][f]
                        ELSE IF y.kid[p][f] = n THEN s ELSE y.kid[p][f]
      BY <1>13, <1>20 DEF Replaced
    <3>2. CASE x.up[s] = n
      <4>1. p = s
        BY <1>21, <3>2 DEF Renamed
      <4>2. y.kid[n][f] # n
        BY <1>7, <1>10, <1>11, <1>14, ReplaceFacts DEF ReplaceSite
      <4> QED
        BY <1>7, <3>1, <3>2, <4>1, <4>2 DEF Renamed
    <3>3. CASE x.up[s] # n
      <4>1. p = x.up[s]
        BY <1>21, <3>3 DEF Renamed
      <4> QED
        BY <1>20, <1>21, <3>1, <4>1 DEF Renamed
    <3> QED
      BY <3>2, <3>3
  <2>8. z.kid[p][d] = NIL
    BY <1>7, <2>3, <2>7 DEF Renamed
  <2>9. z.kid[p][Other(d)] # NIL
    <3>1. Other(d) \in Side
      BY Basics
    <3> QED
      BY <1>7, <2>2, <2>7, <3>1 DEF Renamed
  <2>10. Erasing(z, g2, NIL, p, d)
    BY <2>4, <2>5, <2>6, <2>8 DEF Erasing
  <2> QED
    BY <2>1, <2>9, <2>10
<1>24. Erased(z, q, pos)
  BY <1>15, <1>17, <1>19, <1>20, <1>22, <1>23, Basics DEF Erased
<1> QED
  BY <1>5, <1>16, <1>18, <1>24

\* rb_erase takes n out, and tells where a black node is missing.
LEMMA EraseErases ==
    ASSUME NEW x, NEW S, NEW pos, Links(x), Shape(x, S, pos), NEW h,
           Coloured(x, NIL), Balanced(x, h), NEW n \in InTree(x)
    PROVE  /\ Erased(Forget(__rb_erase_augmented(x, n).tree, n),
                     __rb_erase_augmented(x, n).rebalance, pos)
           /\ InTree(Forget(__rb_erase_augmented(x, n).tree, n)) = InTree(x) \ {n}
<1>1. CASE x.kid[n]["left"] = NIL
  <2>1. OnlyChild(x, n, x.kid[n]["right"])
    BY <1>1, Basics DEF OnlyChild
  <2>2. __rb_erase_augmented(x, n) = EraseOneChild(x, n, x.kid[n]["right"])
    BY <1>1 DEF __rb_erase_augmented
  <2> QED
    BY <2>1, <2>2, EraseOneErases
<1>2. CASE x.kid[n]["left"] # NIL /\ x.kid[n]["right"] = NIL
  <2>1. OnlyChild(x, n, x.kid[n]["left"])
    BY <1>2, Basics DEF OnlyChild
  <2>2. __rb_erase_augmented(x, n) = EraseOneChild(x, n, x.kid[n]["left"])
    BY <1>2 DEF __rb_erase_augmented
  <2> QED
    BY <2>1, <2>2, EraseOneErases
<1>3. CASE x.kid[n]["left"] # NIL /\ x.kid[n]["right"] # NIL
  <2>1. __rb_erase_augmented(x, n) = EraseTwoChildren(x, n)
    BY <1>3 DEF __rb_erase_augmented
  <2> QED
    BY <1>3, <2>1, EraseTwoErases
<1> QED
  BY <1>1, <1>2, <1>3

\* rb_erase takes one node out; the others keep their order, and the loop
\* that restores the balance starts in the state its comments describe.
LEMMA EraseKeeps ==
    ASSUME NEW S, NEW pos, NEW h, TreeState(S, pos, h), NEW n \in InTree(t), rb_erase(n)
    PROVE  /\ InTree(t') = InTree(t) \ {n}
           /\ \E S2, h2 : TreeState(S2, pos, h2)'
<1>1. PICK e : e = __rb_erase_augmented(t, n)
  OBVIOUS
<1>2. /\ pc = "idle" /\ t' = Forget(e.tree, n) /\ node' = NIL /\ parent' = e.rebalance
      /\ pc' = IF e.rebalance = NIL THEN "idle" ELSE "erase"
  BY <1>1 DEF rb_erase
<1>3. Links(t) /\ Shape(t, S, pos) /\ Coloured(t, NIL) /\ Balanced(t, h)
  BY <1>2 DEF TreeState, LoopState
<1>4. /\ Erased(Forget(e.tree, n), e.rebalance, pos)
      /\ InTree(Forget(e.tree, n)) = InTree(t) \ {n}
  BY <1>1, <1>3, EraseErases
<1>5. Erased(t', parent', pos) /\ InTree(t') = InTree(t) \ {n}
  BY <1>2, <1>4
<1>6. PICK S2 : Shape(t', S2, pos)
  BY <1>5 DEF Erased
<1>7. Links(t') /\ parent' \in Link
  BY <1>5 DEF Erased
<1>8. CASE parent' = NIL
  <2>1. Rest(t')
    BY <1>5, <1>8 DEF Erased
  <2>2. PICK h2 : Balanced(t', h2)
    BY <2>1 DEF Rest
  <2>3. LoopState(h2)'
    BY <1>2, <1>8, <2>1, <2>2 DEF LoopState, Rest
  <2> QED
    BY <1>5, <1>6, <1>7, <2>3 DEF TreeState
<1>9. CASE parent' # NIL
  <2>1. PICK d \in Side, h2 \in [Link -> Nat] :
           Erasing(t', h2, NIL, parent', d) /\ t'.kid[parent'][Other(d)] # NIL
    BY <1>5, <1>9 DEF Erased
  <2>2. NodeSide' = d
    <3>1. t'.kid[parent'][d] = NIL
      BY <2>1 DEF Erasing
    <3>2. NodeSide' = IF node' # t'.kid[parent']["right"] THEN "left" ELSE "right"
      BY DEF NodeSide
    <3> QED
      BY <1>2, <2>1, <3>1, <3>2, Basics
  <2>3. LoopState(h2)'
    BY <1>2, <1>9, <2>1, <2>2 DEF LoopState
  <2> QED
    BY <1>5, <1>6, <1>7, <2>3 DEF TreeState
<1> QED
  BY <1>8, <1>9

\* rb_replace_node puts one node in the place of another.
LEMMA ReplaceKeeps ==
    ASSUME NEW S, NEW pos, NEW h, TreeState(S, pos, h), pc = "idle",
           NEW old \in InTree(t), NEW new \in Node, new \notin InTree(t),
           t' = Forget(rb_replace_node(t, old, new), old),
           UNCHANGED <<pc, node, parent>>
    PROVE  /\ InTree(t') = (InTree(t) \ {old}) \cup {new}
           /\ \E S2, h2 : TreeState(S2, ReplacePos(pos, old, new), h2)'
<1>1. /\ Links(t) /\ Shape(t, S, pos) /\ Coloured(t, NIL) /\ Balanced(t, h) /\ t \in Tree
      /\ node = NIL /\ parent = NIL
  BY DEF TreeState, LoopState, Links
<1>2. PICK z : z = Forget(rb_replace_node(t, old, new), old)
  OBVIOUS
<1>3. Replaced(t, z, old, new)
  BY <1>1, <1>2, ReplaceFields
<1>4. /\ Links(z) /\ InTree(z) = (InTree(t) \ {old}) \cup {new}
      /\ \E S2 : Shape(z, S2, ReplacePos(pos, old, new))
  BY <1>1, <1>3, ReplaceShape
<1>5. Coloured(z, NIL)
  BY <1>1, <1>3, <1>4, ReplaceColoured
<1>6. Gapped(t, h, NIL, "left")
  BY <1>1, NoGap, Basics
<1>7. PICK h2 \in [Link -> Nat] : Gapped(z, h2, Renamed(NIL, old, new), "left")
  BY <1>1, <1>3, <1>6, ReplaceGapped, Basics
<1>8. Renamed(NIL, old, new) = NIL /\ z \in Tree
  BY <1>4, Basics DEF Renamed, InTree, Links
<1>9. Balanced(z, h2)
  BY <1>7, <1>8, NoGap, Basics
<1>10. PICK S2 : Shape(z, S2, ReplacePos(pos, old, new))
  BY <1>4
<1>11. t' = z
  BY <1>2
<1>12. LoopState(h2)'
  BY <1>1, <1>5, <1>9, <1>11 DEF LoopState
<1> QED
  BY <1>4, <1>10, <1>11, <1>12 DEF TreeState

\* The empty tree is a red-black tree.
LEMMA EmptyFacts ==
    /\ InTree(EmptyTree) = {} /\ Links(EmptyTree) /\ Coloured(EmptyTree, NIL)
    /\ \A pos \in [Node -> Int] : Shape(EmptyTree, [l \in Link |-> IF l = NIL THEN {} ELSE {l}], pos)
    /\ Balanced(EmptyTree, [l \in Link |-> 0])
<1>1. PICK x : x = EmptyTree
  OBVIOUS
<1>2. /\ x \in Tree /\ x.root = NIL /\ x.black = {}
      /\ \A m \in Node : x.up[m] = NIL /\ \A d \in Side : x.kid[m][d] = NIL
  BY <1>1, Basics DEF EmptyTree, NoKids, Tree
<1>3. InTree(x) = {}
  BY <1>2, Basics DEF InTree
<1>4. Links(x)
  BY <1>2 DEF Links
<1>5. Coloured(x, NIL)
  BY <1>2, <1>3 DEF Coloured
<1>6. PICK S : S = [l \in Link |-> IF l = NIL THEN {} ELSE {l}]
  OBVIOUS
<1>7. S \in [Link -> SUBSET Node] /\ S[NIL] = {} /\ \A m \in Node : S[m] = {m}
  BY <1>6, Basics
<1>8. \A pos \in [Node -> Int] : Shape(x, S, pos)
  BY <1>2, <1>3, <1>7, Basics DEF Shape
<1>9. PICK h : h = [l \in Link |-> 0]
  OBVIOUS
<1>10. h \in [Link -> Nat] /\ \A l \in Link : h[l] = 0
  BY <1>9
<1>11. Balanced(x, h)
  BY <1>2, <1>10, Basics DEF Balanced
<1> QED
  BY <1>1, <1>3, <1>4, <1>5, <1>6, <1>8, <1>9, <1>11

\* A tree that was just created or freed.
LEMMA EmptyState ==
    ASSUME t = EmptyTree, pc = "idle", node = NIL, parent = NIL, NEW pos \in [Node -> Int]
    PROVE  InTree(t) = {} /\ \E S, h : TreeState(S, pos, h)
<1>1. PICK S, h : S = [l \in Link |-> IF l = NIL THEN {} ELSE {l}] /\ h = [l \in Link |-> 0]
  OBVIOUS
<1>2. Shape(t, S, pos) /\ Balanced(t, h)
  BY <1>1, EmptyFacts
<1>3. TreeState(S, pos, h)
  BY <1>2, EmptyFacts DEF TreeState, LoopState
<1> QED
  BY <1>3, EmptyFacts

----------------------------------------------------------------------------
(* Going down the tree: at each node m to the side dir[m].                 *)

\* Nodes at the side that a node is left by are left by the same side.
Leads(x, pos, dir) ==
    /\ dir \in [Node -> Side]
    /\ \A a, m \in InTree(x) : At(pos, a, Other(dir[m]), m) => dir[a] = dir[m]

\* f leads from each node to the free place below it, turning as dir says.
PlaceEq(x, dir, f) ==
    f = [m \in Node |-> IF x.kid[m][dir[m]] = NIL THEN <<m, dir[m]>>
                                                  ELSE f[x.kid[m][dir[m]]]]

\* Such a function exists.
LEMMA PlaceExists ==
    ASSUME NEW x, NEW S, NEW pos, Links(x), Shape(x, S, pos), NEW dir \in [Node -> Side]
    PROVE  \E f : PlaceEq(x, dir, f)
<1>1. PICK V : V = Link \X Side
  OBVIOUS
<1>2. PICK base : base = <<NIL, "left">>
  OBVIOUS
<1>3. base \in V
  BY <1>1, <1>2, Basics
<1>4. PICK G : G = [q \in Node \X V \X V |->
                      IF x.kid[q[1]][dir[q[1]]] = NIL THEN <<q[1], dir[q[1]]>>
                      ELSE IF dir[q[1]] = "left" THEN q[2] ELSE q[3]]
  OBVIOUS
<1>5. \A m \in Node, v, w \in V :
         (IF x.kid[m][dir[m]] = NIL THEN <<m, dir[m]>>
          ELSE IF dir[m] = "left" THEN v ELSE w) \in V
  BY <1>1, Basics
<1>6. G \in [Node \X V \X V -> V]
  BY <1>4, <1>5
<1>7. \A m \in Node, v, w \in V :
         G[<<m, v, w>>] = IF x.kid[m][dir[m]] = NIL THEN <<m, dir[m]>>
                          ELSE IF dir[m] = "left" THEN v ELSE w
  BY <1>4
<1>8. PICK f : Recurses(x, f, V, base, G)
  BY <1>3, <1>6, Recursion
<1>9. \A m \in Node, d \in Side : x.kid[m][d] \in Link
  BY TreeFields DEF Links
<1>10. ASSUME NEW m \in Node
       PROVE  f[m] = IF x.kid[m][dir[m]] = NIL THEN <<m, dir[m]>> ELSE f[x.kid[m][dir[m]]]
  <2>1. f[m] = G[<<m, f[x.kid[m]["left"]], f[x.kid[m]["right"]]>>]
    BY <1>8 DEF Recurses
  <2>2. f[x.kid[m]["left"]] \in V /\ f[x.kid[m]["right"]] \in V
    BY <1>8, <1>9, Basics DEF Recurses
  <2>3. dir[m] = "left" \/ dir[m] = "right"
    BY Basics
  <2> QED
    BY <1>7, <2>1, <2>2, <2>3, Basics
<1>11. PICK g : g = [m \in Node |-> f[m]]
  OBVIOUS
<1>12. ASSUME NEW m \in Node
       PROVE  g[m] = IF x.kid[m][dir[m]] = NIL THEN <<m, dir[m]>> ELSE g[x.kid[m][dir[m]]]
  <2>1. x.kid[m][dir[m]] # NIL => x.kid[m][dir[m]] \in Node
    BY <1>9, Basics
  <2> QED
    BY <1>10, <1>11, <2>1
<1>13. g = [m \in Node |-> g[m]]
  BY <1>11
<1>14. PlaceEq(x, dir, g)
  BY <1>12, <1>13 DEF PlaceEq
<1> QED
  BY <1>14

\* The place <<p, s>> lies at side d of the node a.
PlaceAt(pos, p, s, d, a) == (a = p /\ d = s) \/ At(pos, p, d, a)

\* at is the free place below m between the nodes that dir turns from.
PlaceIs(x, S, pos, dir, m, at) ==
    \E p \in S[m] : /\ at = <<p, dir[p]>> /\ x.kid[p][dir[p]] = NIL
                    /\ \A a \in S[m] : PlaceAt(pos, p, dir[p], dir[a], a)

\* The search below a node of the tree ends there.
LEMMA PlaceFacts ==
    ASSUME NEW x, NEW S, NEW pos, Links(x), Shape(x, S, pos), Clean(x, S),
           NEW dir, Leads(x, pos, dir), NEW f, PlaceEq(x, dir, f)
    PROVE  \A m \in InTree(x) : PlaceIs(x, S, pos, dir, m, f[m])
<1> DEFINE T == { m \in Node : m \in InTree(x) => PlaceIs(x, S, pos, dir, m, f[m]) }
<1>1. KidFacts(x, S, pos) /\ pos \in [Node -> Int] /\ InTree(x) \subseteq Node
  BY ShapeFacts DEF Shape, InTree
<1>2. dir \in [Node -> Side]
  BY DEF Leads
<1>3. ASSUME NEW m \in Node, \A d \in Side : x.kid[m][d] = NIL \/ x.kid[m][d] \in T
      PROVE  m \in T
  <2>1. SUFFICES ASSUME m \in InTree(x) PROVE PlaceIs(x, S, pos, dir, m, f[m])
    OBVIOUS
  <2>2. PICK d \in Side, o \in Side : d = dir[m] /\ o = Other(d) /\ Other(o) = d
    BY <1>2, Basics
  <2>3. S[m] = {m} \cup S[x.kid[m][d]] \cup S[x.kid[m][o]]
    <3>1. S[m] = {m} \cup S[x.kid[m]["left"]] \cup S[x.kid[m]["right"]]
      BY DEF Shape
    <3> QED
      BY <2>2, <3>1, Basics
  <2>4. S[m] \subseteq InTree(x) /\ m \in S[m]
    BY <1>1, <2>1 DEF Clean, KidFacts
  <2>5. f[m] = IF x.kid[m][d] = NIL THEN <<m, d>> ELSE f[x.kid[m][d]]
    BY <2>2 DEF PlaceEq
  <2>6. ASSUME NEW a \in S[x.kid[m][o]]
        PROVE  a \in Node /\ dir[a] = d /\ At(pos, m, d, a)
    <3>1. a \in InTree(x) /\ a \in Node
      BY <1>1, <2>3, <2>4
    <3>2. At(pos, a, o, m)
      BY DEF Shape
    <3>3. dir[a] = d
      BY <2>1, <2>2, <3>1, <3>2 DEF Leads
    <3>4. At(pos, m, d, a)
      BY <1>1, <2>2, <3>1, <3>2, AtFacts
    <3> QED
      BY <3>1, <3>3, <3>4
  <2>7. CASE x.kid[m][d] = NIL
    <3>1. S[x.kid[m][d]] = {}
      BY <2>7 DEF Shape
    <3>2. \A a \in S[m] : PlaceAt(pos, m, dir[m], dir[a], a)
      BY <2>2, <2>3, <2>6, <3>1 DEF PlaceAt
    <3> QED
      BY <2>2, <2>4, <2>5, <2>7, <3>2 DEF PlaceIs
  <2>8. CASE x.kid[m][d] # NIL
    <3>1. PICK k \in Node : k = x.kid[m][d]
      BY <1>1, <2>8 DEF KidFacts
    <3>2. k \in InTree(x) /\ k \in T
      <4>1. x.up[k] = m /\ m # NIL
        BY <1>1, <2>8, <3>1, Basics DEF KidFacts
      <4> QED
        BY <1>3, <2>8, <3>1, <4>1 DEF InTree
    <3>3. PICK p \in S[k] : /\ f[k] = <<p, dir[p]>> /\ x.kid[p][dir[p]] = NIL
                            /\ \A a \in S[k] : PlaceAt(pos, p, dir[p], dir[a], a)
      BY <3>2 DEF PlaceIs
    <3>4. p \in S[m] /\ p \in Node /\ At(pos, p, d, m)
      BY <1>1, <2>3, <3>1 DEF Shape, KidFacts
    <3>5. ASSUME NEW a \in S[m] PROVE PlaceAt(pos, p, dir[p], dir[a], a)
      <4>1. CASE a = m
        BY <2>2, <3>4, <4>1 DEF PlaceAt
      <4>2. CASE a \in S[k]
        BY <3>3, <4>2
      <4>3. CASE a \in S[x.kid[m][o]]
        <5>1. a \in Node /\ dir[a] = d /\ At(pos, m, d, a)
          BY <2>6, <4>3
        <5>2. At(pos, p, d, a)
          BY <1>1, <3>4, <5>1, AtFacts
        <5> QED
          BY <5>1, <5>2 DEF PlaceAt
      <4> QED
        BY <2>3, <3>1, <4>1, <4>2, <4>3
    <3>6. f[m] = <<p, dir[p]>>
      BY <2>5, <2>8, <3>1, <3>3
    <3> QED
      BY <3>3, <3>4, <3>5, <3>6 DEF PlaceIs
  <2> QED
    BY <2>7, <2>8
<1>4. Node \subseteq T
  <2> HIDE DEF T
  <2> QED
    BY <1>3, DownInduction
<1> QED
  BY <1>1, <1>4

\* Where a search from the root ends, and a node n linked there.
Arrives(x, pos, dir, n, p, s) ==
    /\ FreePlace(x, p, s)
    /\ \A a \in InTree(x) : At(PosWith(pos, n, p, s), n, dir[a], a)

\* So does the search from the root.
LEMMA PlaceArrives ==
    ASSUME NEW x, NEW S, NEW pos, Links(x), Shape(x, S, pos),
           NEW dir, Leads(x, pos, dir), NEW f, PlaceEq(x, dir, f),
           NEW n \in Node, n \notin InTree(x),
           NEW at, at = IF x.root = NIL THEN <<NIL, "left">> ELSE f[x.root]
    PROVE  Arrives(x, pos, dir, n, at[1], at[2])
<1>1. PICK S1 : Shape(x, S1, pos) /\ Clean(x, S1)
  BY CleanShape
<1>2. KidFacts(x, S1, pos) /\ pos \in [Node -> Int] /\ InTree(x) \subseteq Node /\ dir \in [Node -> Side]
  BY <1>1, ShapeFacts DEF Shape, InTree, Leads
<1>3. S1[x.root] = InTree(x) /\ S1[NIL] = {}
  BY <1>1 DEF Shape
<1>4. CASE x.root = NIL
  <2>1. at[1] = NIL /\ at[2] = "left"
    BY <1>4
  <2> QED
    BY <1>3, <1>4, <2>1, Basics DEF Arrives, FreePlace
<1>5. CASE x.root # NIL
  <2>1. x.root \in Node /\ x.root \in InTree(x) /\ at = f[x.root]
    BY <1>5, TreeFields, Basics DEF InTree, Links
  <2>2. PlaceIs(x, S1, pos, dir, x.root, f[x.root])
    BY <1>1, <2>1, PlaceFacts
  <2>3. PICK p \in InTree(x) : /\ f[x.root] = <<p, dir[p]>> /\ x.kid[p][dir[p]] = NIL
                               /\ \A a \in InTree(x) : PlaceAt(pos, p, dir[p], dir[a], a)
    BY <1>3, <2>2 DEF PlaceIs
  <2>4. PICK s \in Side : s = dir[p]
    BY <1>2, <2>3
  <2>5. at[1] = p /\ at[2] = s
    BY <2>1, <2>3, <2>4
  <2>6. FreePlace(x, p, s)
    BY <2>3, <2>4 DEF FreePlace
  <2>7. ASSUME NEW a \in InTree(x) PROVE At(PosWith(pos, n, p, s), n, dir[a], a)
    <3>1. PICK pos2 : pos2 = PosWith(pos, n, p, s)
      OBVIOUS
    <3>2. a \in Node /\ a # n /\ p \in Node /\ p # NIL /\ pos[a] \in Int /\ pos[p] \in Int
      BY <1>2, <2>3, Basics
    <3>3. pos2[a] = 2 * pos[a] /\ pos2[n] = IF s = "left" THEN 2 * pos[p] - 1 ELSE 2 * pos[p] + 1
      BY <3>1, <3>2 DEF PosWith
    <3>4. dir[a] \in {"left", "right"} /\ s \in {"left", "right"}
      BY <1>2, <3>2, Basics
    <3>5. PlaceAt(pos, p, s, dir[a], a)
      BY <2>3, <2>4
    <3>6. At(pos2, n, dir[a], a)
      <4>1. CASE a = p /\ dir[a] = s
        BY <3>2, <3>3, <3>4, <4>1 DEF At
      <4>2. CASE At(pos, p, dir[a], a)
        BY <3>2, <3>3, <3>4, <4>2 DEF At
      <4> QED
        BY <3>5, <4>1, <4>2 DEF PlaceAt
    <3> QED
      BY <3>1, <3>6
  <2> QED
    BY <2>5, <2>6, <2>7 DEF Arrives
<1> QED
  BY <1>4, <1>5
----------------------------------------------------------------------------
(* Searching the tree: down to side dir[m] until a node of H is met.       *)

\* What the function of a search satisfies.
SearchEq(x, H, dir, f) ==
    f = [m \in Link |-> IF m = NIL THEN NIL ELSE IF m \in H THEN m
                        ELSE f[x.kid[m][dir[m]]]]

\* A search comes to an end.
LEMMA SearchExists ==
    ASSUME NEW x, NEW S, NEW pos, Links(x), Shape(x, S, pos), NEW dir \in [Node -> Side],
           NEW H
    PROVE  \E f : SearchEq(x, H, dir, f)
<1>1. NIL \in Link
  BY Basics
<1>2. PICK G : G = [q \in Node \X Link \X Link |->
                      IF q[1] \in H THEN q[1] ELSE IF dir[q[1]] = "left" THEN q[2] ELSE q[3]]
  OBVIOUS
<1>3. \A m \in Node, v, w \in Link :
         (IF m \in H THEN m ELSE IF dir[m] = "left" THEN v ELSE w) \in Link
  BY Basics
<1>4. G \in [Node \X Link \X Link -> Link]
  BY <1>2, <1>3
<1>5. \A m \in Node, v, w \in Link :
         G[<<m, v, w>>] = IF m \in H THEN m ELSE IF dir[m] = "left" THEN v ELSE w
  BY <1>2
<1>6. PICK f : Recurses(x, f, Link, NIL, G)
  BY <1>1, <1>4, Recursion
<1>7. \A m \in Node, d \in Side : x.kid[m][d] \in Link
  BY TreeFields DEF Links
<1>8. ASSUME NEW m \in Node
       PROVE  f[m] = IF m \in H THEN m ELSE f[x.kid[m][dir[m]]]
  <2>1. f[m] = G[<<m, f[x.kid[m]["left"]], f[x.kid[m]["right"]]>>]
    BY <1>6 DEF Recurses
  <2>2. f[x.kid[m]["left"]] \in Link /\ f[x.kid[m]["right"]] \in Link
    BY <1>6, <1>7, Basics DEF Recurses
  <2>3. dir[m] = "left" \/ dir[m] = "right"
    BY Basics
  <2> QED
    BY <1>5, <2>1, <2>2, <2>3, Basics
<1>9. f \in [Link -> Link] /\ f[NIL] = NIL
  BY <1>6 DEF Recurses
<1>10. SearchEq(x, H, dir, f)
  BY <1>8, <1>9, Basics DEF SearchEq
<1> QED
  BY <1>10

\* What a search of the nodes A finds: a node of H, or none because every node lies
\* behind one that the search does not stop at and turns away from.
FoundIs(A, pos, dir, H, r) ==
    /\ r = NIL \/ (r \in A /\ r \in H)
    /\ r = NIL => \A n \in A : \E k \in A :
          k \notin H /\ (n = k \/ At(pos, n, Other(dir[k]), k))

\* What a search below each node finds.
LEMMA SearchFacts ==
    ASSUME NEW x, NEW S, NEW pos, Links(x), Shape(x, S, pos), NEW dir \in [Node -> Side],
           NEW H, NEW f, SearchEq(x, H, dir, f)
    PROVE  \A m \in Link : FoundIs(S[m], pos, dir, H, f[m])
<1> DEFINE T == { m \in Node : FoundIs(S[m], pos, dir, H, f[m]) }
<1>1. KidFacts(x, S, pos) /\ S[NIL] = {}
  BY ShapeFacts DEF Shape
<1>2. FoundIs(S[NIL], pos, dir, H, f[NIL])
  BY <1>1, Basics DEF FoundIs, SearchEq
<1>3. ASSUME NEW m \in Node, \A d \in Side : x.kid[m][d] = NIL \/ x.kid[m][d] \in T
      PROVE  m \in T
  <2>1. f[m] = IF m \in H THEN m ELSE f[x.kid[m][dir[m]]]
    BY Basics DEF SearchEq
  <2>2. m \in S[m] /\ m # NIL
    BY <1>1, Basics DEF KidFacts
  <2>3. CASE m \in H
    BY <2>1, <2>2, <2>3 DEF FoundIs
  <2>4. CASE m \notin H
    <3>1. PICK d \in Side, o \in Side : d = dir[m] /\ o = Other(d)
      BY Basics
    <3>2. PICK k \in Link : k = x.kid[m][d]
      BY <1>1 DEF KidFacts
    <3>3. FoundIs(S[k], pos, dir, H, f[k])
      BY <1>2, <1>3, <3>2
    <3>4. S[m] = {m} \cup S[k] \cup S[x.kid[m][o]]
      <4>1. S[m] = {m} \cup S[x.kid[m]["left"]] \cup S[x.kid[m]["right"]]
        BY DEF Shape
      <4> QED
        BY <3>1, <3>2, <4>1, Basics
    <3>5. f[m] = f[k]
      BY <2>1, <2>4, <3>1, <3>2
    <3>6. \A n \in S[x.kid[m][o]] : At(pos, n, o, m)
      BY DEF Shape
    <3>7. f[k] = NIL \/ (f[k] \in S[m] /\ f[k] \in H)
      BY <3>3, <3>4 DEF FoundIs
    <3>8. ASSUME f[k] = NIL, NEW n \in S[m]
          PROVE  \E j \in S[m] : j \notin H /\ (n = j \/ At(pos, n, Other(dir[j]), j))
      <4>1. CASE n \in S[k]
        BY <3>3, <3>4, <3>8, <4>1 DEF FoundIs
      <4>2. CASE n = m \/ n \in S[x.kid[m][o]]
        BY <2>2, <2>4, <3>1, <3>6, <4>2
      <4> QED
        BY <3>4, <4>1, <4>2
    <3> QED
      BY <3>5, <3>7, <3>8 DEF FoundIs
  <2> QED
    BY <2>3, <2>4
<1>4. Node \subseteq T
  <2> HIDE DEF T
  <2> QED
    BY <1>3, DownInduction
<1> QED
  BY <1>2, <1>4, Basics

\* A search of the whole tree.
LEMMA SearchTree ==
    ASSUME NEW x, NEW S, NEW pos, Links(x), Shape(x, S, pos), NEW dir \in [Node -> Side],
           NEW H, NEW f, SearchEq(x, H, dir, f)
    PROVE  FoundIs(InTree(x), pos, dir, H, f[x.root])
<1>1. x.root \in Link /\ S[x.root] = InTree(x)
  BY TreeFields DEF Links, Shape
<1>2. FoundIs(S[x.root], pos, dir, H, f[x.root])
  BY <1>1, SearchFacts
<1> QED
  BY <1>1, <1>2 DEF FoundIs
----------------------------------------------------------------------------
(* The search of find_kernel_symbol, which remembers the last node that it *)
(* left to the right.                                                      *)

\* What the function of this search satisfies.
FloorEq(x, dir, f) ==
    f = [m \in Link |-> [found \in Link |->
            IF m = NIL THEN found
            ELSE IF dir[m] = "right" THEN f[x.kid[m]["right"]][m]
                                     ELSE f[x.kid[m]["left"]][found]]]

\* This search comes to an end too.
LEMMA FloorExists ==
    ASSUME NEW x, NEW S, NEW pos, Links(x), Shape(x, S, pos), NEW dir \in [Node -> Side]
    PROVE  \E f : FloorEq(x, dir, f)
<1>1. PICK V : V = [Link -> Link]
  OBVIOUS
<1>2. PICK base : base = [l \in Link |-> l]
  OBVIOUS
<1>3. base \in V /\ \A l \in Link : base[l] = l
  BY <1>1, <1>2
<1>4. PICK K : K = [m \in Node |-> [w \in V |-> [found \in Link |-> w[m]]]]
  OBVIOUS
<1>5. /\ \A m \in Node, w \in V : K[m][w] = [found \in Link |-> w[m]]
      /\ \A m \in Node, w \in V : K[m][w] \in V
  <2>1. \A m \in Node : K[m] = [w \in V |-> [found \in Link |-> w[m]]]
    BY <1>4
  <2>2. \A m \in Node, w \in V : K[m][w] = [found \in Link |-> w[m]]
    BY <2>1
  <2>3. \A m \in Node, w \in V : [found \in Link |-> w[m]] \in V
    BY <1>1, Basics
  <2> QED
    BY <2>2, <2>3
<1>6. PICK G : G = [q \in Node \X V \X V |-> IF dir[q[1]] = "right" THEN K[q[1]][q[3]] ELSE q[2]]
  OBVIOUS
<1>7. G \in [Node \X V \X V -> V]
  BY <1>5, <1>6
<1>8. \A m \in Node, v, w \in V : G[<<m, v, w>>] = IF dir[m] = "right" THEN K[m][w] ELSE v
  BY <1>6
<1>9. \A m \in Node, v, w \in V, l \in Link :
         G[<<m, v, w>>][l] = IF dir[m] = "right" THEN w[m] ELSE v[l]
  <2>1. \A m \in Node, w \in V, l \in Link : K[m][w][l] = w[m]
    <3> TAKE m \in Node, w \in V, l \in Link
    <3>1. K[m][w] = [found \in Link |-> w[m]]
      BY <1>5
    <3> QED
      BY <3>1
  <2> QED
    BY <1>8, <2>1
<1>10. PICK f : Recurses(x, f, V, base, G)
  BY <1>3, <1>7, Recursion
<1>11. \A m \in Node, d \in Side : x.kid[m][d] \in Link
  BY TreeFields DEF Links
<1>12. ASSUME NEW m \in Node, NEW found \in Link
       PROVE  f[m][found] = IF dir[m] = "right" THEN f[x.kid[m]["right"]][m]
                                                ELSE f[x.kid[m]["left"]][found]
  <2>1. f[m] = G[<<m, f[x.kid[m]["left"]], f[x.kid[m]["right"]]>>]
    BY <1>10 DEF Recurses
  <2>2. f[x.kid[m]["left"]] \in V /\ f[x.kid[m]["right"]] \in V
    BY <1>10, <1>11, Basics DEF Recurses
  <2> QED
    BY <1>9, <2>1, <2>2
<1>13. f \in [Link -> [Link -> Link]] /\ f[NIL] = base
  BY <1>1, <1>10 DEF Recurses
<1>14. ASSUME NEW m \in Link
       PROVE  f[m] = [found \in Link |->
            IF m = NIL THEN found
            ELSE IF dir[m] = "right" THEN f[x.kid[m]["right"]][m]
                                     ELSE f[x.kid[m]["left"]][found]]
  <2>1. f[m] = [found \in Link |-> f[m][found]]
    BY <1>13
  <2>2. ASSUME NEW found \in Link
        PROVE  f[m][found] = IF m = NIL THEN found
                             ELSE IF dir[m] = "right" THEN f[x.kid[m]["right"]][m]
                                                      ELSE f[x.kid[m]["left"]][found]
    <3>1. CASE m = NIL
      BY <1>3, <1>13, <3>1
    <3>2. CASE m # NIL
      BY <1>12, <3>2, Basics
    <3> QED
      BY <3>1, <3>2
  <2> QED
    BY <2>1, <2>2
<1>15. FloorEq(x, dir, f)
  <2>1. f = [m \in Link |-> f[m]]
    BY <1>13
  <2> QED
    BY <1>14, <2>1 DEF FloorEq
<1> QED
  BY <1>15

\* What this search finds among the nodes A: the last one that it leaves to
\* the right, or what was found before.
FloorIs(A, pos, dir, found, r) ==
    \/ r = found /\ \A n \in A : dir[n] = "left"
    \/ /\ r \in A /\ dir[r] = "right"
       /\ \A n \in A : dir[n] = "right" => n = r \/ At(pos, n, "left", r)

\* What it finds below each node.
LEMMA FloorFacts ==
    ASSUME NEW x, NEW S, NEW pos, Links(x), Shape(x, S, pos), Clean(x, S),
           NEW dir, Leads(x, pos, dir), NEW f, FloorEq(x, dir, f)
    PROVE  \A m \in InTree(x), found \in Link : FloorIs(S[m], pos, dir, found, f[m][found])
<1> DEFINE T == { m \in Node : m \in InTree(x) =>
                     \A found \in Link : FloorIs(S[m], pos, dir, found, f[m][found]) }
<1>1. KidFacts(x, S, pos) /\ pos \in [Node -> Int] /\ InTree(x) \subseteq Node /\ S[NIL] = {}
  BY ShapeFacts DEF Shape, InTree
<1>2. dir \in [Node -> Side]
  BY DEF Leads
<1>3. ASSUME NEW m \in Node, \A d \in Side : x.kid[m][d] = NIL \/ x.kid[m][d] \in T
      PROVE  m \in T
  <2>1. SUFFICES ASSUME m \in InTree(x), NEW found \in Link
                 PROVE  FloorIs(S[m], pos, dir, found, f[m][found])
    OBVIOUS
  <2>2. PICK l \in Link, r \in Link : l = x.kid[m]["left"] /\ r = x.kid[m]["right"]
    BY <1>1, Basics DEF KidFacts
  <2>3. S[m] = {m} \cup S[l] \cup S[r] /\ m \in S[m] /\ S[m] \subseteq InTree(x)
    BY <1>1, <2>1, <2>2 DEF Shape, KidFacts, Clean
  <2>4. \A d \in Side, z \in Link : FloorIs(S[x.kid[m][d]], pos, dir, z, f[x.kid[m][d]][z])
    <3> TAKE d \in Side, z \in Link
    <3>1. CASE x.kid[m][d] = NIL
      <4>1. f[NIL][z] = z
        BY Basics DEF FloorEq
      <4> QED
        BY <1>1, <3>1, <4>1 DEF FloorIs
    <3>2. CASE x.kid[m][d] # NIL
      <4>1. x.kid[m][d] \in Node /\ x.up[x.kid[m][d]] = m /\ m # NIL
        BY <1>1, <3>2, Basics DEF KidFacts
      <4>2. x.kid[m][d] \in InTree(x) /\ x.kid[m][d] \in T
        BY <1>3, <3>2, <4>1 DEF InTree
      <4> QED
        BY <4>2
    <3> QED
      BY <3>1, <3>2
  <2>5. f[m][found] = IF dir[m] = "right" THEN f[r][m] ELSE f[l][found]
    <3>1. f[m] = [z \in Link |-> IF m = NIL THEN z
            ELSE IF dir[m] = "right" THEN f[x.kid[m]["right"]][m] ELSE f[x.kid[m]["left"]][z]]
      BY Basics DEF FloorEq
    <3> QED
      BY <2>2, <3>1, Basics
  <2>6. \A n \in S[l] : At(pos, n, "left", m)
    BY <2>2, Basics DEF Shape
  <2>7. \A n \in S[r] : At(pos, n, "right", m)
    BY <2>2, Basics DEF Shape
  <2>8. FloorIs(S[r], pos, dir, m, f[r][m]) /\ FloorIs(S[l], pos, dir, found, f[l][found])
    BY <2>2, <2>4, Basics
  <2>9. CASE dir[m] = "right"
    <3>1. PICK z : z = f[r][m]
      OBVIOUS
    <3>2. CASE z = m /\ \A n \in S[r] : dir[n] = "left"
      <4>1. \A n \in S[m] : dir[n] = "right" => n = m \/ At(pos, n, "left", m)
        BY <2>3, <2>6, <3>2, Basics
      <4> QED
        BY <2>3, <2>5, <2>9, <3>1, <3>2, <4>1 DEF FloorIs
    <3>3. CASE /\ z \in S[r] /\ dir[z] = "right"
               /\ \A n \in S[r] : dir[n] = "right" => n = z \/ At(pos, n, "left", z)
      <4>1. z \in Node /\ z \in S[m] /\ At(pos, z, "right", m)
        BY <1>1, <2>3, <2>7, <3>3
      <4>2. At(pos, m, "left", z)
        BY <1>1, <4>1, AtFacts, Basics
      <4>3. ASSUME NEW n \in S[l] PROVE At(pos, n, "left", z)
        <5>1. n \in Node /\ At(pos, n, "left", m)
          BY <1>1, <2>3, <2>6
        <5> QED
          BY <1>1, <4>1, <4>2, <5>1, AtFacts, Basics
      <4>4. \A n \in S[m] : dir[n] = "right" => n = z \/ At(pos, n, "left", z)
        BY <2>3, <3>3, <4>2, <4>3
      <4> QED
        BY <2>5, <2>9, <3>1, <3>3, <4>1, <4>4 DEF FloorIs
    <3> QED
      BY <2>8, <3>1, <3>2, <3>3 DEF FloorIs
  <2>10. CASE dir[m] = "left"
    <3>1. ASSUME NEW n \in S[r] PROVE dir[n] = "left"
      <4>1. n \in InTree(x) /\ At(pos, n, Other(dir[m]), m)
        BY <2>3, <2>7, <2>10, Basics
      <4> QED
        BY <2>1, <2>10, <4>1 DEF Leads
    <3>2. f[m][found] = f[l][found]
      BY <2>5, <2>10, Basics
    <3>3. \A n \in S[m] : n \in S[l] \/ dir[n] = "left"
      BY <2>3, <2>10, <3>1
    <3>4. S[l] \subseteq S[m]
      BY <2>3
    <3> QED
      BY <2>8, <3>2, <3>3, <3>4, Basics DEF FloorIs
  <2> QED
    BY <1>2, <2>9, <2>10, Basics
<1>4. Node \subseteq T
  <2> HIDE DEF T
  <2> QED
    BY <1>3, DownInduction
<1> QED
  BY <1>1, <1>4

\* The same for the whole tree.
LEMMA FloorTree ==
    ASSUME NEW x, NEW S, NEW pos, Links(x), Shape(x, S, pos),
           NEW dir, Leads(x, pos, dir), NEW f, FloorEq(x, dir, f)
    PROVE  FloorIs(InTree(x), pos, dir, NIL, f[x.root][NIL])
<1>1. PICK S1 : Shape(x, S1, pos) /\ Clean(x, S1)
  BY CleanShape
<1>2. S1[x.root] = InTree(x) /\ S1[NIL] = {} /\ x.root \in Link
  BY <1>1, TreeFields DEF Shape, Links
<1>3. CASE x.root = NIL
  <2>1. f[NIL][NIL] = NIL
    BY Basics DEF FloorEq
  <2> QED
    BY <1>2, <1>3, <2>1 DEF FloorIs
<1>4. CASE x.root # NIL
  <2>1. x.root \in InTree(x)
    BY <1>2, <1>4, Basics DEF InTree
  <2> QED
    BY <1>1, <1>2, <2>1, FloorFacts, Basics
<1> QED
  BY <1>3, <1>4
----------------------------------------------------------------------------
(* Trees in the order of keys.                                             *)

\* The nodes A lie in the order of their keys.
OrderedBy(A, pos, key) ==
    /\ \A a \in A : key[a] \in Int
    /\ \A a, b \in A : pos[a] < pos[b] => key[a] <= key[b]

\* The turns of a search for key k.
Turns(key, k) == [m \in Node |-> IF k < key[m] THEN "left" ELSE "right"]

\* In a tree ordered by keys a search for a key is never misled.
LEMMA KeyLeads ==
    ASSUME NEW x, NEW pos \in [Node -> Int], NEW key, NEW k \in Int,
           OrderedBy(InTree(x), pos, key)
    PROVE  Leads(x, pos, Turns(key, k))
<1>1. PICK dir : dir = Turns(key, k)
  OBVIOUS
<1>2. dir \in [Node -> Side]
  BY <1>1, Basics DEF Turns
<1>3. InTree(x) \subseteq Node
  BY DEF InTree
<1>4. ASSUME NEW a \in InTree(x), NEW m \in InTree(x), At(pos, a, Other(dir[m]), m)
      PROVE  dir[a] = dir[m]
  <2>1. a \in Node /\ m \in Node /\ pos[a] \in Int /\ pos[m] \in Int
    BY <1>3
  <2>2. key[a] \in Int /\ key[m] \in Int
    BY DEF OrderedBy
  <2>3. /\ dir[a] = IF k < key[a] THEN "left" ELSE "right"
        /\ dir[m] = IF k < key[m] THEN "left" ELSE "right"
    BY <1>1, <2>1 DEF Turns
  <2>4. CASE dir[m] = "left"
    <3>1. k < key[m] /\ pos[m] < pos[a]
      BY <1>4, <2>3, <2>4, Basics DEF At
    <3>2. key[m] <= key[a]
      BY <3>1 DEF OrderedBy
    <3>3. k < key[a]
      BY <2>2, <3>1, <3>2
    <3> QED
      BY <2>3, <2>4, <3>3
  <2>5. CASE dir[m] = "right"
    <3>1. ~(k < key[m]) /\ pos[a] < pos[m]
      BY <1>4, <2>3, <2>5, Basics DEF At
    <3>2. key[a] <= key[m]
      BY <3>1 DEF OrderedBy
    <3>3. ~(k < key[a])
      BY <2>2, <3>1, <3>2
    <3> QED
      BY <2>3, <2>5, <3>3
  <2> QED
    BY <1>2, <2>1, <2>4, <2>5, Basics
<1> QED
  BY <1>1, <1>2, <1>4 DEF Leads

\* A node linked where the search for its key ends keeps the order.
LEMMA LinkOrdered ==
    ASSUME NEW x, NEW pos \in [Node -> Int], NEW key, NEW k \in Int,
           OrderedBy(InTree(x), pos, key), NEW n \in Node, n \notin InTree(x), NEW p, NEW s,
           Arrives(x, pos, Turns(key, k), n, p, s),
           NEW key2, key2[n] = k, \A a \in InTree(x) : key2[a] = key[a]
    PROVE  OrderedBy(InTree(x) \cup {n}, PosWith(pos, n, p, s), key2)
<1>1. PICK q : q = PosWith(pos, n, p, s)
  OBVIOUS
<1>2. \A a \in InTree(x) : At(q, n, Turns(key, k)[a], a)
  BY <1>1 DEF Arrives
<1>3. \A a \in InTree(x) : a \in Node /\ a # n /\ key[a] \in Int /\ key2[a] = key[a]
  BY DEF InTree, OrderedBy
<1>4. \A a \in InTree(x) : q[a] = 2 * pos[a]
  BY <1>1, <1>3 DEF PosWith
<1>5. \A a \in InTree(x) : Turns(key, k)[a] = IF k < key[a] THEN "left" ELSE "right"
  BY <1>3 DEF Turns
<1>6. \A a \in InTree(x) : IF k < key[a] THEN q[n] < q[a] ELSE q[a] < q[n]
  BY <1>2, <1>5, Basics DEF At
<1>7. \A a \in InTree(x) \cup {n} : key2[a] \in Int
  BY <1>3
<1>8. q[n] \in Int
  <2>1. p = NIL \/ p \in Node
    BY DEF Arrives, FreePlace, InTree
  <2>2. p # NIL => pos[p] \in Int
    BY <2>1
  <2> QED
    BY <1>1, <2>2 DEF PosWith
<1>9. ASSUME NEW a \in InTree(x) \cup {n}, NEW b \in InTree(x) \cup {n}, q[a] < q[b]
      PROVE  key2[a] <= key2[b]
  <2>1. CASE a \in InTree(x) /\ b \in InTree(x)
    <3>1. pos[a] \in Int /\ pos[b] \in Int
      BY <1>3, <2>1
    <3>2. 2 * pos[a] < 2 * pos[b]
      BY <1>4, <1>9, <2>1
    <3>3. pos[a] < pos[b]
      BY <3>1, <3>2
    <3> QED
      BY <1>3, <2>1, <3>3 DEF OrderedBy
  <2>2. CASE a = n /\ b \in InTree(x)
    <3>1. pos[b] \in Int /\ q[b] = 2 * pos[b] /\ key[b] \in Int
      BY <1>3, <1>4, <2>2
    <3>2. k < key[b]
      BY <1>6, <1>8, <1>9, <2>2, <3>1
    <3> QED
      BY <1>3, <2>2, <3>1, <3>2
  <2>3. CASE a \in InTree(x) /\ b = n
    <3>1. pos[a] \in Int /\ q[a] = 2 * pos[a] /\ key[a] \in Int
      BY <1>3, <1>4, <2>3
    <3>2. ~(k < key[a])
      BY <1>6, <1>8, <1>9, <2>3, <3>1
    <3> QED
      BY <1>3, <2>3, <3>1, <3>2
  <2>4. CASE a = n /\ b = n
    BY <2>4
  <2> QED
    BY <2>1, <2>2, <2>3, <2>4
<1> QED
  BY <1>1, <1>7, <1>9 DEF OrderedBy

\* c is the first of the nodes A, or NIL when there are none: what the loops
\* that empty a tree hold in next.
First(A, pos, c) ==
    IF c = NIL THEN A = {} ELSE c \in A /\ \A a \in A : a = c \/ pos[c] < pos[a]

\* rb_first is the first one.
LEMMA FirstIsFirst ==
    ASSUME NEW x, NEW S, NEW pos, Links(x), Shape(x, S, pos)
    PROVE  First(InTree(x), pos, rb_first(x))
<1>1. EndIs(x, pos, "left", rb_first(x))
  BY EndFacts
<1> QED
  BY <1>1, Basics DEF EndIs, First, At

\* Without the first node, the next one is the first.
LEMMA NextIsFirst ==
    ASSUME NEW x, NEW S, NEW pos, Links(x), Shape(x, S, pos), NEW c, c # NIL,
           First(InTree(x), pos, c)
    PROVE  First(InTree(x) \ {c}, pos, rb_next(x, c))
<1>1. c \in InTree(x) /\ \A a \in InTree(x) : a = c \/ pos[c] < pos[a]
  BY DEF First
<1>2. NextIs(x, pos, c, "right", rb_next(x, c))
  BY <1>1, NeighbourFacts, Basics DEF rb_next
<1>3. PICK b : b = rb_next(x, c)
  OBVIOUS
<1>4. InTree(x) \subseteq Node /\ pos \in [Node -> Int]
  BY DEF InTree, Shape
<1>5. ASSUME NEW a \in InTree(x) \ {c} PROVE b # NIL /\ (a = b \/ pos[b] < pos[a])
  <2>1. a = c \/ At(pos, a, "left", c) \/ (b # NIL /\ (a = b \/ At(pos, a, "right", b)))
    BY <1>2, <1>3, Basics DEF NextIs
  <2>2. pos[a] \in Int /\ pos[c] \in Int /\ pos[c] < pos[a]
    BY <1>1, <1>4
  <2>3. ~At(pos, a, "left", c)
    BY <2>2 DEF At
  <2> QED
    BY <2>1, <2>3, Basics DEF At
<1>6. b # NIL => b \in InTree(x) \ {c}
  <2>1. b # NIL => b \in InTree(x) /\ At(pos, b, "right", c)
    BY <1>2, <1>3 DEF NextIs
  <2>2. ~At(pos, c, "right", c)
    BY <1>1, <1>4, AtFacts, Basics
  <2> QED
    BY <2>1, <2>2
<1> QED
  BY <1>3, <1>5, <1>6 DEF First
=============================================================================
