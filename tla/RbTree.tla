------------------------------- MODULE RbTree -------------------------------
(***************************************************************************)
(* src/utils/rbtree.c: red-black trees, rebalanced by loops over parent    *)
(* pointers.                                                               *)
(*                                                                         *)
(* The tree t is the memory: the root, for each node its parent, its two   *)
(* children, and whether it is black.  Each turn of the loops in           *)
(* __rb_insert and ____rb_erase_color is one action; between two turns pc  *)
(* says which loop runs, and node and parent are its local variables.  The *)
(* code writes every case twice, for a left and for a right child; here    *)
(* the case has a side s, and Other(s) is the opposite one.                *)
(*                                                                         *)
(* Who searches the place of a new node, and when nodes are erased, is up  *)
(* to the users of the tree: see SymbolTrees and BlockCache.               *)
(***************************************************************************)
EXTENDS Naturals, Sequences, FiniteSets

CONSTANTS NumNodes     \* how many nodes there are

ASSUME TreeAssumption == NumNodes \in Nat \ {0}

VARIABLES t,           \* the tree
          pc,          \* "idle", or the loop that runs: "insert", "erase"
          node, parent \* its local variables

treeVars == <<t, pc, node, parent>>

Node  == 1..NumNodes
NIL   == 0
Link  == Node \union {NIL}
Side  == {"left", "right"}
Other(s) == IF s = "left" THEN "right" ELSE "left"

NoKids    == [s \in Side |-> NIL]
EmptyTree == [root |-> NIL, up |-> [n \in Node |-> NIL],
              kid |-> [n \in Node |-> NoKids], black |-> {}]

TInit == t = EmptyTree /\ pc = "idle" /\ node = NIL /\ parent = NIL

----------------------------------------------------------------------------
(* Reading the tree x.                                                     *)

IsRed(x, n)   == n # NIL /\ n \notin x.black
IsBlack(x, n) == n # NIL /\ n \in x.black

\* The nodes of the subtree at n, in order.
InOrder(x, n) ==
    LET f[m \in Link] == IF m = NIL THEN <<>>
                         ELSE f[x.kid[m]["left"]] \o <<m>> \o f[x.kid[m]["right"]]
    IN f[n]

Nodes(x) == LET s == InOrder(x, x.root) IN { s[k] : k \in DOMAIN s }

\* From n down to side s as far as it goes.
Furthest(x, n, s) ==
    LET f[m \in Node] == IF x.kid[m][s] = NIL THEN m ELSE f[x.kid[m][s]]
    IN f[n]

rb_first(x) == IF x.root = NIL THEN NIL ELSE Furthest(x, x.root, "left")
rb_last(x)  == IF x.root = NIL THEN NIL ELSE Furthest(x, x.root, "right")

\* The neighbour of n at side s: down that side if there is a child, else up
\* to the first ancestor that has n at the other side.
Neighbour(x, n, s) ==
    LET climb[m \in Node] == IF x.up[m] # NIL /\ m = x.kid[x.up[m]][s]
                             THEN climb[x.up[m]] ELSE x.up[m]
    IN IF x.kid[n][s] # NIL
       THEN Furthest(x, x.kid[n][s], Other(s))
       ELSE climb[n]

\* Mutant: only nodes with a right child have a successor below them, and
\* the climb stops at the first parent.
next_stops_at_parent(x, n) ==
    IF x.kid[n]["right"] # NIL THEN Furthest(x, x.kid[n]["right"], "left")
                               ELSE x.up[n]

rb_next(x, n) == Neighbour(x, n, "right")
rb_prev(x, n) == Neighbour(x, n, "left")

rb_left_deepest_node(x, n) ==
    LET f[m \in Node] == IF x.kid[m]["left"] # NIL THEN f[x.kid[m]["left"]]
                         ELSE IF x.kid[m]["right"] # NIL
                              THEN f[x.kid[m]["right"]] ELSE m
    IN f[n]

rb_first_postorder(x) ==
    IF x.root = NIL THEN NIL ELSE rb_left_deepest_node(x, x.root)

rb_next_postorder(x, n) ==
    LET p == x.up[n]
    IN IF p # NIL /\ n = x.kid[p]["left"] /\ x.kid[p]["right"] # NIL
       THEN rb_left_deepest_node(x, x.kid[p]["right"])
       ELSE p

----------------------------------------------------------------------------
(* Writing to the tree: each operator gives the tree after the writes.     *)

SetKid(x, n, s, k) == [x EXCEPT !.kid[n][s] = k]

rb_set_parent(x, n, p) == [x EXCEPT !.up[n] = p]

rb_set_parent_color(x, n, p, b) ==
    [x EXCEPT !.up[n] = p,
              !.black = IF b THEN @ \union {n} ELSE @ \ {n}]

\* The same behind "if (n)".
SetIfNode(x, n, p, b) == IF n = NIL THEN x ELSE rb_set_parent_color(x, n, p, b)

__rb_change_child(x, old, new, p) ==
    IF p = NIL THEN [x EXCEPT !.root = new]
    ELSE SetKid(x, p, IF x.kid[p]["left"] = old THEN "left" ELSE "right", new)

\* new takes the parent and the colour of old; old goes below new.
__rb_rotate_set_parents(x, old, new, b) ==
    LET p  == x.up[old]
        x1 == rb_set_parent_color(x, new, p, IsBlack(x, old))
        x2 == rb_set_parent_color(x1, old, new, b)
    IN __rb_change_child(x2, old, new, p)

\* n becomes a red leaf at side s of p, or the root.
rb_link_node(x, n, p, s) ==
    LET x1 == [x EXCEPT !.up[n] = p, !.kid[n] = NoKids, !.black = @ \ {n}]
    IN IF p = NIL THEN [x1 EXCEPT !.root = n] ELSE SetKid(x1, p, s, n)

rb_replace_node(x, victim, new) ==
    LET x1 == [x EXCEPT !.up[new] = x.up[victim], !.kid[new] = x.kid[victim],
                        !.black = IF victim \in @ THEN @ \union {new} ELSE @]
        x2 == [x1 EXCEPT !.up = [m \in Node |->
                  IF m \in {x.kid[victim][s] : s \in Side} THEN new ELSE @[m]]]
    IN __rb_change_child(x2, victim, new, x.up[victim])

\* An erased node is no longer read: its memory is the caller's again.
Forget(x, n) == [x EXCEPT !.up[n] = NIL, !.kid[n] = NoKids, !.black = @ \ {n}]

----------------------------------------------------------------------------
(* __rb_insert.                                                            *)

\* Callers link the node and call rb_insert_color.
rb_insert_color(n, p, s) ==
    /\ pc = "idle"
    /\ t' = rb_link_node(t, n, p, s)
    /\ pc' = "insert" /\ node' = n /\ parent' = p

Return == pc' = "idle" /\ node' = NIL /\ parent' = NIL

\* The node is the root, or its parent is black.
InsertDone ==
    /\ pc = "insert"
    /\ \/ parent = NIL /\ t' = rb_set_parent_color(t, node, NIL, TRUE)
       \/ IsBlack(t, parent) /\ UNCHANGED t
    /\ Return

gparent    == t.up[parent]
ParentSide == IF parent # t.kid[gparent]["right"] THEN "left" ELSE "right"
Uncle      == t.kid[gparent][Other(ParentSide)]

\* Case 1: the uncle is red.  Parent and uncle turn black, the grandparent
\* red, and the loop goes on there.
InsertFlip ==
    /\ pc = "insert" /\ IsRed(t, parent) /\ IsRed(t, Uncle)
    /\ LET x1 == rb_set_parent_color(t, Uncle, gparent, TRUE)
           x2 == rb_set_parent_color(x1, parent, gparent, TRUE)
       IN t' = rb_set_parent_color(x2, gparent, t.up[gparent], FALSE)
    /\ node' = gparent /\ parent' = t.up[gparent]
    /\ UNCHANGED pc

\* Case 2: an inner child is rotated above its parent p.
RotateAtParent(x, n, p, s) ==
    LET tmp == x.kid[n][s]
        x1  == SetKid(SetKid(x, p, Other(s), tmp), n, s, p)
    IN rb_set_parent_color(SetIfNode(x1, tmp, p, TRUE), p, n, FALSE)

\* Case 3: p is rotated above the grandparent g and takes its colour.
RotateAtGrandparent(x, p, g, s) ==
    LET tmp == x.kid[p][Other(s)]
        x1  == SetKid(SetKid(x, g, s, tmp), p, Other(s), g)
    IN __rb_rotate_set_parents(SetIfNode(x1, tmp, g, TRUE), g, p, FALSE)

InsertRotate ==
    /\ pc = "insert" /\ IsRed(t, parent) /\ ~IsRed(t, Uncle)
    /\ LET s == ParentSide
       IN t' = IF node = t.kid[parent][Other(s)]
               THEN RotateAtGrandparent(RotateAtParent(t, node, parent, s),
                                        node, gparent, s)
               ELSE RotateAtGrandparent(t, parent, gparent, s)
    /\ Return

----------------------------------------------------------------------------
(* rb_erase.                                                               *)

\* Case 1: node n has at most the child c, which takes its place.
EraseOneChild(x, n, c) ==
    LET p  == x.up[n]
        x1 == __rb_change_child(x, n, c, p)
    IN [tree |-> SetIfNode(x1, c, p, IsBlack(x, n)),
        rebalance |-> IF c = NIL /\ IsBlack(x, n) THEN p ELSE NIL]

\* Cases 2 and 3: the successor of n, the leftmost node below its right
\* child, takes the place and the colour of n.
EraseTwoChildren(x, n) ==
    LET right  == x.kid[n]["right"]
        succ   == Furthest(x, right, "left")
        child2 == x.kid[succ]["right"]
        p      == IF succ = right THEN succ ELSE x.up[succ]
        x1     == IF succ = right THEN x
                  ELSE rb_set_parent(SetKid(SetKid(x, p, "left", child2),
                                            succ, "right", right), right, succ)
        x2     == rb_set_parent(SetKid(x1, succ, "left", x.kid[n]["left"]),
                                x.kid[n]["left"], succ)
        x3     == __rb_change_child(x2, n, succ, x.up[n])
        x4     == rb_set_parent_color(x3, succ, x.up[n], IsBlack(x, n))
    IN [tree |-> SetIfNode(x4, child2, p, TRUE),
        rebalance |-> IF child2 = NIL /\ IsBlack(x, succ) THEN p ELSE NIL]

__rb_erase_augmented(x, n) ==
    IF x.kid[n]["left"] = NIL THEN EraseOneChild(x, n, x.kid[n]["right"])
    ELSE IF x.kid[n]["right"] = NIL THEN EraseOneChild(x, n, x.kid[n]["left"])
    ELSE EraseTwoChildren(x, n)

rb_erase(n) ==
    LET e == __rb_erase_augmented(t, n)
    IN /\ pc = "idle"
       /\ t' = Forget(e.tree, n)
       /\ node' = NIL /\ parent' = e.rebalance
       /\ pc' = IF e.rebalance = NIL THEN "idle" ELSE "erase"

NodeSide == IF node # t.kid[parent]["right"] THEN "left" ELSE "right"

\* Case 1 of ____rb_erase_color: a red sibling is rotated above the parent.
RedSibling(x, s) ==
    LET sib == x.kid[parent][Other(s)]
        tmp == x.kid[sib][s]
        x1  == SetKid(SetKid(x, parent, Other(s), tmp), sib, s, parent)
        x2  == rb_set_parent_color(x1, tmp, parent, TRUE)
    IN IF IsRed(x, sib) THEN __rb_rotate_set_parents(x2, parent, sib, FALSE) ELSE x

\* The tree after case 1, and the sibling there.
Fixed   == RedSibling(t, NodeSide)
Sibling == Fixed.kid[parent][Other(NodeSide)]

\* Both children of the sibling are black or missing.
BlackNephews == \A s \in Side : ~IsRed(Fixed, Fixed.kid[Sibling][s])

\* Mutant: the loop stops although the parent was black.
flip_and_stop ==
    /\ pc = "erase" /\ BlackNephews
    /\ t' = rb_set_parent_color(rb_set_parent_color(Fixed, Sibling, parent, FALSE),
                                parent, Fixed.up[parent], TRUE)
    /\ Return

\* Case 2: the sibling turns red; a red parent turns black and that is all,
\* else the loop goes on at the parent, unless it is the root.
EraseFlip ==
    /\ pc = "erase" /\ BlackNephews
    /\ LET x1 == rb_set_parent_color(Fixed, Sibling, parent, FALSE)
           up == Fixed.up[parent]
       IN IF IsRed(Fixed, parent)
          THEN t' = rb_set_parent_color(x1, parent, up, TRUE) /\ Return
          ELSE /\ t' = x1
               /\ IF up = NIL THEN Return
                  ELSE node' = parent /\ parent' = up /\ UNCHANGED pc

\* Case 3: the inner nephew is rotated above the sibling.
RotateAtSibling(x, sib, s) ==
    LET in  == x.kid[sib][s]
        tmp == x.kid[in][Other(s)]
        x1  == SetKid(SetKid(SetKid(x, sib, s, tmp), in, Other(s), sib),
                      parent, Other(s), in)
    IN SetIfNode(x1, tmp, sib, TRUE)

\* Case 4: the sibling is rotated above the parent, out below it is black.
RotateSiblingUp(x, sib, out, s) ==
    LET in == x.kid[sib][s]
        x1 == SetKid(SetKid(x, parent, Other(s), in), sib, s, parent)
        x2 == rb_set_parent_color(x1, out, sib, TRUE)
        x3 == IF in = NIL THEN x2 ELSE rb_set_parent(x2, in, parent)
    IN __rb_rotate_set_parents(x3, parent, sib, TRUE)

EraseRotate ==
    /\ pc = "erase" /\ ~BlackNephews
    /\ LET s   == NodeSide
           out == Fixed.kid[Sibling][Other(s)]
       IN t' = IF IsRed(Fixed, out)
               THEN RotateSiblingUp(Fixed, Sibling, out, s)
               ELSE RotateSiblingUp(RotateAtSibling(Fixed, Sibling, s),
                                    Fixed.kid[Sibling][s], Sibling, s)
    /\ Return

Rebalance == InsertDone \/ InsertFlip \/ InsertRotate \/ EraseFlip \/ EraseRotate

----------------------------------------------------------------------------
(* Properties.                                                             *)

\* The numbers of black nodes on the paths from n down to a leaf.
BlackCounts(x, n) ==
    LET f[m \in Link] ==
          IF m = NIL THEN {0}
          ELSE { c + (IF m \in x.black THEN 1 ELSE 0) :
                    c \in f[x.kid[m]["left"]] \union f[x.kid[m]["right"]] }
    IN f[n]

\* Parent pointers and child pointers agree.
LinksAgree ==
    /\ t.root # NIL => t.up[t.root] = NIL
    /\ \A n \in Nodes(t), s \in Side :
          t.kid[n][s] # NIL => t.up[t.kid[n][s]] = n

\* The links agree whatever loop runs.  At rest the tree is red-black: a
\* black root, no red child of a red node, and the same number of black nodes
\* on every path.  In the loops the invariants hold that their comments
\* state: an inserted node is red and all paths still have the same count;
\* the node below which a black one is missing is black or NULL, is not the
\* root, and its paths have one black node less than the sibling's.
RedBlack ==
    /\ LinksAgree
    /\ pc = "idle" =>
          /\ t.root # NIL => IsBlack(t, t.root)
          /\ \A n \in Nodes(t) : IsRed(t, n) => ~IsRed(t, t.up[n])
          /\ Cardinality(BlackCounts(t, t.root)) = 1
    /\ pc = "insert" =>
          /\ IsRed(t, node) /\ parent = t.up[node]
          /\ Cardinality(BlackCounts(t, t.root)) = 1
    /\ pc = "erase" =>
          /\ ~IsRed(t, node) /\ parent # NIL
          /\ \A c \in BlackCounts(t, node) :
                BlackCounts(t, t.kid[parent][Other(NodeSide)]) = {c + 1}

\* A walk that starts at first and follows step visits the nodes in order s.
Visits(first, step(_), s) ==
    /\ first = IF s = <<>> THEN NIL ELSE s[1]
    /\ \A k \in DOMAIN s : step(s[k]) = IF k = Len(s) THEN NIL ELSE s[k + 1]

\* rb_first and rb_next walk the nodes in order, rb_last and rb_prev walk
\* them backwards, the postorder walk sees each node once, after its
\* children.
Walks ==
    pc = "idle" =>
        LET s    == InOrder(t, t.root)
            n    == Len(s)
            post[m \in Link] ==
                IF m = NIL THEN <<>>
                ELSE post[t.kid[m]["left"]] \o post[t.kid[m]["right"]] \o <<m>>
        IN /\ Visits(rb_first(t), LAMBDA m : rb_next(t, m), s)
           /\ Visits(rb_last(t), LAMBDA m : rb_prev(t, m),
                     [k \in 1..n |-> s[n + 1 - k]])
           /\ Visits(rb_first_postorder(t), LAMBDA m : rb_next_postorder(t, m),
                     post[t.root])
=============================================================================
