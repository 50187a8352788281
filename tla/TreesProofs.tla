---------------------------- MODULE TreesProofs ----------------------------
(***************************************************************************)
(* Proofs about the users of the red-black tree: for every number of       *)
(* nodes, rows, addresses and blocks the invariants that MC_Trees checks   *)
(* hold in every reachable state.                                          *)
(*                                                                         *)
(* The inductive invariant TreesInv joins the state of the tree (TreeState *)
(* of RbTreeProofs: some positions pos put the nodes in the order of the   *)
(* tree) with what its owner keeps: the keys of the nodes rise along pos,  *)
(* the nodes are the rows or blocks that are allocated, and the lists of   *)
(* the cache are in step with them.                                        *)
(***************************************************************************)
EXTENDS Trees, RbTreeProofs

----------------------------------------------------------------------------
(* The trees of SymbolTrees.                                               *)

\* The keys of the nodes.
symbolKey == [n \in Node |-> Key(n)]

\* The function that Place is defined by.
PlaceFun(k) ==
    CHOOSE f : f = [m \in Node |->
          LET s == IF k < Key(m) THEN "left" ELSE "right"
          IN IF t.kid[m][s] = NIL THEN <<m, s>> ELSE f[t.kid[m][s]]]

\* Place ends where the key belongs.
LEMMA PlaceArrivesAt ==
    ASSUME NEW S, NEW pos, Links(t), Shape(t, S, pos),
           OrderedBy(InTree(t), pos, symbolKey), NEW n \in Node, n \notin InTree(t),
           NEW k \in Int
    PROVE  Arrives(t, pos, Turns(symbolKey, k), n, Place(k)[1], Place(k)[2])
<1>1. PICK dir : dir = Turns(symbolKey, k)
  OBVIOUS
<1>2. pos \in [Node -> Int]
  BY DEF Shape
<1>3. Leads(t, pos, dir)
  BY <1>1, <1>2, KeyLeads
<1>4. dir \in [Node -> Side]
  BY <1>3 DEF Leads
<1>5. \A m \in Node : dir[m] = IF k < Key(m) THEN "left" ELSE "right"
  BY <1>1 DEF Turns, symbolKey
<1>6. PICK g : PlaceEq(t, dir, g)
  BY <1>4, PlaceExists
<1>7. g = [m \in Node |->
          LET s == IF k < Key(m) THEN "left" ELSE "right"
          IN IF t.kid[m][s] = NIL THEN <<m, s>> ELSE g[t.kid[m][s]]]
  BY <1>5, <1>6 DEF PlaceEq
<1>8. PlaceFun(k) = [m \in Node |->
          LET s == IF k < Key(m) THEN "left" ELSE "right"
          IN IF t.kid[m][s] = NIL THEN <<m, s>> ELSE PlaceFun(k)[t.kid[m][s]]]
  BY <1>7 DEF PlaceFun
<1>9. PlaceEq(t, dir, PlaceFun(k))
  BY <1>5, <1>8 DEF PlaceEq
<1>10. Place(k) = IF t.root = NIL THEN <<NIL, "left">> ELSE PlaceFun(k)[t.root]
  BY Zenon DEF Place, PlaceFun
<1>11. PICK at : at = Place(k)
  OBVIOUS
<1>12. Arrives(t, pos, dir, n, at[1], at[2])
  BY <1>3, <1>9, <1>10, <1>11, PlaceArrives
<1> QED
  BY <1>1, <1>11, <1>12

\* What an insertion of n with key k does to the tree: the node is in it, at
\* a place in the order that its key allows.
Inserted(pos, n, k) ==
    /\ InTree(t') = InTree(t) \cup {n}
    /\ \E p, s : /\ Arrives(t, pos, Turns(symbolKey, k), n, p, s)
                 /\ \E S2, h2 : TreeState(S2, PosWith(pos, n, p, s), h2)'

\* Linking the node at Place does that.
LEMMA InsertKeeps ==
    ASSUME NEW S, NEW pos, NEW h, TreeState(S, pos, h), 
           OrderedBy(InTree(t), pos, symbolKey), NEW n \in Node, n \notin InTree(t),
           NEW k \in Int, Insert(n, k)
    PROVE  Inserted(pos, n, k)
<1>1. Links(t) /\ Shape(t, S, pos)
  BY DEF TreeState
<1>2. PICK p, s : p = Place(k)[1] /\ s = Place(k)[2]
  OBVIOUS
<1>3. Arrives(t, pos, Turns(symbolKey, k), n, p, s)
  BY <1>1, <1>2, PlaceArrivesAt
<1>4. rb_insert_color(n, p, s)
  BY <1>2 DEF Insert
<1>5. FreePlace(t, p, s)
  BY <1>3 DEF Arrives
<1>6. InTree(t') = InTree(t) \cup {n} /\ \E S2, h2 : TreeState(S2, PosWith(pos, n, p, s), h2)'
  BY <1>4, <1>5, LinkKeeps
<1> QED
  BY <1>3, <1>6 DEF Inserted

\* The function that Conflict is defined by.
ConflictFun(a) ==
    CHOOSE f : f = [m \in Link |->
          IF m = NIL THEN FALSE
          ELSE a = Key(m) \/ f[t.kid[m][IF a < Key(m) THEN "left" ELSE "right"]]]

\* insert_symbol meets a node with the address exactly when there is one.
LEMMA ConflictFacts ==
    ASSUME NEW S, NEW pos, Links(t), Shape(t, S, pos),
           OrderedBy(InTree(t), pos, symbolKey), NEW a \in Int
    PROVE  Conflict(a) <=> \E m \in InTree(t) : Key(m) = a
<1>1. PICK dir : dir = Turns(symbolKey, a)
  OBVIOUS
<1>2. PICK H : H = { m \in Node : a = Key(m) }
  OBVIOUS
<1>3. pos \in [Node -> Int] /\ KidFacts(t, S, pos) /\ InTree(t) \subseteq Node
  BY ShapeFacts DEF Shape, InTree
<1>4. /\ dir \in [Node -> Side]
      /\ \A m \in Node : dir[m] = IF a < Key(m) THEN "left" ELSE "right"
  BY <1>1, Basics DEF Turns, symbolKey
<1>5. PICK g : SearchEq(t, H, dir, g)
  BY <1>4, SearchExists
<1>6. /\ g[NIL] = NIL
      /\ \A m \in Node : g[m] = IF a = Key(m) THEN m ELSE g[t.kid[m][dir[m]]]
  BY <1>2, <1>5, Basics DEF SearchEq
<1>7. \A m \in Node : t.kid[m][dir[m]] \in Link
  BY <1>3, <1>4 DEF KidFacts
<1>8. PICK e : e = [m \in Link |-> g[m] # NIL]
  OBVIOUS
<1>9. ASSUME NEW m \in Link
      PROVE  (g[m] # NIL) = (IF m = NIL THEN FALSE
                ELSE a = Key(m) \/ e[t.kid[m][IF a < Key(m) THEN "left" ELSE "right"]])
  <2>1. CASE m = NIL
    BY <1>6, <2>1
  <2>2. CASE m # NIL
    <3>1. m \in Node
      BY <2>2, Basics
    <3>2. PICK k \in Link : k = t.kid[m][IF a < Key(m) THEN "left" ELSE "right"] /\ k = t.kid[m][dir[m]]
      BY <1>4, <1>7, <3>1
    <3>3. e[k] = (g[k] # NIL)
      BY <1>8
    <3>4. (g[m] # NIL) = (a = Key(m) \/ g[k] # NIL)
      BY <1>6, <2>2, <3>1, <3>2
    <3>5. (g[m] # NIL) = (a = Key(m) \/ e[k])
      BY <3>3, <3>4, Zenon
    <3> QED
      BY <2>2, <3>2, <3>5, Zenon
  <2> QED
    BY <2>1, <2>2
<1>10. e = [m \in Link |-> IF m = NIL THEN FALSE
             ELSE a = Key(m) \/ e[t.kid[m][IF a < Key(m) THEN "left" ELSE "right"]]]
  BY <1>8, <1>9, Zenon
<1>11. PICK f : f = ConflictFun(a)
  OBVIOUS
<1>12. f = [m \in Link |-> IF m = NIL THEN FALSE
             ELSE a = Key(m) \/ f[t.kid[m][IF a < Key(m) THEN "left" ELSE "right"]]]
  BY <1>10, <1>11, Zenon DEF ConflictFun
<1> DEFINE T == { m \in Node : f[m] = (g[m] # NIL) }
<1>13. f[NIL] = (g[NIL] # NIL)
  BY <1>6, <1>12, Basics
<1>14. ASSUME NEW m \in Node, \A d \in Side : t.kid[m][d] = NIL \/ t.kid[m][d] \in T
       PROVE  m \in T
  <2>1. PICK k \in Link : k = t.kid[m][IF a < Key(m) THEN "left" ELSE "right"] /\ k = t.kid[m][dir[m]]
    BY <1>4, <1>7
  <2>2. f[k] = (g[k] # NIL)
    BY <1>4, <1>13, <1>14, <2>1
  <2>3. m \in Link /\ m # NIL
    BY Basics
  <2>4. f[m] = (a = Key(m) \/ f[t.kid[m][IF a < Key(m) THEN "left" ELSE "right"]])
    BY <1>12, <2>3, Zenon
  <2>5. f[m] = (a = Key(m) \/ f[k])
    BY <2>1, <2>4, Zenon
  <2>6. (g[m] # NIL) = (a = Key(m) \/ g[k] # NIL)
    BY <1>6, <2>1, <2>3
  <2>7. f[m] = (g[m] # NIL)
    BY <2>2, <2>5, <2>6, Zenon
  <2> QED
    BY <2>7
<1>15. Node \subseteq T
  <2> HIDE DEF T
  <2> QED
    BY <1>14, DownInduction
<1>16. Conflict(a) = f[t.root]
  BY <1>11, Zenon DEF Conflict, ConflictFun
<1>17. t.root \in Link
  BY TreeFields DEF Links
<1>18. Conflict(a) = (g[t.root] # NIL)
  <2>1. CASE t.root = NIL
    BY <1>13, <1>16, <2>1
  <2>2. CASE t.root \in Node
    BY <1>15, <1>16, <2>2
  <2> QED
    BY <1>17, <2>1, <2>2, Basics
<1>19. FoundIs(InTree(t), pos, dir, H, g[t.root])
  BY <1>4, <1>5, SearchTree
<1>20. ASSUME g[t.root] # NIL PROVE \E m \in InTree(t) : Key(m) = a
  BY <1>2, <1>19, <1>20 DEF FoundIs
<1>21. ASSUME g[t.root] = NIL, NEW n \in InTree(t), Key(n) = a PROVE FALSE
  <2>1. PICK k \in InTree(t) : k \notin H /\ (n = k \/ At(pos, n, Other(dir[k]), k))
    BY <1>19, <1>21 DEF FoundIs
  <2>2. n \in Node /\ k \in Node /\ n \in H
    BY <1>2, <1>3, <1>21
  <2>3. At(pos, n, Other(dir[k]), k) /\ Key(k) # a
    BY <1>2, <2>1, <2>2
  <2>4. symbolKey[n] = a /\ symbolKey[k] = Key(k) /\ symbolKey[k] \in Int
    BY <1>21, <2>2 DEF symbolKey, OrderedBy
  <2>5. CASE a < Key(k)
    <3>1. pos[k] < pos[n]
      BY <1>4, <2>2, <2>3, <2>5, Basics DEF At
    <3>2. symbolKey[k] <= symbolKey[n]
      BY <3>1 DEF OrderedBy
    <3> QED
      BY <2>4, <2>5, <3>2
  <2>6. CASE ~(a < Key(k))
    <3>1. pos[n] < pos[k]
      BY <1>4, <2>2, <2>3, <2>6, Basics DEF At
    <3>2. symbolKey[n] <= symbolKey[k]
      BY <3>1 DEF OrderedBy
    <3>3. Key(k) \in Int
      BY <2>4
    <3> QED
      BY <2>3, <2>4, <2>6, <3>2, <3>3
  <2> QED
    BY <2>5, <2>6
<1> QED
  BY <1>18, <1>20, <1>21, Zenon

----------------------------------------------------------------------------
(* The inductive invariant of SymbolTrees.                                 *)

\* The tree of an ELF file or of a process has all rows of the file, the one
\* of the kernel the first row of each address.
RowsHeld ==
    /\ user \in {"elf", "vma"} /\ phase = "use" => live = DOMAIN row
    /\ user = "kernel" =>
          /\ \A m, n \in live : row[m].lo = row[n].lo => m = n
          /\ phase = "use" => \A k \in DOMAIN row :
                \E n \in live : n <= k /\ row[n].lo = row[k].lo

\* The allocated nodes are the ones in the tree, ordered by their keys; a
\* loop that frees them holds the first.
SymbolInv(pos) ==
    /\ user \in User \ {"cache"} /\ phase \in {"use", "free"}
    /\ row \in Seq(AddrRange) /\ Len(row) <= MaxRows
    /\ live = InTree(t)
    /\ user # "caller" => live \subseteq DOMAIN row
    /\ OrderedBy(live, pos, symbolKey)
    /\ phase = "free" => user # "vma" /\ First(live, pos, cursor)
    /\ RowsHeld

\* The invariant holds after a step, with some order of the nodes.
SymbolNext == \E S, pos, h : TreeState(S, pos, h)' /\ SymbolInv(pos)'

\* Reading a row of a file keeps all but what is said of rows.
LEMMA NewRowKeeps ==
    ASSUME NEW S, NEW pos, NEW h, TreeState(S, pos, h), SymbolInv(pos),
           user # "caller", phase = "use", Len(row) < MaxRows,
           NEW r \in AddrRange, NewRow(r), UNCHANGED <<user, cursor, phase>>, RowsHeld'
    PROVE  SymbolNext
<1>1. PICK n : n = Len(row) + 1
  OBVIOUS
<1>2. /\ row \in Seq(AddrRange) /\ live = InTree(t) /\ live \subseteq DOMAIN row
      /\ OrderedBy(live, pos, symbolKey) /\ user \in User \ {"cache"}
  BY DEF SymbolInv
<1>3. n \in Node /\ n <= MaxRows /\ n \notin DOMAIN row
  BY <1>1, <1>2, SymbolAssumption, TreeAssumption DEF Node
<1>4. n \notin InTree(t) /\ pos \in [Node -> Int] /\ InTree(t) \subseteq Node
  BY <1>2, <1>3 DEF TreeState, Shape, InTree
<1>5. row' = Append(row, r) /\ Insert(n, r.lo) /\ live' = live \cup {n}
  BY <1>1 DEF NewRow
<1>6. r.lo \in Int
  BY SymbolAssumption DEF AddrRange, Addr
<1>7. Inserted(pos, n, r.lo)
  BY <1>2, <1>3, <1>4, <1>5, <1>6, InsertKeeps
<1>8. InTree(t') = InTree(t) \cup {n}
  BY <1>7 DEF Inserted
<1>9. PICK p, s : /\ Arrives(t, pos, Turns(symbolKey, r.lo), n, p, s)
                  /\ \E S2, h2 : TreeState(S2, PosWith(pos, n, p, s), h2)'
  BY <1>7 DEF Inserted
<1>10. PICK S2, h2 : TreeState(S2, PosWith(pos, n, p, s), h2)'
  BY <1>9
<1>11. /\ row' \in Seq(AddrRange) /\ Len(row') = Len(row) + 1 /\ row'[n] = r
       /\ DOMAIN row' = DOMAIN row \cup {n}
       /\ \A a \in DOMAIN row : row'[a] = row[a]
  BY <1>1, <1>2, <1>5
<1>12. symbolKey'[n] = r.lo
  BY <1>3, <1>11 DEF symbolKey, Key
<1>13. \A a \in InTree(t) : symbolKey'[a] = symbolKey[a]
  BY <1>2, <1>4, <1>11 DEF symbolKey, Key
<1>14. PICK key2 : key2 = symbolKey'
  OBVIOUS
<1>15. OrderedBy(InTree(t) \cup {n}, PosWith(pos, n, p, s), key2)
  BY <1>2, <1>3, <1>4, <1>6, <1>9, <1>12, <1>13, <1>14, LinkOrdered
<1>16. PICK q : q = PosWith(pos, n, p, s)
  OBVIOUS
<1>17. SymbolInv(q)'
  <2>1. live' = InTree(t') /\ OrderedBy(live', q, symbolKey')
    BY <1>2, <1>5, <1>8, <1>14, <1>15, <1>16
  <2>2. live' \subseteq DOMAIN row'
    BY <1>2, <1>5, <1>11
  <2>3. Len(row') <= MaxRows
    BY <1>1, <1>3, <1>11
  <2> QED
    BY <1>2, <1>11, <2>1, <2>2, <2>3 DEF SymbolInv
<1> QED
  BY <1>10, <1>16, <1>17 DEF SymbolNext

\* load_kernel_symbols inserts a row whose address is new, and skips the others.
LEMMA KernelKeeps ==
    ASSUME NEW S, NEW pos, NEW h, TreeState(S, pos, h), SymbolInv(pos), load_kernel_symbols
    PROVE  SymbolNext
<1>1. /\ user = "kernel" /\ phase = "use" /\ pc = "idle" /\ Len(row) < MaxRows
      /\ UNCHANGED <<user, cursor, phase>>
  BY DEF load_kernel_symbols, Reading
<1>2. PICK a \in Addr : IF Conflict(a)
          THEN row' = Append(row, [lo |-> a, hi |-> a]) /\ UNCHANGED <<treeVars, live>>
          ELSE NewRow([lo |-> a, hi |-> a])
  BY DEF load_kernel_symbols
<1>3. PICK r \in AddrRange : r = [lo |-> a, hi |-> a] /\ r.lo = a
  <2>1. PICK r : r = [lo |-> a, hi |-> a]
    OBVIOUS
  <2>2. r \in AddrRange /\ r.lo = a
    BY <2>1 DEF AddrRange
  <2> QED
    BY <2>1, <2>2
<1>4. /\ row \in Seq(AddrRange) /\ live = InTree(t) /\ live \subseteq DOMAIN row
      /\ OrderedBy(live, pos, symbolKey) /\ RowsHeld
  BY <1>1 DEF SymbolInv
<1>5. \A m \in InTree(t) : Key(m) = row[m].lo
  BY <1>1 DEF Key
<1>6. a \in Int
  BY SymbolAssumption DEF Addr
<1>7. Conflict(a) <=> \E m \in live : row[m].lo = a
  <2>1. Conflict(a) <=> \E m \in InTree(t) : Key(m) = a
    BY <1>4, <1>6, ConflictFacts DEF TreeState
  <2> QED
    BY <1>4, <1>5, <2>1
<1>8. PICK n : n = Len(row) + 1
  OBVIOUS
<1>9. ASSUME row' = Append(row, r)
      PROVE  /\ row' \in Seq(AddrRange) /\ Len(row') = Len(row) + 1 /\ row'[n] = r
             /\ DOMAIN row' = DOMAIN row \cup {n} /\ n \notin DOMAIN row
             /\ \A k \in DOMAIN row : row'[k] = row[k] /\ k <= n
  BY <1>4, <1>8, <1>9
<1>10. CASE Conflict(a)
  <2>1. row' = Append(row, r) /\ UNCHANGED <<treeVars, live>>
    BY <1>2, <1>3, <1>10
  <2>2. /\ row' \in Seq(AddrRange) /\ Len(row') = Len(row) + 1 /\ row'[n] = r
        /\ DOMAIN row' = DOMAIN row \cup {n} /\ n \notin DOMAIN row
        /\ \A k \in DOMAIN row : row'[k] = row[k] /\ k <= n
    BY <1>9, <2>1
  <2>3. PICK m \in live : row[m].lo = a
    BY <1>7, <1>10
  <2>4. RowsHeld'
    <3>1. \A b, c \in live' : row'[b].lo = row'[c].lo => b = c
      BY <1>1, <1>4, <2>1, <2>2 DEF RowsHeld
    <3>2. ASSUME NEW k \in DOMAIN row' PROVE \E b \in live' : b <= k /\ row'[b].lo = row'[k].lo
      <4>1. CASE k \in DOMAIN row
        <5>1. PICK b \in live : b <= k /\ row[b].lo = row[k].lo
          BY <1>1, <1>4, <4>1 DEF RowsHeld
        <5> QED
          BY <1>4, <2>1, <2>2, <4>1, <5>1
      <4>2. CASE k = n
        BY <1>3, <1>4, <2>1, <2>2, <2>3, <4>2
      <4> QED
        BY <2>2, <4>1, <4>2
    <3> QED
      BY <1>1, <3>1, <3>2 DEF RowsHeld
  <2>5. t' = t /\ pc' = pc /\ node' = node /\ parent' = parent /\ live' = live
    BY <2>1 DEF treeVars
  <2>6. TreeState(S, pos, h)'
    BY <2>5 DEF TreeState, LoopState, NodeSide
  <2>7. OrderedBy(live', pos, symbolKey')
    <3>1. \A b \in live : symbolKey'[b] = symbolKey[b]
      BY <1>1, <1>4, <2>2 DEF symbolKey, Key, InTree
    <3> QED
      BY <1>4, <2>5, <3>1 DEF OrderedBy
  <2>8. SymbolInv(pos)'
    <3>1. Len(row') <= MaxRows
      BY <1>1, <1>4, <2>2, SymbolAssumption
    <3>2. live' = InTree(t') /\ live' \subseteq DOMAIN row'
      BY <1>4, <2>2, <2>5
    <3> QED
      BY <1>1, <2>2, <2>4, <2>7, <3>1, <3>2 DEF SymbolInv, User
  <2> QED
    BY <2>6, <2>8 DEF SymbolNext
<1>11. CASE ~Conflict(a)
  <2>1. NewRow(r)
    BY <1>2, <1>3, <1>11
  <2>2. row' = Append(row, r) /\ live' = live \cup {n}
    BY <1>8, <2>1 DEF NewRow
  <2>3. /\ row'[n] = r /\ DOMAIN row' = DOMAIN row \cup {n} /\ n \notin DOMAIN row
        /\ \A k \in DOMAIN row : row'[k] = row[k] /\ k <= n
    BY <1>9, <2>2
  <2>4. \A m \in live : row[m].lo # a
    BY <1>7, <1>11
  <2>5. RowsHeld'
    <3>1. \A b, c \in live' : row'[b].lo = row'[c].lo => b = c
      BY <1>1, <1>3, <1>4, <2>2, <2>3, <2>4 DEF RowsHeld
    <3>2. ASSUME NEW k \in DOMAIN row' PROVE \E b \in live' : b <= k /\ row'[b].lo = row'[k].lo
      <4>1. CASE k \in DOMAIN row
        <5>1. PICK b \in live : b <= k /\ row[b].lo = row[k].lo
          BY <1>1, <1>4, <4>1 DEF RowsHeld
        <5> QED
          BY <1>4, <2>2, <2>3, <4>1, <5>1
      <4>2. CASE k = n
        <5>1. n \in live' /\ n <= n
          BY <1>4, <1>8, <2>2
        <5> QED
          BY <4>2, <5>1
      <4> QED
        BY <2>3, <4>1, <4>2
    <3> QED
      BY <1>1, <3>1, <3>2 DEF RowsHeld
  <2> QED
    BY <1>1, <2>1, <2>5, NewRowKeeps
<1> QED
  BY <1>10, <1>11

\* The rows of an ELF file and of a memory map are all inserted.
LEMMA FileKeeps ==
    ASSUME NEW S, NEW pos, NEW h, TreeState(S, pos, h), SymbolInv(pos),
           process_symbol_section \/ parse_process_memory_maps
    PROVE  SymbolNext
<1>1. /\ user \in {"elf", "vma"} /\ phase = "use" /\ pc = "idle" /\ Len(row) < MaxRows
      /\ UNCHANGED <<user, cursor, phase>>
  BY DEF process_symbol_section, parse_process_memory_maps, Reading
<1>2. PICK r \in AddrRange : NewRow(r)
  BY DEF process_symbol_section, parse_process_memory_maps
<1>3. /\ row \in Seq(AddrRange) /\ live = DOMAIN row
  BY <1>1 DEF SymbolInv, RowsHeld
<1>4. row' = Append(row, r) /\ live' = live \cup {Len(row) + 1}
  BY <1>2 DEF NewRow
<1>5. DOMAIN row' = DOMAIN row \cup {Len(row) + 1}
  BY <1>3, <1>4
<1>6. RowsHeld'
  BY <1>1, <1>3, <1>4, <1>5 DEF RowsHeld
<1> QED
  BY <1>1, <1>2, <1>6, NewRowKeeps

\* A caller's node is linked where its key belongs.
LEMMA CallerInsertsKeeps ==
    ASSUME NEW S, NEW pos, NEW h, TreeState(S, pos, h), SymbolInv(pos), CallerInserts
    PROVE  SymbolNext
<1>1. user = "caller" /\ phase = "use" /\ pc = "idle" /\ UNCHANGED <<user, row, cursor, phase>>
  BY DEF CallerInserts, Calls
<1>2. PICK n \in Node \ live : Insert(n, n) /\ live' = live \cup {n}
  BY DEF CallerInserts
<1>3. live = InTree(t) /\ OrderedBy(live, pos, symbolKey)
  BY DEF SymbolInv
<1>4. /\ n \in Node /\ n \notin InTree(t) /\ pos \in [Node -> Int] /\ InTree(t) \subseteq Node
      /\ n \in Int
  BY <1>2, <1>3 DEF TreeState, Shape, InTree, Node
<1>5. Inserted(pos, n, n)
  BY <1>2, <1>3, <1>4, InsertKeeps
<1>6. InTree(t') = InTree(t) \cup {n}
  BY <1>5 DEF Inserted
<1>7. PICK p, s : /\ Arrives(t, pos, Turns(symbolKey, n), n, p, s)
                  /\ \E S2, h2 : TreeState(S2, PosWith(pos, n, p, s), h2)'
  BY <1>5 DEF Inserted
<1>8. PICK S2, h2 : TreeState(S2, PosWith(pos, n, p, s), h2)'
  BY <1>7
<1>9. PICK key2 : key2 = symbolKey'
  OBVIOUS
<1>10. key2[n] = n /\ \A a \in InTree(t) : key2[a] = symbolKey[a]
  BY <1>1, <1>4, <1>9 DEF symbolKey, Key
<1>11. OrderedBy(InTree(t) \cup {n}, PosWith(pos, n, p, s), key2)
  BY <1>3, <1>4, <1>7, <1>10, LinkOrdered
<1>12. PICK q : q = PosWith(pos, n, p, s)
  OBVIOUS
<1>13. live' = InTree(t') /\ OrderedBy(live', q, symbolKey')
  BY <1>2, <1>3, <1>6, <1>9, <1>11, <1>12
<1>14. SymbolInv(q)'
  BY <1>1, <1>13 DEF SymbolInv, RowsHeld
<1> QED
  BY <1>8, <1>12, <1>14 DEF SymbolNext

\* A caller's node leaves the tree, the others stay in order.
LEMMA CallerErasesKeeps ==
    ASSUME NEW S, NEW pos, NEW h, TreeState(S, pos, h), SymbolInv(pos), CallerErases
    PROVE  SymbolNext
<1>1. user = "caller" /\ phase = "use" /\ pc = "idle" /\ UNCHANGED <<user, row, cursor, phase>>
  BY DEF CallerErases, Calls
<1>2. PICK n \in live : rb_erase(n) /\ live' = live \ {n}
  BY DEF CallerErases
<1>3. live = InTree(t) /\ OrderedBy(live, pos, symbolKey)
  BY DEF SymbolInv
<1>4. InTree(t') = InTree(t) \ {n} /\ \E S2, h2 : TreeState(S2, pos, h2)'
  BY <1>2, <1>3, EraseKeeps
<1>5. PICK S2, h2 : TreeState(S2, pos, h2)'
  BY <1>4
<1>6. symbolKey' = symbolKey
  BY <1>1 DEF symbolKey, Key
<1>7. OrderedBy(live', pos, symbolKey')
  BY <1>2, <1>3, <1>6 DEF OrderedBy
<1>8. SymbolInv(pos)'
  BY <1>1, <1>2, <1>3, <1>4, <1>7 DEF SymbolInv, RowsHeld
<1> QED
  BY <1>5, <1>8 DEF SymbolNext

\* The new node fits between the neighbours of the one it replaces.
LEMMA CallerReplacesKeeps ==
    ASSUME NEW S, NEW pos, NEW h, TreeState(S, pos, h), SymbolInv(pos), CallerReplaces
    PROVE  SymbolNext
<1>1. /\ user = "caller" /\ phase = "use" /\ pc = "idle"
      /\ UNCHANGED <<pc, node, parent, user, row, cursor, phase>>
  BY DEF CallerReplaces, Calls
<1>2. PICK old \in live, new \in Node \ live :
          /\ \A m \in live \ {old} : m < old <=> m < new
          /\ t' = Forget(rb_replace_node(t, old, new), old)
          /\ live' = (live \ {old}) \union {new}
  BY DEF CallerReplaces
<1>3. live = InTree(t) /\ OrderedBy(live, pos, symbolKey)
  BY DEF SymbolInv
<1>4. /\ old \in InTree(t) /\ new \in Node /\ new \notin InTree(t)
      /\ pos \in [Node -> Int] /\ InTree(t) \subseteq Node /\ Node \subseteq Int
  BY <1>2, <1>3 DEF TreeState, Shape, InTree, Node
<1>5. /\ InTree(t') = (InTree(t) \ {old}) \cup {new}
      /\ \E S2, h2 : TreeState(S2, ReplacePos(pos, old, new), h2)'
  BY <1>1, <1>2, <1>4, ReplaceKeeps
<1>6. PICK S2, h2 : TreeState(S2, ReplacePos(pos, old, new), h2)'
  BY <1>5
<1>7. PICK q : q = ReplacePos(pos, old, new)
  OBVIOUS
<1>8. \A m \in Node : q[m] = IF m = new THEN pos[old] ELSE pos[m]
  BY <1>7 DEF ReplacePos
<1>9. symbolKey' = symbolKey /\ \A m \in Node : symbolKey[m] = m
  BY <1>1 DEF symbolKey, Key
<1>10. ASSUME NEW a \in live', NEW b \in live', q[a] < q[b]
       PROVE  symbolKey[a] <= symbolKey[b]
  <2>1. a \in Node /\ b \in Node /\ a \in Int /\ b \in Int /\ old \in Node /\ old \in Int /\ new \in Int
    BY <1>2, <1>3, <1>4
  <2>2. a = new \/ (a \in live /\ a # old /\ a # new)
    BY <1>2
  <2>3. b = new \/ (b \in live /\ b # old /\ b # new)
    BY <1>2
  <2>4. CASE a = new /\ b = new
    BY <1>9, <2>1, <2>4
  <2>5. CASE a = new /\ b \in live /\ b # old /\ b # new
    <3>1. pos[old] < pos[b]
      BY <1>8, <1>10, <2>1, <2>5
    <3>2. symbolKey[old] <= symbolKey[b]
      BY <1>2, <1>3, <2>5, <3>1 DEF OrderedBy
    <3>3. ~(b < old)
      BY <1>9, <2>1, <3>2
    <3>4. ~(b < new)
      BY <1>2, <2>5, <3>3
    <3> QED
      BY <1>9, <2>1, <2>5, <3>4
  <2>6. CASE a \in live /\ a # old /\ a # new /\ b = new
    <3>1. pos[a] < pos[old]
      BY <1>8, <1>10, <2>1, <2>6
    <3>2. symbolKey[a] <= symbolKey[old]
      BY <1>2, <1>3, <2>6, <3>1 DEF OrderedBy
    <3>3. a < old
      BY <1>9, <2>1, <2>6, <3>2
    <3>4. a < new
      BY <1>2, <2>6, <3>3
    <3> QED
      BY <1>9, <2>1, <2>6, <3>4
  <2>7. CASE a \in live /\ a # new /\ b \in live /\ b # new
    <3>1. pos[a] < pos[b]
      BY <1>8, <1>10, <2>1, <2>7
    <3> QED
      BY <1>3, <2>7, <3>1 DEF OrderedBy
  <2> QED
    BY <2>2, <2>3, <2>4, <2>5, <2>6, <2>7
<1>11. \A a \in live' : symbolKey[a] \in Int
  BY <1>2, <1>3, <1>4, <1>9
<1>12. OrderedBy(live', q, symbolKey')
  BY <1>9, <1>10, <1>11 DEF OrderedBy
<1>13. live' = InTree(t')
  BY <1>2, <1>3, <1>5
<1>14. SymbolInv(q)'
  BY <1>1, <1>12, <1>13 DEF SymbolInv, RowsHeld
<1> QED
  BY <1>6, <1>7, <1>14 DEF SymbolNext

\* The loop that empties the tree begins at the first node.
LEMMA FreeBeginsKeeps ==
    ASSUME NEW S, NEW pos, NEW h, TreeState(S, pos, h), SymbolInv(pos), FreeBegins
    PROVE  SymbolNext
<1>1. /\ user # "vma" /\ phase = "use" /\ phase' = "free" /\ cursor' = rb_first(t)
      /\ UNCHANGED <<treeVars, user, row, live>>
  BY DEF FreeBegins
<1>2. t' = t /\ pc' = pc /\ node' = node /\ parent' = parent /\ live' = live /\ row' = row /\ user' = user
  BY <1>1 DEF treeVars
<1>3. TreeState(S, pos, h)'
  BY <1>2 DEF TreeState, LoopState, NodeSide
<1>4. live = InTree(t) /\ OrderedBy(live, pos, symbolKey)
  BY DEF SymbolInv
<1>5. First(live', pos, cursor')
  BY <1>1, <1>2, <1>4, FirstIsFirst DEF TreeState
<1>6. symbolKey' = symbolKey
  BY <1>2 DEF symbolKey, Key
<1>7. RowsHeld'
  BY <1>1, <1>2 DEF SymbolInv, RowsHeld
<1>8. SymbolInv(pos)'
  BY <1>1, <1>2, <1>4, <1>5, <1>6, <1>7 DEF SymbolInv
<1> QED
  BY <1>3, <1>8 DEF SymbolNext

\* next is read before its node is erased, and is again the first one.
LEMMA FreeNodeKeeps ==
    ASSUME NEW S, NEW pos, NEW h, TreeState(S, pos, h), SymbolInv(pos), FreeNode
    PROVE  SymbolNext
<1>1. /\ phase = "free" /\ cursor # NIL /\ cursor' = rb_next(t, cursor) /\ rb_erase(cursor)
      /\ live' = live \ {cursor} /\ UNCHANGED <<user, row, phase>>
  BY DEF FreeNode
<1>2. /\ live = InTree(t) /\ OrderedBy(live, pos, symbolKey) /\ user # "vma"
      /\ First(live, pos, cursor)
  BY <1>1 DEF SymbolInv
<1>3. cursor \in InTree(t)
  BY <1>1, <1>2 DEF First
<1>4. InTree(t') = InTree(t) \ {cursor} /\ \E S2, h2 : TreeState(S2, pos, h2)'
  BY <1>1, <1>3, EraseKeeps
<1>5. PICK S2, h2 : TreeState(S2, pos, h2)'
  BY <1>4
<1>6. First(live', pos, cursor')
  BY <1>1, <1>2, NextIsFirst DEF TreeState
<1>7. symbolKey' = symbolKey
  BY <1>1 DEF symbolKey, Key
<1>8. OrderedBy(live', pos, symbolKey')
  BY <1>1, <1>2, <1>7 DEF OrderedBy
<1>9. RowsHeld'
  BY <1>1 DEF SymbolInv, RowsHeld
<1>10. SymbolInv(pos)'
  BY <1>1, <1>2, <1>4, <1>6, <1>8, <1>9 DEF SymbolInv
<1> QED
  BY <1>5, <1>10 DEF SymbolNext

\* When next is NULL no node is left.
LEMMA FreeEndsKeeps ==
    ASSUME NEW S, NEW pos, NEW h, TreeState(S, pos, h), SymbolInv(pos), FreeEnds
    PROVE  SymbolNext
<1>1. /\ phase = "free" /\ cursor = NIL /\ phase' = "use" /\ row' = <<>>
      /\ UNCHANGED <<treeVars, user, live, cursor>>
  BY DEF FreeEnds
<1>2. t' = t /\ pc' = pc /\ node' = node /\ parent' = parent /\ live' = live /\ user' = user
  BY <1>1 DEF treeVars
<1>3. TreeState(S, pos, h)'
  BY <1>2 DEF TreeState, LoopState, NodeSide
<1>4. live = InTree(t) /\ live = {}
  BY <1>1 DEF SymbolInv, First
<1>5. OrderedBy(live', pos, symbolKey')
  BY <1>2, <1>4 DEF OrderedBy
<1>6. row' \in Seq(AddrRange) /\ Len(row') = 0 /\ DOMAIN row' = {}
  BY <1>1
<1>7. RowsHeld'
  BY <1>2, <1>4, <1>6 DEF RowsHeld
<1>8. 0 <= MaxRows
  BY SymbolAssumption
<1>9. SymbolInv(pos)'
  BY <1>1, <1>2, <1>4, <1>5, <1>6, <1>7, <1>8 DEF SymbolInv
<1> QED
  BY <1>3, <1>9 DEF SymbolNext

\* free_vma_tree frees all the nodes of the tree.
LEMMA FreeVmaKeeps ==
    ASSUME NEW S, NEW pos, NEW h, TreeState(S, pos, h), SymbolInv(pos), free_vma_tree
    PROVE  SymbolNext
<1>1. /\ user = "vma" /\ pc = "idle" /\ live' = live \ Nodes(t) /\ t' = EmptyTree /\ row' = <<>>
      /\ UNCHANGED <<pc, node, parent, user, cursor, phase>>
  BY DEF free_vma_tree
<1>2. live = InTree(t) /\ Nodes(t) = InTree(t)
  BY TreeSorted DEF SymbolInv, TreeState
<1>3. node = NIL /\ parent = NIL /\ pos \in [Node -> Int]
  BY <1>1 DEF TreeState, LoopState, Shape
<1>4. InTree(t') = {} /\ \E S2, h2 : TreeState(S2, pos, h2)'
  <2>1. InTree(EmptyTree) = {}
    BY EmptyFacts
  <2>2. PICK S2, h2 : Shape(EmptyTree, S2, pos) /\ Balanced(EmptyTree, h2)
    BY <1>3, EmptyFacts
  <2>3. LoopState(h2)'
    BY <1>1, <1>3, <2>2, EmptyFacts DEF LoopState
  <2>4. TreeState(S2, pos, h2)'
    BY <1>1, <2>2, <2>3, EmptyFacts DEF TreeState
  <2> QED
    BY <1>1, <2>1, <2>4
<1>5. PICK S2, h2 : TreeState(S2, pos, h2)'
  BY <1>4
<1>6. live' = {}
  BY <1>1, <1>2
<1>7. row' \in Seq(AddrRange) /\ Len(row') = 0 /\ DOMAIN row' = {}
  BY <1>1
<1>8. RowsHeld'
  BY <1>1, <1>6, <1>7 DEF RowsHeld
<1>9. 0 <= MaxRows
  BY SymbolAssumption
<1>10. phase' = "use" /\ user' = "vma"
  BY <1>1 DEF SymbolInv
<1>11. SymbolInv(pos)'
  BY <1>4, <1>6, <1>7, <1>8, <1>9, <1>10 DEF SymbolInv, OrderedBy, User
<1> QED
  BY <1>5, <1>11 DEF SymbolNext

\* Every step of a user of SymbolTrees keeps the invariant.
LEMMA SymbolStepKeeps ==
    ASSUME NEW S, NEW pos, NEW h, TreeState(S, pos, h), SymbolInv(pos), SymbolStep
    PROVE  SymbolNext
BY KernelKeeps, FileKeeps, CallerInsertsKeeps, CallerErasesKeeps, CallerReplacesKeeps,
   FreeBeginsKeeps, FreeNodeKeeps, FreeEndsKeeps, FreeVmaKeeps DEF SymbolStep

\* So does a step of a rebalancing loop.
LEMMA SymbolRebalances ==
    ASSUME NEW S, NEW pos, NEW h, TreeState(S, pos, h), SymbolInv(pos), Rebalance,
           UNCHANGED symbolVars
    PROVE  SymbolNext
<1>1. Kept(pos)
  BY RebalanceKeeps
<1>2. InTree(t') = InTree(t) /\ \E S2, h2 : TreeState(S2, pos, h2)'
  BY <1>1 DEF Kept
<1>3. PICK S2, h2 : TreeState(S2, pos, h2)'
  BY <1>2
<1>4. user' = user /\ row' = row /\ live' = live /\ cursor' = cursor /\ phase' = phase
  BY DEF symbolVars
<1>5. symbolKey' = symbolKey
  BY <1>4 DEF symbolKey, Key
<1>6. SymbolInv(pos)'
  BY <1>2, <1>4, <1>5 DEF SymbolInv, RowsHeld
<1> QED
  BY <1>3, <1>6 DEF SymbolNext

----------------------------------------------------------------------------
(* What the invariant says of the walks and the searches.                  *)

\* A sequence without repetitions is as long as its elements are many.
LEMMA LengthIsCount ==
    ASSUME NEW q \in Seq(Node), \A i, j \in 1..Len(q) : q[i] = q[j] => i = j,
           NEW A, A = { q[i] : i \in 1..Len(q) }
    PROVE  Cardinality(A) = Len(q)
<1>1. Len(q) \in Nat /\ DOMAIN q = 1..Len(q) /\ q \in [1..Len(q) -> Node]
  OBVIOUS
<1>2. q \in [1..Len(q) -> A]
  BY <1>1
<1>3. q \in Bijection(1..Len(q), A)
  BY <1>1, <1>2 DEF Bijection, Injection, Surjection, IsInjective
<1>4. ExistsBijection(1..Len(q), A)
  BY <1>3 DEF ExistsBijection
<1>5. 1 \in Int /\ Len(q) \in Int
  BY <1>1
<1>6. IsFiniteSet(1..Len(q)) /\ Cardinality(1..Len(q)) = IF 1 > Len(q) THEN 0 ELSE Len(q) - 1 + 1
  BY <1>5, FS_Interval, Zenon
<1>7. Cardinality(1..Len(q)) = Len(q)
  BY <1>1, <1>6
<1> QED
  BY <1>4, <1>6, <1>7, FS_Bijection

\* The nodes are the ones the owner has, in the order of their keys.
LEMMA NodesAreInOrder ==
    ASSUME NEW S, NEW pos, Links(t), Shape(t, S, pos), SymbolInv(pos)
    PROVE  NodesInOrder
<1>1. PICK q : q = InOrder(t, t.root)
  OBVIOUS
<1>2. live = InTree(t) /\ OrderedBy(live, pos, symbolKey) /\ pos \in [Node -> Int]
  BY DEF SymbolInv, Shape
<1>3. Sorted(q, pos, live)
  BY <1>1, <1>2, TreeSorted
<1>4. /\ q \in Seq(Node) /\ Len(q) \in Nat /\ DOMAIN q = 1..Len(q)
      /\ \A i \in 1..Len(q) : q[i] \in live /\ q[i] \in Node /\ pos[q[i]] \in Int
      /\ \A i, j \in 1..Len(q) : i < j => pos[q[i]] < pos[q[j]]
  BY <1>2, <1>3 DEF Sorted
<1>5. live = { q[i] : i \in 1..Len(q) }
  BY <1>3 DEF Sorted
<1>6. ASSUME NEW i \in 1..Len(q), NEW j \in 1..Len(q), q[i] = q[j] PROVE i = j
  <2>1. ~(i < j)
    BY <1>4, <1>6
  <2>2. ~(j < i)
    BY <1>4, <1>6
  <2> QED
    BY <1>4, <2>1, <2>2
<1>7. Len(q) = Cardinality(live)
  BY <1>4, <1>5, <1>6, LengthIsCount
<1>8. ASSUME NEW k \in 1..Len(q) - 1 PROVE Key(q[k]) <= Key(q[k + 1])
  <2>1. k \in 1..Len(q) /\ k + 1 \in 1..Len(q) /\ k < k + 1
    BY <1>4
  <2>2. pos[q[k]] < pos[q[k + 1]]
    BY <1>4, <2>1
  <2>3. symbolKey[q[k]] <= symbolKey[q[k + 1]]
    BY <1>2, <1>4, <2>1, <2>2 DEF OrderedBy
  <2> QED
    BY <1>4, <2>1, <2>3 DEF symbolKey
<1>9. phase = "free" => IF cursor = NIL THEN live = {} ELSE cursor \in live
  BY DEF SymbolInv, First
<1> QED
  BY <1>1, <1>4, <1>5, <1>7, <1>8, <1>9 DEF NodesInOrder

\* The functions that the searches are defined by.
FloorFun(a) ==
    CHOOSE f : f = [m \in Link |-> [found \in Link |->
          IF m = NIL THEN found
          ELSE IF a >= row[m].lo THEN f[t.kid[m]["right"]][m]
                                 ELSE f[t.kid[m]["left"]][found]]]
\* The function that rb_search_symbol is defined by.
SymbolFun(a) ==
    CHOOSE f : f = [m \in Link |->
          IF m = NIL THEN NIL
          ELSE IF Covers(m, a) THEN m
          ELSE f[t.kid[m][IF a < row[m].lo THEN "left" ELSE "right"]]]
\* The function that find_vma_from_process is defined by.
VmaFun(a) ==
    CHOOSE f : f = [m \in Link |->
          IF m = NIL THEN NIL
          ELSE IF a < row[m].lo THEN f[t.kid[m]["left"]]
          ELSE IF a >= row[m].hi THEN f[t.kid[m]["right"]]
          ELSE m]

\* The addresses of the rows.
LEMMA RowFields ==
    ASSUME row \in Seq(AddrRange)
    PROVE  /\ \A a \in Addr : a \in Int
           /\ \A k \in DOMAIN row : row[k].lo \in Int /\ row[k].hi \in Int
<1>1. \A a \in Addr : a \in Int
  BY SymbolAssumption DEF Addr
<1>2. \A k \in DOMAIN row : row[k] \in AddrRange
  OBVIOUS
<1>3. \A r \in AddrRange : r.lo \in Addr /\ r.hi \in Addr
  BY DEF AddrRange
<1> QED
  BY <1>1, <1>2, <1>3

\* A search that goes left of the rows behind a, stops at a row with a, and
\* else goes right, finds what RangeLookup says.
RangeTurns(a) == [m \in Node |-> IF a < row[m].lo THEN "left" ELSE "right"]

\* The search of elf.c and vma.c misses an address only if a nested range obstructs it.
LEMMA RangeFound ==
    ASSUME NEW S, NEW pos, Links(t), Shape(t, S, pos), SymbolInv(pos),
           user \in {"elf", "vma"}, NEW a \in Addr,
           NEW H, \A m \in live : m \in H <=> Covers(m, a),
           NEW f, SearchEq(t, H, RangeTurns(a), f)
    PROVE  RangeLookup(a, f[t.root])
<1>1. /\ live = InTree(t) /\ live \subseteq DOMAIN row /\ row \in Seq(AddrRange)
      /\ OrderedBy(live, pos, symbolKey) /\ live \subseteq Node
  BY DEF SymbolInv, InTree
<1>2. a \in Int /\ \A m \in live : row[m].lo \in Int /\ row[m].hi \in Int
  BY <1>1, RowFields
<1>3. \A m \in live : symbolKey[m] = row[m].lo
  BY <1>1 DEF symbolKey, Key
<1>4. RangeTurns(a) \in [Node -> Side]
  BY Basics DEF RangeTurns
<1>5. FoundIs(live, pos, RangeTurns(a), H, f[t.root])
  BY <1>1, <1>4, SearchTree
<1>6. PICK r : r = f[t.root]
  OBVIOUS
<1>7. CASE r # NIL
  BY <1>5, <1>6, <1>7 DEF FoundIs, RangeLookup
<1>8. CASE r = NIL
  <2>1. SUFFICES ASSUME NEW n \in live, Unobstructed(n, a) PROVE FALSE
    BY <1>6, <1>8 DEF RangeLookup
  <2>2. PICK k \in live : /\ k \notin H
                          /\ n = k \/ At(pos, n, Other(RangeTurns(a)[k]), k)
    BY <1>5, <1>6, <1>8 DEF FoundIs
  <2>3. /\ Covers(n, a)
        /\ \A m \in live : row[n].lo <= row[m].lo /\ row[m].lo <= a => a < row[m].hi
    BY <2>1 DEF Unobstructed
  <2>4. n # k
    BY <2>2, <2>3
  <2>5. row[n].lo <= a /\ ~Covers(k, a)
    BY <2>2, <2>3 DEF Covers
  <2>6. CASE a < row[k].lo
    <3>1. pos[k] < pos[n]
      BY <1>1, <2>2, <2>4, <2>6, Basics DEF RangeTurns, At
    <3>2. row[k].lo <= row[n].lo
      BY <1>1, <1>3, <3>1 DEF OrderedBy
    <3> QED
      BY <1>2, <2>5, <2>6, <3>2
  <2>7. CASE ~(a < row[k].lo)
    <3>1. pos[n] < pos[k]
      BY <1>1, <2>2, <2>4, <2>7, Basics DEF RangeTurns, At
    <3>2. row[n].lo <= row[k].lo
      BY <1>1, <1>3, <3>1 DEF OrderedBy
    <3>3. a < row[k].hi
      BY <1>2, <2>3, <2>7, <3>2
    <3> QED
      BY <1>2, <2>5, <2>7, <3>3 DEF Covers
  <2> QED
    BY <2>6, <2>7
<1> QED
  BY <1>7, <1>8


\* rb_search_symbol is such a search.
LEMMA SymbolFound ==
    ASSUME NEW S, NEW pos, Links(t), Shape(t, S, pos), SymbolInv(pos),
           user = "elf", NEW a \in Addr
    PROVE  RangeLookup(a, rb_search_symbol(a))
<1>1. PICK dir, H : dir = RangeTurns(a) /\ H = { m \in Node : Covers(m, a) }
  OBVIOUS
<1>2. /\ dir \in [Node -> Side]
      /\ \A m \in Node : dir[m] = IF a < row[m].lo THEN "left" ELSE "right"
      /\ \A m \in Node : m \in H <=> Covers(m, a)
  BY <1>1, Basics DEF RangeTurns, Covers
<1>3. PICK g : SearchEq(t, H, dir, g)
  BY <1>2, SearchExists
<1>4. g = [m \in Link |->
          IF m = NIL THEN NIL
          ELSE IF Covers(m, a) THEN m
          ELSE g[t.kid[m][IF a < row[m].lo THEN "left" ELSE "right"]]]
  <2>1. ASSUME NEW m \in Link
        PROVE  (IF m = NIL THEN NIL ELSE IF m \in H THEN m ELSE g[t.kid[m][dir[m]]])
             = (IF m = NIL THEN NIL ELSE IF Covers(m, a) THEN m
                ELSE g[t.kid[m][IF a < row[m].lo THEN "left" ELSE "right"]])
    <3>1. CASE m = NIL
      BY <3>1
    <3>2. CASE m # NIL
      <4>1. m \in Node
        BY <3>2, Basics
      <4>2. dir[m] = IF a < row[m].lo THEN "left" ELSE "right"
        BY <1>2, <4>1
      <4>3. m \in H <=> Covers(m, a)
        BY <1>2, <4>1
      <4> QED
        BY <4>2, <4>3, Zenon
    <3> QED
      BY <3>1, <3>2
  <2> QED
    BY <1>3, <2>1, Zenon DEF SearchEq
<1>5. PICK f : f = SymbolFun(a)
  OBVIOUS
<1>6. f = [m \in Link |->
          IF m = NIL THEN NIL
          ELSE IF Covers(m, a) THEN m
          ELSE f[t.kid[m][IF a < row[m].lo THEN "left" ELSE "right"]]]
  BY <1>4, <1>5 DEF SymbolFun
<1>7. rb_search_symbol(a) = f[t.root]
  BY <1>5, Zenon DEF rb_search_symbol, SymbolFun
<1>8. SearchEq(t, H, dir, f)
  <2>1. ASSUME NEW m \in Link
        PROVE  (IF m = NIL THEN NIL ELSE IF m \in H THEN m ELSE f[t.kid[m][dir[m]]])
             = (IF m = NIL THEN NIL ELSE IF Covers(m, a) THEN m
                ELSE f[t.kid[m][IF a < row[m].lo THEN "left" ELSE "right"]])
    <3>1. CASE m = NIL
      BY <3>1
    <3>2. CASE m # NIL
      <4>1. m \in Node
        BY <3>2, Basics
      <4>2. dir[m] = IF a < row[m].lo THEN "left" ELSE "right"
        BY <1>2, <4>1
      <4>3. m \in H <=> Covers(m, a)
        BY <1>2, <4>1
      <4> QED
        BY <4>2, <4>3, Zenon
    <3> QED
      BY <3>1, <3>2
  <2> QED
    BY <1>6, <2>1, Zenon DEF SearchEq
<1>9. SearchEq(t, H, RangeTurns(a), f)
  BY <1>1, <1>8
<1>10. live \subseteq Node
  BY DEF SymbolInv, InTree
<1> QED
  BY <1>2, <1>7, <1>9, <1>10, RangeFound

\* find_vma_from_process is such a search.
LEMMA VmaFound ==
    ASSUME NEW S, NEW pos, Links(t), Shape(t, S, pos), SymbolInv(pos),
           user = "vma", NEW a \in Addr
    PROVE  RangeLookup(a, find_vma_from_process(a))
<1>1. PICK dir, H : /\ dir = RangeTurns(a)
                    /\ H = { m \in Node : ~(a < row[m].lo) /\ ~(a >= row[m].hi) }
  OBVIOUS
<1>2. /\ dir \in [Node -> Side]
      /\ \A m \in Node : dir[m] = IF a < row[m].lo THEN "left" ELSE "right"
      /\ \A m \in Node : m \in H <=> ~(a < row[m].lo) /\ ~(a >= row[m].hi)
  BY <1>1, Basics DEF RangeTurns
<1>3. PICK g : SearchEq(t, H, dir, g)
  BY <1>2, SearchExists
<1>4. g = [m \in Link |->
          IF m = NIL THEN NIL
          ELSE IF a < row[m].lo THEN g[t.kid[m]["left"]]
          ELSE IF a >= row[m].hi THEN g[t.kid[m]["right"]]
          ELSE m]
  BY <1>2, <1>3, Basics DEF SearchEq
<1>5. PICK f : f = VmaFun(a)
  OBVIOUS
<1>6. f = [m \in Link |->
          IF m = NIL THEN NIL
          ELSE IF a < row[m].lo THEN f[t.kid[m]["left"]]
          ELSE IF a >= row[m].hi THEN f[t.kid[m]["right"]]
          ELSE m]
  BY <1>4, <1>5 DEF VmaFun
<1>7. find_vma_from_process(a) = f[t.root]
  BY <1>5, Zenon DEF find_vma_from_process, VmaFun
<1>8. SearchEq(t, H, dir, f)
  BY <1>2, <1>6, Basics DEF SearchEq
<1>9. SearchEq(t, H, RangeTurns(a), f)
  BY <1>1, <1>8
<1>10. live \subseteq Node /\ live \subseteq DOMAIN row /\ row \in Seq(AddrRange)
  BY DEF SymbolInv, InTree
<1>11. \A m \in live : m \in H <=> Covers(m, a)
  <2>1. a \in Int /\ \A m \in live : row[m].lo \in Int /\ row[m].hi \in Int
    BY <1>10, RowFields
  <2> QED
    BY <1>2, <1>10, <2>1 DEF Covers
<1> QED
  BY <1>7, <1>9, <1>11, RangeFound

\* find_kernel_symbol goes down to the greatest key that is not above a.
LEMMA KernelSearch ==
    ASSUME NEW S, NEW pos, Links(t), Shape(t, S, pos), NEW a \in Int,
           \A m \in InTree(t) : row[m].lo \in Int,
           NEW dir, Leads(t, pos, dir),
           \A m \in Node : dir[m] = IF a >= row[m].lo THEN "right" ELSE "left"
    PROVE  FloorIs(InTree(t), pos, dir, NIL, find_kernel_symbol(a))
<1>1. dir \in [Node -> Side]
  BY DEF Leads
<1>2. PICK g : FloorEq(t, dir, g)
  BY <1>1, FloorExists
<1>3. g = [m \in Link |-> [found \in Link |->
          IF m = NIL THEN found
          ELSE IF a >= row[m].lo THEN g[t.kid[m]["right"]][m]
                                 ELSE g[t.kid[m]["left"]][found]]]
  <2>1. \A m \in Link, found \in Link :
          (IF m = NIL THEN found ELSE IF dir[m] = "right" THEN g[t.kid[m]["right"]][m]
                                      ELSE g[t.kid[m]["left"]][found])
        = (IF m = NIL THEN found ELSE IF a >= row[m].lo THEN g[t.kid[m]["right"]][m]
                                      ELSE g[t.kid[m]["left"]][found])
    BY Basics
  <2>2. \A m \in Link : 
          [found \in Link |-> IF m = NIL THEN found ELSE IF dir[m] = "right" THEN g[t.kid[m]["right"]][m]
                                      ELSE g[t.kid[m]["left"]][found]]
        = [found \in Link |-> IF m = NIL THEN found ELSE IF a >= row[m].lo THEN g[t.kid[m]["right"]][m]
                                      ELSE g[t.kid[m]["left"]][found]]
    BY <2>1
  <2> QED
    BY <1>2, <2>2, Zenon DEF FloorEq
<1>4. PICK f : f = FloorFun(a)
  OBVIOUS
<1>5. f = [m \in Link |-> [found \in Link |->
          IF m = NIL THEN found
          ELSE IF a >= row[m].lo THEN f[t.kid[m]["right"]][m]
                                 ELSE f[t.kid[m]["left"]][found]]]
  BY <1>3, <1>4, Zenon DEF FloorFun
<1>6. find_kernel_symbol(a) = f[t.root][NIL]
  BY <1>4, Zenon DEF find_kernel_symbol, FloorFun
<1>7. FloorEq(t, dir, f)
  <2>1. \A m \in Link, found \in Link :
          (IF m = NIL THEN found ELSE IF dir[m] = "right" THEN f[t.kid[m]["right"]][m]
                                      ELSE f[t.kid[m]["left"]][found])
        = (IF m = NIL THEN found ELSE IF a >= row[m].lo THEN f[t.kid[m]["right"]][m]
                                      ELSE f[t.kid[m]["left"]][found])
    BY Basics
  <2>2. \A m \in Link : 
          [found \in Link |-> IF m = NIL THEN found ELSE IF dir[m] = "right" THEN f[t.kid[m]["right"]][m]
                                      ELSE f[t.kid[m]["left"]][found]]
        = [found \in Link |-> IF m = NIL THEN found ELSE IF a >= row[m].lo THEN f[t.kid[m]["right"]][m]
                                      ELSE f[t.kid[m]["left"]][found]]
    BY <2>1
  <2> QED
    BY <1>5, <2>2, Zenon DEF FloorEq
<1> QED
  BY <1>6, <1>7, FloorTree

\* It finds the symbol that a search of all rows finds.
LEMMA KernelFound ==
    ASSUME NEW S, NEW pos, Links(t), Shape(t, S, pos), SymbolInv(pos),
           user = "kernel", phase = "use", NEW a \in Addr
    PROVE  KernelLookup(a, find_kernel_symbol(a))
<1>1. PICK dir : dir = [m \in Node |-> IF a >= row[m].lo THEN "right" ELSE "left"]
  OBVIOUS
<1>2. /\ live = InTree(t) /\ live \subseteq DOMAIN row /\ row \in Seq(AddrRange)
      /\ OrderedBy(live, pos, symbolKey) /\ live \subseteq Node /\ pos \in [Node -> Int]
      /\ DOMAIN row \subseteq Int /\ NIL \notin Node
  BY Basics DEF SymbolInv, InTree, Shape
<1>3. a \in Int /\ \A k \in DOMAIN row : row[k].lo \in Int
  BY <1>2, RowFields
<1>4. \A m \in Node : symbolKey[m] = row[m].lo
  BY DEF symbolKey, Key
<1>5. /\ dir \in [Node -> Side]
      /\ \A m \in Node : dir[m] = IF a >= row[m].lo THEN "right" ELSE "left"
  BY <1>1, Basics
<1>6. Leads(t, pos, dir)
  <2>1. Leads(t, pos, Turns(symbolKey, a))
    BY <1>2, <1>3, KeyLeads
  <2>2. \A m \in InTree(t) : dir[m] = Turns(symbolKey, a)[m]
    BY <1>2, <1>3, <1>4, <1>5 DEF Turns
  <2> QED
    BY <1>2, <1>5, <2>1, <2>2 DEF Leads
<1>7. /\ \A k \in DOMAIN row : \E n \in live : n <= k /\ row[n].lo = row[k].lo
      /\ \A m, n \in live : row[m].lo = row[n].lo => m = n
  BY DEF SymbolInv, RowsHeld
<1>8. PICK r : r = find_kernel_symbol(a)
  OBVIOUS
<1>9. FloorIs(live, pos, dir, NIL, r)
  BY <1>2, <1>3, <1>6, <1>5, <1>8, KernelSearch
<1>10. PICK below : below = { k \in DOMAIN row : row[k].lo <= a }
  OBVIOUS
<1>11. \A m \in live : m \in Node /\ row[m].lo \in Int
  BY <1>2, <1>3
<1>12. CASE r = NIL /\ \A n \in live : dir[n] = "left"
  <2>1. ASSUME NEW k \in DOMAIN row, row[k].lo <= a PROVE FALSE
    <3>1. PICK n \in live : row[n].lo = row[k].lo
      BY <1>7
    <3>2. ~(a >= row[n].lo)
      BY <1>5, <1>11, <1>12, Basics
    <3> QED
      BY <1>3, <1>11, <2>1, <3>1, <3>2
  <2>2. below = {}
    BY <1>10, <2>1
  <2> QED
    BY <1>8, <1>10, <1>12, <2>2 DEF KernelLookup
<1>13. CASE /\ r \in live /\ dir[r] = "right"
            /\ \A n \in live : dir[n] = "right" => n = r \/ At(pos, n, "left", r)
  <2>1. r \in below
    <3>1. a >= row[r].lo
      BY <1>5, <1>11, <1>13, Basics
    <3> QED
      BY <1>2, <1>3, <1>10, <1>11, <1>13, <3>1
  <2>2. ASSUME NEW k \in below
        PROVE  row[k].lo < row[r].lo \/ (row[k].lo = row[r].lo /\ r <= k)
    <3>1. k \in DOMAIN row /\ row[k].lo <= a /\ row[k].lo \in Int /\ row[r].lo \in Int
      BY <1>3, <1>10, <1>11, <1>13
    <3>2. PICK n \in live : n <= k /\ row[n].lo = row[k].lo
      BY <1>7, <3>1
    <3>3. a >= row[n].lo
      BY <1>3, <3>1, <3>2
    <3>4. dir[n] = "right"
      BY <1>5, <1>11, <3>3
    <3>5. n = r \/ pos[n] < pos[r]
      BY <1>13, <3>4 DEF At
    <3>6. CASE n = r
      BY <3>2, <3>6
    <3>7. CASE n # r
      <4>1. row[n].lo <= row[r].lo
        BY <1>2, <1>4, <1>11, <1>13, <3>5, <3>7 DEF OrderedBy
      <4>2. row[n].lo # row[r].lo
        BY <1>7, <1>13, <3>7
      <4> QED
        BY <3>1, <3>2, <4>1, <4>2
    <3> QED
      BY <3>6, <3>7
  <2> QED
    BY <1>8, <1>10, <2>1, <2>2 DEF KernelLookup
<1> QED
  BY <1>9, <1>12, <1>13 DEF FloorIs

\* Every lookup finds what a search of all rows finds.
LEMMA LookupsHold ==
    ASSUME NEW S, NEW pos, Links(t), Shape(t, S, pos), SymbolInv(pos)
    PROVE  LookupsCorrect
BY SymbolFound, VmaFound, KernelFound DEF LookupsCorrect

----------------------------------------------------------------------------
(* Sequences without repetitions.                                          *)

\* No element is in q twice.
Distinct(q) == \A i, j \in 1..Len(q) : q[i] = q[j] => i = j

\* Both parts of a concatenation.
Joined(X, a, b, r) ==
    /\ r \in Seq(X) /\ Len(r) = Len(a) + Len(b)
    /\ \A i \in 1..Len(a) : r[i] = a[i]
    /\ \A i \in 1..Len(b) : r[Len(a) + i] = b[i]

\* The concatenation has both.
LEMMA ConcatJoins ==
    ASSUME NEW X, NEW a \in Seq(X), NEW b \in Seq(X)
    PROVE  Joined(X, a, b, a \o b)
<1>1. a \o b \in Seq(X) /\ Len(a \o b) = Len(a) + Len(b) /\ Len(a) \in Nat /\ Len(b) \in Nat
  OBVIOUS
<1>2. \A i \in 1..Len(a) : (a \o b)[i] = a[i]
  OBVIOUS
<1>3. ASSUME NEW i \in 1..Len(b) PROVE (a \o b)[Len(a) + i] = b[i]
  <2>1. Len(a) + i \in 1..(Len(a) + Len(b)) /\ ~(Len(a) + i <= Len(a)) /\ Len(a) + i - Len(a) = i
    BY <1>1
  <2> QED
    BY <2>1
<1> QED
  BY <1>1, <1>2, <1>3 DEF Joined

\* r is q without its j-th element.
IsWithout(q, j, r) ==
    /\ Len(r) = Len(q) - 1
    /\ \A i \in 1..Len(q) - 1 : r[i] = IF i < j THEN q[i] ELSE q[i + 1]

\* RemoveFirst takes out the one place of the element.
LEMMA RemoveFound ==
    ASSUME NEW X, NEW q \in Seq(X), Distinct(q), NEW j \in 1..Len(q), NEW e, e = q[j]
    PROVE  RemoveFirst(q, e) \in Seq(X) /\ IsWithout(q, j, RemoveFirst(q, e))
<1>1. Len(q) \in Nat /\ j \in Nat /\ 1 <= j /\ j <= Len(q)
  OBVIOUS
<1>2. PICK I : I = { i \in 1..Len(q) : q[i] = e }
  OBVIOUS
<1>3. I = {j}
  BY <1>2 DEF Distinct
<1>4. Min(I) = j
  BY <1>1, <1>3 DEF Min
<1>5. SelectInSeq(q, LAMBDA v : v = e) = IF I # {} THEN Min(I) ELSE 0
  BY <1>2, Zenon DEF SelectInSeq
<1>6. SelectInSeq(q, LAMBDA v : v = e) = j
  BY <1>3, <1>4, <1>5
<1>7. RemoveFirst(q, e) = RemoveAt(q, SelectInSeq(q, LAMBDA v : v = e))
  BY DEF RemoveFirst
<1>8. RemoveFirst(q, e) = SubSeq(q, 1, j - 1) \o SubSeq(q, j + 1, Len(q))
  BY <1>6, <1>7 DEF RemoveAt
<1>9. PICK a, b : a = SubSeq(q, 1, j - 1) /\ b = SubSeq(q, j + 1, Len(q))
  OBVIOUS
<1>10. a \in Seq(X) /\ Len(a) = j - 1 /\ \A i \in 1..j - 1 : a[i] = q[i]
  BY <1>1, <1>9
<1>11. b \in Seq(X) /\ Len(b) = Len(q) - j /\ \A i \in 1..Len(q) - j : b[i] = q[j + i]
  BY <1>1, <1>9
<1>12. PICK r : r = a \o b
  OBVIOUS
<1>13. /\ r \in Seq(X) /\ Len(r) = Len(a) + Len(b)
       /\ \A i \in 1..Len(a) : r[i] = a[i]
       /\ \A i \in 1..Len(b) : r[Len(a) + i] = b[i]
  <2>1. Joined(X, a, b, r)
    BY <1>10, <1>11, <1>12, ConcatJoins
  <2> QED
    BY <2>1 DEF Joined
<1>14. IsWithout(q, j, r)
  <2>1. Len(r) = Len(q) - 1
    BY <1>1, <1>10, <1>11, <1>13
  <2>2. ASSUME NEW i \in 1..Len(q) - 1 PROVE r[i] = IF i < j THEN q[i] ELSE q[i + 1]
    <3>1. CASE i < j
      <4>1. i \in 1..j - 1 /\ i \in 1..Len(a)
        BY <1>1, <1>10, <3>1
      <4> QED
        BY <1>10, <1>13, <2>1, <3>1, <4>1
    <3>2. CASE ~(i < j)
      <4>1. /\ i - (j - 1) \in 1..Len(q) - j /\ i - (j - 1) \in 1..Len(b)
            /\ j + (i - (j - 1)) = i + 1 /\ Len(a) + (i - (j - 1)) = i
        BY <1>1, <1>10, <1>11, <3>2
      <4>2. r[i] = b[i - (j - 1)]
        BY <1>13, <4>1
      <4> QED
        BY <1>11, <3>2, <4>1, <4>2
    <3> QED
      BY <3>1, <3>2
  <2> QED
    BY <2>1, <2>2 DEF IsWithout
<1> QED
  BY <1>8, <1>9, <1>12, <1>13, <1>14

\* RemoveFirst changes nothing when the element is missing.
LEMMA RemoveMissing ==
    ASSUME NEW X, NEW q \in Seq(X), NEW e, \A i \in 1..Len(q) : q[i] # e
    PROVE  RemoveFirst(q, e) = q
BY DEF RemoveFirst

\* Without an element the others are there, in the same order.
LEMMA WithoutFacts ==
    ASSUME NEW X, NEW q \in Seq(X), Distinct(q), NEW j \in 1..Len(q),
           NEW r \in Seq(X), IsWithout(q, j, r)
    PROVE  /\ Distinct(r)
           /\ \A i \in 1..Len(r) : r[i] # q[j]
           /\ \A k \in 1..Len(q) : k # j => \E i \in 1..Len(r) : r[i] = q[k]
           /\ \A i \in 1..Len(r) : \E k \in 1..Len(q) : r[i] = q[k]
<1>1. Len(q) \in Nat /\ Len(r) = Len(q) - 1
  BY DEF IsWithout
<1>2. \A i \in 1..Len(r) : /\ i \in 1..Len(q) /\ i + 1 \in 1..Len(q)
                           /\ r[i] = IF i < j THEN q[i] ELSE q[i + 1]
  BY <1>1 DEF IsWithout
<1>3. ASSUME NEW i \in 1..Len(r), NEW k \in 1..Len(r), r[i] = r[k] PROVE i = k
  <2>1. CASE i < j /\ k < j
    BY <1>2, <1>3, <2>1 DEF Distinct
  <2>2. CASE i < j /\ ~(k < j)
    <3>1. q[i] = q[k + 1]
      BY <1>2, <1>3, <2>2
    <3>2. i = k + 1
      BY <1>2, <3>1 DEF Distinct
    <3> QED
      BY <2>2, <3>2
  <2>3. CASE ~(i < j) /\ k < j
    <3>1. q[i + 1] = q[k]
      BY <1>2, <1>3, <2>3
    <3>2. i + 1 = k
      BY <1>2, <3>1 DEF Distinct
    <3> QED
      BY <2>3, <3>2
  <2>4. CASE ~(i < j) /\ ~(k < j)
    <3>1. q[i + 1] = q[k + 1]
      BY <1>2, <1>3, <2>4
    <3>2. i + 1 = k + 1
      BY <1>2, <3>1 DEF Distinct
    <3> QED
      BY <3>2
  <2> QED
    BY <2>1, <2>2, <2>3, <2>4
<1>4. ASSUME NEW i \in 1..Len(r) PROVE r[i] # q[j]
  <2>1. CASE i < j
    <3>1. q[i] # q[j]
      BY <1>2, <2>1 DEF Distinct
    <3> QED
      BY <1>2, <2>1, <3>1
  <2>2. CASE ~(i < j)
    <3>1. q[i + 1] # q[j]
      BY <1>2, <2>2 DEF Distinct
    <3> QED
      BY <1>2, <2>2, <3>1
  <2> QED
    BY <2>1, <2>2
<1>5. ASSUME NEW k \in 1..Len(q), k # j PROVE \E i \in 1..Len(r) : r[i] = q[k]
  <2>1. CASE k < j
    <3>1. k \in 1..Len(r)
      BY <1>1, <2>1
    <3> QED
      BY <1>2, <2>1, <3>1
  <2>2. CASE j < k
    <3>1. k - 1 \in 1..Len(r) /\ ~(k - 1 < j) /\ k - 1 + 1 = k
      BY <1>1, <2>2
    <3> QED
      BY <1>2, <3>1
  <2> QED
    BY <1>1, <1>5, <2>1, <2>2
<1>6. \A i \in 1..Len(r) : \E k \in 1..Len(q) : r[i] = q[k]
  BY <1>2
<1> QED
  BY <1>3, <1>4, <1>5, <1>6 DEF Distinct

\* r is q with a new element e at the end.
Appended(X, q, e, r) ==
    /\ r \in Seq(X) /\ Distinct(r)
    /\ Len(r) = Len(q) + 1 /\ r[Len(q) + 1] = e
    /\ \A i \in 1..Len(q) : r[i] = q[i]

\* Append does that.
LEMMA AppendDistinct ==
    ASSUME NEW X, NEW q \in Seq(X), Distinct(q), NEW e \in X, \A i \in 1..Len(q) : q[i] # e
    PROVE  Appended(X, q, e, Append(q, e))
<1>1. PICK r : r = Append(q, e)
  OBVIOUS
<1>2. /\ r \in Seq(X) /\ Len(q) \in Nat /\ Len(r) = Len(q) + 1 /\ r[Len(q) + 1] = e
      /\ \A i \in 1..Len(q) : r[i] = q[i]
  BY <1>1
<1>3. ASSUME NEW i \in 1..Len(r), NEW k \in 1..Len(r), r[i] = r[k] PROVE i = k
  <2>1. (i \in 1..Len(q) \/ i = Len(q) + 1) /\ (k \in 1..Len(q) \/ k = Len(q) + 1)
    BY <1>2
  <2> QED
    BY <1>2, <1>3, <2>1 DEF Distinct
<1> QED
  BY <1>1, <1>2, <1>3 DEF Distinct, Appended

\* The elements of q.
Elements(q) == { q[i] : i \in 1..Len(q) }

\* r is q from its c-th element on.
IsTailOf(X, q, c, r) ==
    /\ r \in Seq(X) /\ Distinct(r) /\ Len(r) = Len(q) - c + 1
    /\ \A i \in 1..Len(q) - c + 1 : r[i] = q[c + i - 1]

\* SubSeq up to the end does that.
LEMMA SuffixFacts ==
    ASSUME NEW X, NEW q \in Seq(X), Distinct(q), NEW c \in Nat, 1 <= c, c <= Len(q) + 1
    PROVE  IsTailOf(X, q, c, SubSeq(q, c, Len(q)))
<1>1. PICK r : r = SubSeq(q, c, Len(q))
  OBVIOUS
<1>2. /\ r \in Seq(X) /\ Len(q) \in Nat /\ Len(r) = Len(q) - c + 1
      /\ \A i \in 1..Len(q) - c + 1 : r[i] = q[c + i - 1]
  BY <1>1
<1>3. ASSUME NEW i \in 1..Len(r), NEW k \in 1..Len(r), r[i] = r[k] PROVE i = k
  <2>1. c + i - 1 \in 1..Len(q) /\ c + k - 1 \in 1..Len(q)
    BY <1>2
  <2>2. q[c + i - 1] = q[c + k - 1]
    BY <1>2, <1>3
  <2>3. c + i - 1 = c + k - 1
    BY <2>1, <2>2 DEF Distinct
  <2> QED
    BY <2>3
<1> QED
  BY <1>1, <1>2, <1>3 DEF Distinct, IsTailOf

\* r is q without its j-th element, which is nowhere else in q.
Taken(X, q, j, r) ==
    /\ r \in Seq(X) /\ Distinct(r) /\ IsWithout(q, j, r)
    /\ Elements(r) = Elements(q) \ {q[j]}

\* RemoveFirst does that.
LEMMA RemoveTakes ==
    ASSUME NEW X, NEW q \in Seq(X), Distinct(q), NEW j \in 1..Len(q), NEW e, e = q[j]
    PROVE  Taken(X, q, j, RemoveFirst(q, e))
<1>1. PICK r : r = RemoveFirst(q, e)
  OBVIOUS
<1>2. r \in Seq(X) /\ IsWithout(q, j, r)
  BY <1>1, RemoveFound
<1>3. Distinct(r)
  BY <1>2, WithoutFacts
<1>4. \A i \in 1..Len(r) : r[i] # q[j]
  BY <1>2, WithoutFacts
<1>5. \A k \in 1..Len(q) : k # j => \E i \in 1..Len(r) : r[i] = q[k]
  BY <1>2, WithoutFacts
<1>6. \A i \in 1..Len(r) : \E k \in 1..Len(q) : r[i] = q[k]
  BY <1>2, WithoutFacts
<1>7. ASSUME NEW v \in Elements(r) PROVE v \in Elements(q) \ {q[j]}
  BY <1>4, <1>6 DEF Elements
<1>8. ASSUME NEW v \in Elements(q) \ {q[j]} PROVE v \in Elements(r)
  <2>1. PICK k \in 1..Len(q) : v = q[k] /\ k # j
    BY <1>8 DEF Elements
  <2> QED
    BY <1>5, <2>1 DEF Elements
<1>9. Elements(r) = Elements(q) \ {q[j]}
  BY <1>7, <1>8
<1> QED
  BY <1>1, <1>2, <1>3, <1>9 DEF Taken

----------------------------------------------------------------------------
(* The blocks of the cache.                                                *)

\* The block that holds the byte o starts here.
BaseOf(o) == (o \div BlockSize) * BlockSize

\* A byte lies in the block that starts at its base.
LEMMA BaseFacts ==
    ASSUME NEW o \in Nat
    PROVE  /\ o \div BlockSize \in Nat /\ BaseOf(o) \in Nat
           /\ o % BlockSize \in Nat /\ o % BlockSize < BlockSize
           /\ o = BaseOf(o) + (o % BlockSize)
<1>1. BlockSize \in Nat /\ BlockSize > 0
  BY BlockAssumption
<1>2. o \div BlockSize \in Nat /\ o % BlockSize \in Nat /\ o % BlockSize < BlockSize
  BY <1>1
<1>3. o = (o \div BlockSize) * BlockSize + (o % BlockSize)
  BY <1>1
<1>4. (o \div BlockSize) * BlockSize \in Nat
  BY <1>1, <1>2
<1> QED
  BY <1>2, <1>3, <1>4 DEF BaseOf

\* Different blocks are at least a block apart.
LEMMA BlocksApart ==
    ASSUME NEW p \in Nat, NEW q \in Nat, p < q
    PROVE  p * BlockSize \in Nat /\ q * BlockSize \in Nat /\ p * BlockSize + BlockSize <= q * BlockSize
<1>1. BlockSize \in Nat
  BY BlockAssumption
<1>2. PICK d \in Nat : q = p + 1 + d
  <2>1. q - p - 1 \in Nat /\ q = p + 1 + (q - p - 1)
    OBVIOUS
  <2> QED
    BY <2>1
<1>3. q * BlockSize = p * BlockSize + BlockSize + d * BlockSize
  BY <1>1, <1>2
<1>4. d * BlockSize \in Nat /\ p * BlockSize \in Nat
  BY <1>1
<1> QED
  BY <1>1, <1>3, <1>4

\* Where a block may start.
Multiple(o) == \E q \in Nat : o = q * BlockSize

\* A block as create_cache_block makes it.
IsBlock(b) == \E q \in Nat : q * BlockSize < FileSize /\ b = create_cache_block(q * BlockSize)

\* What a block holds: the bytes of the file from its offset on.
BlockFacts(b) ==
    /\ b.offset \in Nat /\ b.offset < FileSize
    /\ Multiple(b.offset)
    /\ b.data \in Seq(Nat) /\ Len(b.data) = BlockSize
    /\ \A i \in 1..BlockSize : b.offset + i - 1 < FileSize => b.data[i] = b.offset + i - 1

\* Every block holds that.
LEMMA BlockContent ==
    ASSUME NEW b, IsBlock(b)
    PROVE  BlockFacts(b)
<1>1. PICK q \in Nat : q * BlockSize < FileSize /\ b = create_cache_block(q * BlockSize)
  BY DEF IsBlock
<1>2. BlockSize \in Nat /\ FileSize \in Nat /\ BlockSize > 0
  BY BlockAssumption
<1>3. PICK o \in Nat : o = q * BlockSize
  BY <1>2
<1>4. PICK size : size = IF o + BlockSize > FileSize THEN FileSize - o ELSE BlockSize
  OBVIOUS
<1>5. b = [offset |-> o,
           data |-> [i \in 1..BlockSize |-> IF i <= size THEN o + i - 1 ELSE ZERO]]
  BY <1>1, <1>3, <1>4 DEF create_cache_block
<1>6. o < FileSize /\ size \in Nat /\ (size = BlockSize \/ o + size = FileSize)
  BY <1>1, <1>2, <1>3, <1>4
<1>7. PICK d : d = [i \in 1..BlockSize |-> IF i <= size THEN o + i - 1 ELSE ZERO]
  OBVIOUS
<1>8. b.offset = o /\ b.data = d
  BY <1>5, <1>7
<1>9. \A i \in 1..BlockSize : (IF i <= size THEN o + i - 1 ELSE ZERO) \in Nat
  BY <1>2, <1>6 DEF ZERO
<1>10. d \in [1..BlockSize -> Nat]
  BY <1>7, <1>9
<1>11. d \in Seq(Nat) /\ Len(d) = BlockSize
  BY <1>2, <1>10
<1>12. Multiple(o)
  BY <1>3 DEF Multiple
<1>13. ASSUME NEW i \in 1..BlockSize, o + i - 1 < FileSize PROVE d[i] = o + i - 1
  <2>1. i <= size
    BY <1>2, <1>6, <1>13
  <2> QED
    BY <1>7, <2>1
<1> QED
  BY <1>6, <1>8, <1>11, <1>13, <1>12 DEF BlockFacts

----------------------------------------------------------------------------
(* The inductive invariant of BlockCache.                                  *)

\* The keys of the nodes.
blockKey == [n \in Node |-> block[n].offset]

\* Tree, list and memory hold the same blocks of the file, each once.
BlocksHeld ==
    /\ lru \in Seq(Node) /\ Distinct(lru) /\ Len(lru) <= MaxBlocks
    /\ DOMAIN block = InTree(t) /\ Elements(lru) = InTree(t)
    /\ \A n \in InTree(t) : IsBlock(block[n])
    /\ \A m, n \in InTree(t) : block[m].offset = block[n].offset => m = n
    /\ flushing = NoFlush => current_blocks = Len(lru)
    /\ flushing # NoFlush => call = NoCall

\* A call of cache_read or cache_prefetch that runs.
Call == [op : {"read", "prefetch"}, offset : Nat, remaining : Nat, buf : Seq(Nat),
         from : Nat, size : Nat, until : Nat]

\* What a call that runs has copied so far, and what is left.
CallHeld ==
    \/ call = NoCall
    \/ /\ call \in Call /\ call.from < FileSize
       /\ call.from + Len(call.buf) = call.offset
       /\ call.remaining + Len(call.buf) = Min({call.size, FileSize - call.from})
       /\ \A i \in 1..Len(call.buf) : call.buf[i] = call.from + i - 1

\* The first k blocks of the list are the last ones that were copied from.
Recently(k) ==
    /\ k <= Len(recent)
    /\ \A i \in 1..k : block[lru[i]].offset = recent[Len(recent) - k + i]

\* A block that was just loaded is at the end of the list, not copied from yet.
Fresh ==
    /\ call # NoCall /\ call.remaining > 0 /\ Len(lru) > 0
    /\ block[lru[Len(lru)]].offset = BaseOf(call.offset)

\* The list keeps the order of use, but for a block that was just loaded.
UsedHeld ==
    /\ recent \in Seq(Nat) /\ Distinct(recent)
    /\ flushing = NoFlush => Recently(Len(lru)) \/ (Fresh /\ Recently(Len(lru) - 1))

\* What holds of the cache when pos puts the nodes in order.
CacheInv(pos) ==
    /\ BlocksHeld /\ CallHeld /\ UsedHeld
    /\ OrderedBy(InTree(t), pos, blockKey)
    /\ flushing # NoFlush => First(InTree(t), pos, flushing)

\* The invariant holds after a step, with some order of the nodes.
CacheNext == \E S, pos, h : TreeState(S, pos, h)' /\ CacheInv(pos)'

\* The function that find_cache_block is defined by.
FindFun(o) ==
    CHOOSE f : f = [m \in Link |->
          IF m = NIL THEN NIL
          ELSE IF o < block[m].offset THEN f[t.kid[m]["left"]]
          ELSE IF o >= block[m].offset + BlockSize THEN f[t.kid[m]["right"]]
          ELSE m]

\* find_cache_block finds the block of a byte if it is cached.
FindIs(o, r) ==
    \/ r = NIL /\ \A n \in InTree(t) : block[n].offset # BaseOf(o)
    \/ r \in InTree(t) /\ block[r].offset = BaseOf(o)

\* Blocks do not overlap and are in order: the search cannot miss.
LEMMA FindFacts ==
    ASSUME NEW S, NEW pos, Links(t), Shape(t, S, pos), OrderedBy(InTree(t), pos, blockKey),
           \A n \in InTree(t) : IsBlock(block[n]), NEW o \in Nat
    PROVE  FindIs(o, find_cache_block(o))
<1>1. PICK dir, H :
         /\ dir = [m \in Node |-> IF o < block[m].offset THEN "left" ELSE "right"]
         /\ H = { m \in Node : ~(o < block[m].offset) /\ ~(o >= block[m].offset + BlockSize) }
  OBVIOUS
<1>2. /\ dir \in [Node -> Side]
      /\ \A m \in Node : dir[m] = IF o < block[m].offset THEN "left" ELSE "right"
      /\ \A m \in Node : m \in H <=> ~(o < block[m].offset) /\ ~(o >= block[m].offset + BlockSize)
  BY <1>1, Basics
<1>3. PICK g : SearchEq(t, H, dir, g)
  BY <1>2, SearchExists
<1>4. g = [m \in Link |->
          IF m = NIL THEN NIL
          ELSE IF o < block[m].offset THEN g[t.kid[m]["left"]]
          ELSE IF o >= block[m].offset + BlockSize THEN g[t.kid[m]["right"]]
          ELSE m]
  <2>1. ASSUME NEW m \in Link
        PROVE  (IF m = NIL THEN NIL ELSE IF m \in H THEN m ELSE g[t.kid[m][dir[m]]])
             = (IF m = NIL THEN NIL ELSE IF o < block[m].offset THEN g[t.kid[m]["left"]]
                ELSE IF o >= block[m].offset + BlockSize THEN g[t.kid[m]["right"]] ELSE m)
    BY <1>2, Basics
  <2> QED
    BY <1>3, <2>1, Zenon DEF SearchEq
<1>5. PICK f : f = FindFun(o)
  OBVIOUS
<1>6. f = [m \in Link |->
          IF m = NIL THEN NIL
          ELSE IF o < block[m].offset THEN f[t.kid[m]["left"]]
          ELSE IF o >= block[m].offset + BlockSize THEN f[t.kid[m]["right"]]
          ELSE m]
  BY <1>4, <1>5 DEF FindFun
<1>7. find_cache_block(o) = f[t.root]
  BY <1>5, Zenon DEF find_cache_block, FindFun
<1>8. SearchEq(t, H, dir, f)
  BY <1>2, <1>6, Basics DEF SearchEq
<1>9. PICK r : r = f[t.root]
  OBVIOUS
<1>10. FoundIs(InTree(t), pos, dir, H, r)
  BY <1>2, <1>8, <1>9, SearchTree
<1>11. /\ InTree(t) \subseteq Node /\ BlockSize \in Nat /\ BlockSize > 0
       /\ \A n \in InTree(t) : block[n].offset \in Nat /\ Multiple(block[n].offset)
  <2>1. \A n \in InTree(t) : BlockFacts(block[n])
    BY BlockContent
  <2>2. \A n \in InTree(t) : block[n].offset \in Nat /\ Multiple(block[n].offset)
    BY <2>1 DEF BlockFacts
  <2>3. InTree(t) \subseteq Node
    BY DEF InTree
  <2> QED
    BY <2>2, <2>3, BlockAssumption
<1>12. \A n \in InTree(t) : blockKey[n] = block[n].offset
  BY <1>11 DEF blockKey
<1>13. PICK b \in Nat, p \in Nat : /\ b = BaseOf(o) /\ b = p * BlockSize
                                   /\ b <= o /\ o < b + BlockSize
  <2>1. PICK p \in Nat : p = o \div BlockSize
    BY BaseFacts
  <2>2. PICK b \in Nat : b = BaseOf(o)
    BY BaseFacts
  <2>3. b = p * BlockSize
    BY <2>1, <2>2 DEF BaseOf
  <2>4. PICK k \in Nat : k < BlockSize /\ o = b + k
    BY <2>2, BaseFacts
  <2>5. b <= o /\ o < b + BlockSize
    BY <1>11, <2>4
  <2> QED
    BY <2>2, <2>3, <2>5
<1>14. CASE r = NIL
  <2>1. SUFFICES ASSUME NEW n \in InTree(t), block[n].offset = b PROVE FALSE
    BY <1>7, <1>9, <1>13, <1>14 DEF FindIs
  <2>2. PICK k \in InTree(t) : k \notin H /\ (n = k \/ At(pos, n, Other(dir[k]), k))
    BY <1>10, <1>14 DEF FoundIs
  <2>3. n \in H /\ n # k
    BY <1>2, <1>11, <1>13, <2>1, <2>2
  <2>4. block[k].offset \in Nat
    BY <1>11
  <2>5. CASE o < block[k].offset
    <3>1. pos[k] < pos[n]
      BY <1>2, <1>11, <2>2, <2>3, <2>5, Basics DEF At
    <3>2. block[k].offset <= block[n].offset
      BY <1>12, <3>1 DEF OrderedBy
    <3> QED
      BY <1>13, <2>1, <2>4, <2>5, <3>2
  <2>6. CASE ~(o < block[k].offset)
    <3>1. pos[n] < pos[k]
      BY <1>2, <1>11, <2>2, <2>3, <2>6, Basics DEF At
    <3>2. block[n].offset <= block[k].offset
      BY <1>12, <3>1 DEF OrderedBy
    <3>3. o >= block[k].offset + BlockSize
      BY <1>2, <1>11, <2>2, <2>6
    <3> QED
      BY <1>11, <1>13, <2>1, <2>4, <3>2, <3>3
  <2> QED
    BY <2>5, <2>6
<1>15. CASE r # NIL
  <2>1. r \in InTree(t) /\ r \in H
    BY <1>10, <1>15 DEF FoundIs
  <2>2. PICK c \in Nat, q \in Nat : c = block[r].offset /\ c = q * BlockSize
    BY <1>11, <2>1 DEF Multiple
  <2>3. c <= o /\ o < c + BlockSize
    <3>1. ~(o < c) /\ ~(o >= c + BlockSize)
      BY <1>2, <1>11, <2>1, <2>2
    <3> QED
      BY <1>11, <3>1
  <2>4. ~(p < q)
    <3>1. p < q => p * BlockSize + BlockSize <= q * BlockSize
      BY BlocksApart
    <3>2. p < q => b + BlockSize <= c
      BY <1>13, <2>2, <3>1
    <3> QED
      BY <1>11, <1>13, <2>3, <3>2
  <2>5. ~(q < p)
    <3>1. q < p => q * BlockSize + BlockSize <= p * BlockSize
      BY BlocksApart
    <3>2. q < p => c + BlockSize <= b
      BY <1>13, <2>2, <3>1
    <3> QED
      BY <1>11, <1>13, <2>3, <3>2
  <2>6. p = q
    BY <2>4, <2>5
  <2> QED
    BY <1>7, <1>9, <1>13, <2>1, <2>2, <2>6 DEF FindIs
<1> QED
  BY <1>14, <1>15

----------------------------------------------------------------------------
(* The steps of BlockCache.                                                *)

\* A step that does not touch the tree.
LEMMA TreeStays ==
    ASSUME NEW S, NEW pos, NEW h, TreeState(S, pos, h), UNCHANGED treeVars
    PROVE  TreeState(S, pos, h)' /\ t' = t
<1>1. t' = t /\ pc' = pc /\ node' = node /\ parent' = parent
  BY DEF treeVars
<1> QED
  BY <1>1 DEF TreeState, LoopState, NodeSide

\* Min and Max of two numbers.
LEMMA MinOfTwo ==
    ASSUME NEW a \in Int, NEW b \in Int
    PROVE  Min({a, b}) = (IF a <= b THEN a ELSE b) /\ Max({a, b}) = (IF a <= b THEN b ELSE a)
<1>1. Min({a, b}) = IF a <= b THEN a ELSE b
  BY DEF Min
<1>2. Max({a, b}) = IF a <= b THEN b ELSE a
  BY DEF Max
<1> QED
  BY <1>1, <1>2

\* A call that has just begun.
LEMMA RequestHeld ==
    ASSUME NEW op \in {"read", "prefetch"}, NEW offset \in Nat, offset < FileSize,
           NEW size \in Nat, NEW until \in Nat, call' = Request(op, offset, size, until)
    PROVE  CallHeld'
<1>1. FileSize \in Nat
  BY BlockAssumption
<1>2. PICK n \in Nat : n = IF offset + size > FileSize THEN FileSize - offset ELSE size
  BY <1>1
<1>3. call' = [op |-> op, offset |-> offset, remaining |-> n, buf |-> <<>>,
               from |-> offset, size |-> size, until |-> until]
  BY <1>2 DEF Request
<1>4. PICK c : c = call'
  OBVIOUS
<1>5. /\ c \in Call /\ c.from = offset /\ c.offset = offset /\ c.buf = <<>> /\ c.remaining = n
      /\ c.size = size
  BY <1>3, <1>4 DEF Call
<1>6. Len(c.buf) = 0 /\ 1..0 = {}
  BY <1>5
<1>7. n = Min({size, FileSize - offset})
  BY <1>1, <1>2, MinOfTwo
<1>8. c.from + Len(c.buf) = c.offset /\ c.remaining + Len(c.buf) = Min({c.size, FileSize - c.from})
  BY <1>2, <1>5, <1>6, <1>7
<1>9. \A i \in 1..Len(c.buf) : c.buf[i] = c.from + i - 1
  BY <1>6
<1> QED
  BY <1>4, <1>5, <1>8, <1>9 DEF CallHeld

\* A step that only begins or ends a call.
LEMMA CallChanges ==
    ASSUME NEW S, NEW pos, NEW h, TreeState(S, pos, h), CacheInv(pos),
           UNCHANGED <<treeVars, block, lru, current_blocks, flushing, recent>>,
           flushing = NoFlush, ~Fresh, CallHeld'
    PROVE  CacheNext
<1>1. TreeState(S, pos, h)' /\ t' = t
  BY TreeStays
<1>2. /\ block' = block /\ lru' = lru /\ current_blocks' = current_blocks /\ flushing' = flushing
      /\ recent' = recent
  OBVIOUS
<1>3. BlocksHeld'
  BY <1>1, <1>2 DEF CacheInv, BlocksHeld
<1>4. Recently(Len(lru)) /\ recent \in Seq(Nat) /\ Distinct(recent)
  BY DEF CacheInv, UsedHeld
<1>5. UsedHeld'
  BY <1>2, <1>4 DEF UsedHeld, Recently
<1>6. OrderedBy(InTree(t'), pos, blockKey')
  BY <1>1, <1>2 DEF CacheInv, blockKey
<1>7. CacheInv(pos)'
  BY <1>2, <1>3, <1>5, <1>6 DEF CacheInv
<1> QED
  BY <1>1, <1>7 DEF CacheNext

\* A call begins with nothing copied.
LEMMA ReadKeeps ==
    ASSUME NEW S, NEW pos, NEW h, TreeState(S, pos, h), CacheInv(pos),
           cache_read \/ cache_prefetch
    PROVE  CacheNext
<1>1. /\ call = NoCall /\ flushing = NoFlush
      /\ UNCHANGED <<treeVars, block, lru, current_blocks, flushing, recent>>
  BY DEF cache_read, cache_prefetch, Idle
<1>2. ~Fresh
  BY <1>1 DEF Fresh
<1>3. BlockSize \in Nat /\ FileSize \in Nat /\ MaxRead \in Nat
  BY BlockAssumption
<1>4. CASE cache_read
  <2>1. PICK offset \in 0..FileSize - 1, size \in 1..MaxRead : call' = Request("read", offset, size, 0)
    BY <1>4 DEF cache_read
  <2>2. offset \in Nat /\ offset < FileSize /\ size \in Nat /\ 0 \in Nat
    BY <1>3
  <2>3. CallHeld'
    BY <2>1, <2>2, RequestHeld
  <2> QED
    BY <1>1, <1>2, <2>3, CallChanges
<1>5. CASE cache_prefetch
  <2>1. PICK offset \in 0..FileSize - 1, size \in 1..MaxRead :
            call' = Request("prefetch", offset, BlockSize, offset + size)
    BY <1>5 DEF cache_prefetch
  <2>2. offset \in Nat /\ offset < FileSize /\ offset + size \in Nat
    BY <1>3
  <2>3. CallHeld'
    BY <1>3, <2>1, <2>2, RequestHeld
  <2> QED
    BY <1>1, <1>2, <2>3, CallChanges
<1> QED
  BY <1>4, <1>5

\* A call that runs.
LEMMA RunningFacts ==
    ASSUME NEW pos, CacheInv(pos), Running
    PROVE  /\ call # NoCall /\ flushing = NoFlush /\ call \in Call /\ call.from < FileSize
           /\ call.from + Len(call.buf) = call.offset
           /\ call.remaining + Len(call.buf) = Min({call.size, FileSize - call.from})
           /\ \A i \in 1..Len(call.buf) : call.buf[i] = call.from + i - 1
<1>1. call # NoCall /\ flushing = NoFlush
  BY DEF Running, NoCall
<1> QED
  BY <1>1 DEF CacheInv, CallHeld

\* A call ends, or a prefetch goes on with its next block.
LEMMA ReadDoneKeeps ==
    ASSUME NEW S, NEW pos, NEW h, TreeState(S, pos, h), CacheInv(pos), ReadDone
    PROVE  CacheNext
<1>1. /\ Running /\ call.remaining = 0
      /\ UNCHANGED <<treeVars, block, lru, current_blocks, flushing, recent>>
  BY DEF ReadDone
<1>2. call \in Call /\ flushing = NoFlush
  BY <1>1, RunningFacts
<1>3. ~Fresh
  BY <1>1 DEF Fresh
<1>4. PICK next : next = call.from + BlockSize
  OBVIOUS
<1>5. /\ BlockSize \in Nat /\ call.until \in Nat /\ call.from \in Nat /\ next \in Nat
  BY <1>2, <1>4, BlockAssumption DEF Call
<1>6. \/ next < FileSize /\ call' = Request("prefetch", next, BlockSize, call.until)
      \/ call' = NoCall
  BY <1>4 DEF ReadDone
<1>7. CASE next < FileSize /\ call' = Request("prefetch", next, BlockSize, call.until)
  <2>1. CallHeld'
    BY <1>5, <1>7, RequestHeld
  <2> QED
    BY <1>1, <1>2, <1>3, <2>1, CallChanges
<1>8. CASE call' = NoCall
  <2>1. CallHeld'
    BY <1>8 DEF CallHeld
  <2> QED
    BY <1>1, <1>2, <1>3, <2>1, CallChanges
<1> QED
  BY <1>6, <1>7, <1>8

\* When the block is missing nothing holds its offset.
LEMMA MissingFacts ==
    ASSUME NEW S, NEW pos, NEW h, TreeState(S, pos, h), CacheInv(pos), Missing
    PROVE  /\ call \in Call /\ call # NoCall /\ call.remaining > 0 /\ flushing = NoFlush
           /\ call.offset \in Nat /\ call.offset < FileSize
           /\ \A n \in InTree(t) : block[n].offset # BaseOf(call.offset)
           /\ ~Fresh /\ Recently(Len(lru))
<1>1. Running /\ call.remaining > 0 /\ find_cache_block(call.offset) = NIL
  BY DEF Missing
<1>2. /\ call \in Call /\ call # NoCall /\ flushing = NoFlush /\ call.from < FileSize
      /\ call.from + Len(call.buf) = call.offset
      /\ call.remaining + Len(call.buf) = Min({call.size, FileSize - call.from})
  BY <1>1, RunningFacts
<1>3. /\ call.offset \in Nat /\ call.remaining \in Nat /\ Len(call.buf) \in Nat /\ call.size \in Nat
      /\ call.from \in Nat /\ FileSize \in Nat
  BY <1>2, BlockAssumption DEF Call
<1>4. call.offset < FileSize
  <2>1. Min({call.size, FileSize - call.from}) <= FileSize - call.from
    BY <1>3, MinOfTwo
  <2> QED
    BY <1>1, <1>2, <1>3, <2>1
<1>5. FindIs(call.offset, find_cache_block(call.offset))
  BY <1>3, FindFacts DEF TreeState, CacheInv, BlocksHeld
<1>6. \A n \in InTree(t) : block[n].offset # BaseOf(call.offset)
  <2>1. NIL \notin InTree(t)
    BY Basics DEF InTree
  <2> QED
    BY <1>1, <1>5, <2>1 DEF FindIs
<1>7. ~Fresh
  <2>1. lru \in Seq(Node) /\ \A i \in 1..Len(lru) : lru[i] \in InTree(t)
    BY DEF CacheInv, BlocksHeld, Elements
  <2>2. Len(lru) > 0 => lru[Len(lru)] \in InTree(t)
    BY <2>1
  <2> QED
    BY <1>6, <2>2 DEF Fresh
<1>8. Recently(Len(lru))
  BY <1>2, <1>7 DEF CacheInv, UsedHeld
<1> QED
  BY <1>1, <1>2, <1>3, <1>4, <1>6, <1>7, <1>8

\* A call that fails leaves the cache as it is.
LEMMA ReadFailsKeeps ==
    ASSUME NEW S, NEW pos, NEW h, TreeState(S, pos, h), CacheInv(pos), ReadFails
    PROVE  CacheNext
<1>1. Missing /\ call' = NoCall /\ UNCHANGED <<treeVars, block, lru, current_blocks, flushing, recent>>
  BY DEF ReadFails
<1>2. ~Fresh /\ flushing = NoFlush
  BY <1>1, MissingFacts
<1>3. CallHeld'
  BY <1>1 DEF CallHeld
<1> QED
  BY <1>1, <1>2, <1>3, CallChanges

\* A block leaves the tree, the list and memory.
LEMMA BlockLeaves ==
    ASSUME NEW pos, BlocksHeld, OrderedBy(InTree(t), pos, blockKey), NEW n \in InTree(t),
           InTree(t') = InTree(t) \ {n}, block' = Without(block, n),
           lru' \in Seq(Node), Distinct(lru'), Len(lru') = Len(lru) - 1,
           Elements(lru') = Elements(lru) \ {n},
           flushing' = NoFlush => current_blocks' = Len(lru'),
           flushing' # NoFlush => call' = NoCall
    PROVE  /\ BlocksHeld' /\ OrderedBy(InTree(t'), pos, blockKey')
           /\ \A m \in InTree(t') : block'[m] = block[m]
<1>1. /\ DOMAIN block = InTree(t) /\ Elements(lru) = InTree(t) /\ Len(lru) <= MaxBlocks
      /\ lru \in Seq(Node) /\ InTree(t) \subseteq Node
      /\ \A m \in InTree(t) : IsBlock(block[m])
      /\ \A a, b \in InTree(t) : block[a].offset = block[b].offset => a = b
  BY DEF BlocksHeld, InTree
<1>2. DOMAIN block' = InTree(t') /\ \A m \in InTree(t') : block'[m] = block[m]
  BY <1>1 DEF Without
<1>3. Elements(lru') = InTree(t')
  BY <1>1
<1>4. Len(lru') <= MaxBlocks
  BY <1>1, BlockAssumption, TreeAssumption
<1>5. \A m \in InTree(t') : IsBlock(block'[m])
  BY <1>1, <1>2
<1>6. \A a, b \in InTree(t') : block'[a].offset = block'[b].offset => a = b
  BY <1>1, <1>2
<1>7. BlocksHeld'
  <2>1. PICK b2 : b2 = block'
    OBVIOUS
  <2>2. \A m \in InTree(t') : IsBlock(b2[m])
    BY <1>5, <2>1
  <2> QED
    BY <1>2, <1>3, <1>4, <1>6, <2>1, <2>2 DEF BlocksHeld, IsBlock, create_cache_block, ZERO
<1>8. PICK key2 : key2 = blockKey'
  OBVIOUS
<1>9. \A m \in InTree(t') : key2[m] = blockKey[m]
  BY <1>1, <1>2, <1>8 DEF blockKey
<1>10. OrderedBy(InTree(t'), pos, key2)
  BY <1>9 DEF OrderedBy
<1> QED
  BY <1>2, <1>7, <1>8, <1>10

\* The block at the head of the list is the one used longest ago.
LEMMA EvictKeeps ==
    ASSUME NEW S, NEW pos, NEW h, TreeState(S, pos, h), CacheInv(pos), evict_lru_block
    PROVE  CacheNext
<1>1. /\ Missing /\ lru # <<>> /\ rb_erase(Head(lru)) /\ block' = Without(block, Head(lru))
      /\ lru' = Tail(lru) /\ current_blocks' = current_blocks - 1
      /\ UNCHANGED <<call, flushing, recent>>
  BY DEF evict_lru_block
<1>2. flushing = NoFlush /\ Recently(Len(lru)) /\ call # NoCall
  BY <1>1, MissingFacts
<1>3. /\ BlocksHeld /\ CallHeld /\ recent \in Seq(Nat) /\ Distinct(recent)
      /\ OrderedBy(InTree(t), pos, blockKey)
  BY DEF CacheInv, UsedHeld
<1>4. lru \in Seq(Node) /\ Distinct(lru) /\ Elements(lru) = InTree(t) /\ current_blocks = Len(lru)
  BY <1>2, <1>3 DEF BlocksHeld
<1>5. PICK n, r : n = Head(lru) /\ r = Tail(lru)
  OBVIOUS
<1>6. /\ Len(lru) \in Nat /\ Len(lru) > 0 /\ n = lru[1] /\ r \in Seq(Node) /\ Len(r) = Len(lru) - 1
      /\ \A i \in 1..Len(r) : r[i] = lru[i + 1]
  BY <1>1, <1>4, <1>5
<1>7. n \in InTree(t)
  <2>1. 1 \in 1..Len(lru)
    BY <1>6
  <2> QED
    BY <1>4, <1>6, <2>1 DEF Elements
<1>8. InTree(t') = InTree(t) \ {n} /\ \E S2, h2 : TreeState(S2, pos, h2)'
  BY <1>1, <1>5, <1>7, EraseKeeps
<1>9. \A i \in 1..Len(r) : i + 1 \in 1..Len(lru) /\ 1 \in 1..Len(lru) /\ i + 1 # 1
  BY <1>6
<1>10. Distinct(r)
  <2>1. ASSUME NEW i \in 1..Len(r), NEW j \in 1..Len(r), r[i] = r[j] PROVE i = j
    <3>1. i + 1 = j + 1
      BY <1>4, <1>6, <1>9, <2>1 DEF Distinct
    <3> QED
      BY <3>1
  <2> QED
    BY <2>1 DEF Distinct
<1>11. Elements(r) = Elements(lru) \ {n}
  <2>1. ASSUME NEW e \in Elements(r) PROVE e \in Elements(lru) \ {n}
    <3>1. PICK i \in 1..Len(r) : e = r[i]
      BY <2>1 DEF Elements
    <3>2. e = lru[i + 1] /\ lru[i + 1] # lru[1]
      BY <1>4, <1>6, <1>9, <3>1 DEF Distinct
    <3> QED
      BY <1>6, <1>9, <3>2 DEF Elements
  <2>2. ASSUME NEW e \in Elements(lru) \ {n} PROVE e \in Elements(r)
    <3>1. PICK i \in 1..Len(lru) : e = lru[i]
      BY <2>2 DEF Elements
    <3>2. i # 1
      BY <1>6, <2>2, <3>1
    <3>3. i - 1 \in 1..Len(r) /\ (i - 1) + 1 = i
      BY <1>6, <3>2
    <3>4. r[i - 1] = e
      BY <1>6, <3>1, <3>3
    <3> QED
      BY <3>3, <3>4 DEF Elements
  <2> QED
    BY <2>1, <2>2
<1>12. /\ lru' = r /\ block' = Without(block, n) /\ flushing' = NoFlush /\ recent' = recent
       /\ call' = call /\ current_blocks' = Len(r)
  BY <1>1, <1>2, <1>4, <1>5, <1>6
<1>13. /\ BlocksHeld' /\ OrderedBy(InTree(t'), pos, blockKey')
       /\ \A m \in InTree(t') : block'[m] = block[m]
  BY <1>3, <1>6, <1>7, <1>8, <1>10, <1>11, <1>12, BlockLeaves
<1>14. Recently(Len(lru))'
  <2>1. /\ Len(lru) <= Len(recent) /\ Len(recent) \in Nat
        /\ \A i \in 1..Len(lru) : block[lru[i]].offset = recent[Len(recent) - Len(lru) + i]
    BY <1>2, <1>3 DEF Recently
  <2>2. ASSUME NEW i \in 1..Len(r)
        PROVE  block'[r[i]].offset = recent[Len(recent) - Len(r) + i]
    <3>1. r[i] \in InTree(t')
      BY <1>4, <1>8, <1>11 DEF Elements
    <3>2. block'[r[i]].offset = block[lru[i + 1]].offset
      BY <1>6, <1>13, <3>1
    <3>3. block[lru[i + 1]].offset = recent[Len(recent) - Len(lru) + (i + 1)]
      BY <1>9, <2>1
    <3>4. Len(recent) - Len(lru) + (i + 1) = Len(recent) - Len(r) + i
      BY <1>6, <2>1
    <3> QED
      BY <3>2, <3>3, <3>4
  <2>3. Len(r) <= Len(recent)
    BY <1>6, <2>1
  <2> QED
    BY <1>12, <2>2, <2>3 DEF Recently
<1>15. UsedHeld'
  BY <1>3, <1>12, <1>14 DEF UsedHeld
<1>16. CallHeld'
  BY <1>3, <1>12 DEF CallHeld
<1>17. CacheInv(pos)'
  BY <1>12, <1>13, <1>15, <1>16 DEF CacheInv
<1> QED
  BY <1>8, <1>17 DEF CacheNext

\* cache_flush begins at the first block.
LEMMA FlushBeginsKeeps ==
    ASSUME NEW S, NEW pos, NEW h, TreeState(S, pos, h), CacheInv(pos), FlushBegins
    PROVE  CacheNext
<1>1. /\ call = NoCall /\ flushing' = rb_first(t)
      /\ UNCHANGED <<treeVars, block, lru, current_blocks, call, recent>>
  BY DEF FlushBegins, Idle
<1>2. TreeState(S, pos, h)' /\ t' = t
  BY <1>1, TreeStays
<1>3. /\ block' = block /\ lru' = lru /\ call' = call /\ recent' = recent
  BY <1>1
<1>4. First(InTree(t'), pos, flushing')
  BY <1>1, <1>2, FirstIsFirst DEF TreeState
<1>5. flushing' # NoFlush
  <2>1. flushing' \in Node \/ flushing' = NIL
    BY <1>2, <1>4 DEF First, InTree
  <2> QED
    BY <2>1, TreeAssumption DEF NoFlush, NIL, Node
<1>6. BlocksHeld'
  BY <1>1, <1>2, <1>3, <1>5 DEF CacheInv, BlocksHeld
<1>7. UsedHeld'
  BY <1>3, <1>5 DEF CacheInv, UsedHeld
<1>8. CallHeld'
  BY <1>1, <1>3 DEF CallHeld
<1>9. OrderedBy(InTree(t'), pos, blockKey')
  BY <1>2, <1>3 DEF CacheInv, blockKey
<1>10. CacheInv(pos)'
  BY <1>4, <1>6, <1>7, <1>8, <1>9 DEF CacheInv
<1> QED
  BY <1>2, <1>10 DEF CacheNext

\* next is read before the block is erased and freed.
LEMMA FlushBlockKeeps ==
    ASSUME NEW S, NEW pos, NEW h, TreeState(S, pos, h), CacheInv(pos), FlushBlock
    PROVE  CacheNext
<1>1. /\ flushing \in Node /\ flushing' = rb_next(t, flushing) /\ rb_erase(flushing)
      /\ block' = Without(block, flushing) /\ lru' = RemoveFirst(lru, flushing)
      /\ UNCHANGED <<current_blocks, call, recent>>
  BY DEF FlushBlock
<1>2. PICK n \in Node : n = flushing
  BY <1>1
<1>3. n # NoFlush /\ n # NIL
  BY TreeAssumption DEF NoFlush, NIL, Node
<1>4. /\ BlocksHeld /\ CallHeld /\ UsedHeld /\ OrderedBy(InTree(t), pos, blockKey)
      /\ First(InTree(t), pos, n)
  BY <1>2, <1>3 DEF CacheInv
<1>5. /\ n \in InTree(t) /\ lru \in Seq(Node) /\ Distinct(lru) /\ Elements(lru) = InTree(t)
      /\ call = NoCall
  BY <1>2, <1>3, <1>4 DEF First, BlocksHeld
<1>6. InTree(t') = InTree(t) \ {n} /\ \E S2, h2 : TreeState(S2, pos, h2)'
  BY <1>1, <1>2, <1>5, EraseKeeps
<1>7. First(InTree(t'), pos, flushing')
  BY <1>1, <1>2, <1>3, <1>4, <1>6, NextIsFirst DEF TreeState
<1>8. flushing' # NoFlush
  <2>1. flushing' \in Node \/ flushing' = NIL
    BY <1>6, <1>7 DEF First, InTree
  <2> QED
    BY <2>1, TreeAssumption DEF NoFlush, NIL, Node
<1>9. PICK j \in 1..Len(lru) : n = lru[j]
  BY <1>5 DEF Elements
<1>10. PICK r : r = RemoveFirst(lru, n)
  OBVIOUS
<1>11. Taken(Node, lru, j, r)
  BY <1>5, <1>9, <1>10, RemoveTakes
<1>12. r \in Seq(Node) /\ Distinct(r) /\ Len(r) = Len(lru) - 1
  BY <1>11 DEF Taken, IsWithout
<1>13. Elements(r) = Elements(lru) \ {n}
  BY <1>9, <1>11 DEF Taken
<1>14. lru' = r /\ block' = Without(block, n) /\ call' = call /\ recent' = recent
  BY <1>1, <1>2, <1>10
<1>15. BlocksHeld' /\ OrderedBy(InTree(t'), pos, blockKey')
  BY <1>4, <1>5, <1>6, <1>8, <1>12, <1>13, <1>14, BlockLeaves
<1>16. UsedHeld'
  BY <1>4, <1>8, <1>14 DEF UsedHeld
<1>17. CallHeld'
  BY <1>5, <1>14 DEF CallHeld
<1>18. CacheInv(pos)'
  BY <1>7, <1>15, <1>16, <1>17 DEF CacheInv
<1> QED
  BY <1>6, <1>18 DEF CacheNext

\* At the end of a flush nothing is left, in the list neither.
LEMMA FlushEndsKeeps ==
    ASSUME NEW S, NEW pos, NEW h, TreeState(S, pos, h), CacheInv(pos), FlushEnds
    PROVE  CacheNext
<1>1. /\ flushing = NIL /\ current_blocks' = 0 /\ flushing' = NoFlush
      /\ UNCHANGED <<treeVars, block, lru, call, recent>>
  BY DEF FlushEnds
<1>2. TreeState(S, pos, h)' /\ t' = t
  BY <1>1, TreeStays
<1>3. /\ block' = block /\ lru' = lru /\ call' = call /\ recent' = recent
  BY <1>1
<1>4. flushing # NoFlush
  BY <1>1, TreeAssumption DEF NoFlush, NIL
<1>5. First(InTree(t), pos, flushing)
  BY <1>4 DEF CacheInv
<1>6. InTree(t) = {}
  BY <1>1, <1>5 DEF First
<1>7. /\ lru \in Seq(Node) /\ Distinct(lru) /\ Elements(lru) = {} /\ DOMAIN block = {}
      /\ call = NoCall
  BY <1>4, <1>6 DEF CacheInv, BlocksHeld
<1>8. Len(lru) = 0
  <2>1. Len(lru) \in Nat
    BY <1>7
  <2>2. 1 \notin 1..Len(lru)
    BY <1>7 DEF Elements
  <2> QED
    BY <2>1, <2>2
<1>9. BlocksHeld'
  <2>1. 0 <= MaxBlocks
    BY BlockAssumption, TreeAssumption
  <2> QED
    BY <1>1, <1>2, <1>3, <1>6, <1>7, <1>8, <2>1 DEF BlocksHeld
<1>10. recent \in Seq(Nat) /\ Distinct(recent) /\ Len(recent) \in Nat
  BY DEF CacheInv, UsedHeld
<1>11. 0 <= Len(recent) /\ 1..0 = {}
  BY <1>10
<1>12. Recently(Len(lru))'
  BY <1>3, <1>8, <1>11 DEF Recently
<1>13. UsedHeld'
  BY <1>3, <1>10, <1>12 DEF UsedHeld
<1>14. CallHeld'
  BY <1>3, <1>7 DEF CallHeld
<1>15. OrderedBy(InTree(t'), pos, blockKey')
  BY <1>2, <1>6 DEF OrderedBy
<1>16. CacheInv(pos)'
  BY <1>1, <1>9, <1>13, <1>14, <1>15 DEF CacheInv
<1> QED
  BY <1>2, <1>16 DEF CacheNext

\* A set of nodes has a least one.
LEMMA MinNode ==
    ASSUME NEW A, A \subseteq Node, A # {}
    PROVE  Min(A) \in A
<1> DEFINE U == { 1..m : m \in A }
<1>1. \A m \in A : m \in Nat /\ 1 <= m /\ m <= NumNodes /\ 1..m \subseteq Node
  BY TreeAssumption DEF Node
<1>2. U \subseteq SUBSET Node /\ U # {}
  BY <1>1
<1>3. IsWellFoundedOn(StrictSubsetOrdering(Node), SUBSET Node)
  <2>1. FiniteSubsetsOf(Node) = SUBSET Node
    BY NodeFinite, FS_FiniteSubsetsOfFinite
  <2>2. IsWellFoundedOn(StrictSubsetOrdering(Node), FiniteSubsetsOf(Node))
    BY FS_StrictSubsetOrderingWellFounded
  <2> QED
    BY <2>1, <2>2
<1>4. PICK u \in U : \A v \in U : ~ (<<v, u>> \in StrictSubsetOrdering(Node))
  <2> HIDE DEF U
  <2> QED
    BY <1>2, <1>3, WFMin
<1>5. PICK m \in A : u = 1..m
  OBVIOUS
<1>6. ASSUME NEW k \in A PROVE m <= k
  <2>1. SUFFICES ASSUME k < m PROVE FALSE
    BY <1>1
  <2>2. 1..k \in U
    OBVIOUS
  <2>3. 1..k \in SUBSET Node /\ u \in SUBSET Node /\ 1..k \subseteq u /\ m \in u /\ m \notin 1..k
    BY <1>1, <1>5, <2>1
  <2>4. <<1..k, u>> \in StrictSubsetOrdering(Node)
    BY <2>3 DEF StrictSubsetOrdering
  <2> QED
    BY <1>4, <2>2, <2>4
<1>7. \E k \in A : \A j \in A : k <= j
  BY <1>6
<1> QED
  BY <1>7 DEF Min

\* While the cache is not full there is memory for a block.
LEMMA FreeNodeExists ==
    ASSUME BlocksHeld, Len(lru) < MaxBlocks
    PROVE  Min(Node \ DOMAIN block) \in Node /\ Min(Node \ DOMAIN block) \notin InTree(t)
<1>1. lru \in Seq(Node) /\ Distinct(lru) /\ Elements(lru) = InTree(t) /\ DOMAIN block = InTree(t)
  BY DEF BlocksHeld
<1>2. Cardinality(InTree(t)) = Len(lru)
  BY <1>1, LengthIsCount DEF Distinct, Elements
<1>3. NumNodes \in Nat /\ NumNodes > 0 /\ MaxBlocks \in Nat /\ MaxBlocks <= NumNodes
  BY TreeAssumption, BlockAssumption
<1>4. 1 \in Int /\ NumNodes \in Int
  BY <1>3
<1>5. Cardinality(1..NumNodes) = IF 1 > NumNodes THEN 0 ELSE NumNodes - 1 + 1
  BY <1>4, FS_Interval, Zenon
<1>6. Cardinality(Node) = NumNodes
  BY <1>3, <1>5 DEF Node
<1>7. InTree(t) # Node
  <2>1. Len(lru) \in Nat /\ Len(lru) < NumNodes
    BY <1>1, <1>3
  <2> QED
    BY <1>2, <1>6, <2>1
<1>8. Node \ DOMAIN block # {}
  BY <1>1, <1>7 DEF InTree
<1>9. Min(Node \ DOMAIN block) \in Node \ DOMAIN block
  BY <1>8, MinNode
<1> QED
  BY <1>1, <1>9

\* The function that insert_cache_block is defined by.
BlockFun(o) ==
    CHOOSE f : f = [m \in Node |->
          LET s == IF o < block[m].offset THEN "left" ELSE "right"
          IN IF t.kid[m][s] = NIL THEN <<m, s>> ELSE f[t.kid[m][s]]]

\* What an insertion of block n at offset o does to the tree.
BlockInserted(pos, n, o) ==
    /\ InTree(t') = InTree(t) \cup {n}
    /\ \E p, s : /\ Arrives(t, pos, Turns(blockKey, o), n, p, s)
                 /\ \E S2, h2 : TreeState(S2, PosWith(pos, n, p, s), h2)'

\* Linking the block where insert_cache_block finds its place does that.
LEMMA BlockInsertKeeps ==
    ASSUME NEW S, NEW pos, NEW h, TreeState(S, pos, h),
           OrderedBy(InTree(t), pos, blockKey), NEW n \in Node, n \notin InTree(t),
           NEW o \in Nat, insert_cache_block(n, o)
    PROVE  BlockInserted(pos, n, o)
<1>1. Links(t) /\ Shape(t, S, pos)
  BY DEF TreeState
<1>2. PICK dir : dir = Turns(blockKey, o)
  OBVIOUS
<1>3. pos \in [Node -> Int] /\ o \in Int
  BY <1>1 DEF Shape
<1>4. Leads(t, pos, dir)
  BY <1>2, <1>3, KeyLeads
<1>5. dir \in [Node -> Side]
  BY <1>4 DEF Leads
<1>6. \A m \in Node : dir[m] = IF o < block[m].offset THEN "left" ELSE "right"
  BY <1>2 DEF Turns, blockKey
<1>7. PICK g : PlaceEq(t, dir, g)
  BY <1>1, <1>5, PlaceExists
<1>8. g = [m \in Node |->
          LET s == IF o < block[m].offset THEN "left" ELSE "right"
          IN IF t.kid[m][s] = NIL THEN <<m, s>> ELSE g[t.kid[m][s]]]
  BY <1>6, <1>7 DEF PlaceEq
<1>9. BlockFun(o) = [m \in Node |->
          LET s == IF o < block[m].offset THEN "left" ELSE "right"
          IN IF t.kid[m][s] = NIL THEN <<m, s>> ELSE BlockFun(o)[t.kid[m][s]]]
  BY <1>8 DEF BlockFun
<1>10. PlaceEq(t, dir, BlockFun(o))
  BY <1>6, <1>9 DEF PlaceEq
<1>11. PICK at : at = IF t.root = NIL THEN <<NIL, "left">> ELSE BlockFun(o)[t.root]
  OBVIOUS
<1>12. rb_insert_color(n, at[1], at[2])
  <2>1. rb_insert_color(n, (IF t.root = NIL THEN <<NIL, "left">> ELSE BlockFun(o)[t.root])[1],
                           (IF t.root = NIL THEN <<NIL, "left">> ELSE BlockFun(o)[t.root])[2])
    BY Zenon DEF insert_cache_block, BlockFun
  <2> QED
    BY <1>11, <2>1
<1>13. Arrives(t, pos, dir, n, at[1], at[2])
  BY <1>1, <1>4, <1>10, <1>11, PlaceArrives
<1>14. PICK p, s : p = at[1] /\ s = at[2]
  OBVIOUS
<1>15. FreePlace(t, p, s)
  BY <1>13, <1>14 DEF Arrives
<1>16. InTree(t') = InTree(t) \cup {n} /\ \E S2, h2 : TreeState(S2, PosWith(pos, n, p, s), h2)'
  BY <1>12, <1>14, <1>15, LinkKeeps
<1> QED
  BY <1>2, <1>13, <1>14, <1>16 DEF BlockInserted

\* The missing block is loaded: it is the newest of the list, not copied from
\* yet.
LEMMA MissKeeps ==
    ASSUME NEW S, NEW pos, NEW h, TreeState(S, pos, h), CacheInv(pos), CacheMiss
    PROVE  CacheNext
<1>1. PICK o, n : o = BaseOf(call.offset) /\ n = Min(Node \ DOMAIN block)
  OBVIOUS
<1>2. /\ Missing /\ ~CacheFull /\ insert_cache_block(n, o)
      /\ block' = [m \in DOMAIN block \union {n} |->
                      IF m = n THEN create_cache_block(o) ELSE block[m]]
      /\ lru' = Append(lru, n) /\ current_blocks' = current_blocks + 1
      /\ UNCHANGED <<call, flushing, recent>>
  BY <1>1 DEF CacheMiss, BaseOf
<1>3. /\ call \in Call /\ call # NoCall /\ call.remaining > 0 /\ flushing = NoFlush
      /\ call.offset \in Nat /\ call.offset < FileSize
      /\ \A m \in InTree(t) : block[m].offset # o
      /\ Recently(Len(lru))
  BY <1>1, <1>2, MissingFacts
<1>4. /\ BlocksHeld /\ CallHeld /\ recent \in Seq(Nat) /\ Distinct(recent)
      /\ OrderedBy(InTree(t), pos, blockKey)
  BY DEF CacheInv, UsedHeld
<1>5. /\ lru \in Seq(Node) /\ Distinct(lru) /\ Elements(lru) = InTree(t) /\ current_blocks = Len(lru)
      /\ DOMAIN block = InTree(t) /\ InTree(t) \subseteq Node
      /\ \A m \in InTree(t) : IsBlock(block[m])
      /\ \A a, b \in InTree(t) : block[a].offset = block[b].offset => a = b
  BY <1>3, <1>4 DEF BlocksHeld, InTree
<1>6. Len(lru) \in Nat /\ MaxBlocks \in Nat /\ Len(lru) < MaxBlocks
  BY <1>2, <1>5, BlockAssumption, TreeAssumption DEF CacheFull
<1>7. n \in Node /\ n \notin InTree(t)
  BY <1>1, <1>4, <1>6, FreeNodeExists
<1>8. o \in Nat /\ o < FileSize /\ IsBlock(create_cache_block(o))
  <2>1. PICK q \in Nat : q = call.offset \div BlockSize
    BY <1>3, BaseFacts
  <2>2. o = q * BlockSize
    BY <1>1, <2>1 DEF BaseOf
  <2>3. o \in Nat
    BY <1>1, <1>3, BaseFacts
  <2>4. PICK r \in Nat : call.offset = o + r
    BY <1>1, <1>3, BaseFacts
  <2>5. o < FileSize
    BY <1>3, <2>3, <2>4, BlockAssumption
  <2> QED
    BY <2>2, <2>3, <2>5 DEF IsBlock
<1>9. BlockInserted(pos, n, o)
  BY <1>2, <1>4, <1>7, <1>8, BlockInsertKeeps
<1>10. InTree(t') = InTree(t) \cup {n}
  BY <1>9 DEF BlockInserted
<1>11. PICK p, s : /\ Arrives(t, pos, Turns(blockKey, o), n, p, s)
                   /\ \E S2, h2 : TreeState(S2, PosWith(pos, n, p, s), h2)'
  BY <1>9 DEF BlockInserted
<1>12. PICK S2, h2 : TreeState(S2, PosWith(pos, n, p, s), h2)'
  BY <1>11
<1>13. PICK b2, r : b2 = block' /\ r = lru'
  OBVIOUS
<1>14. /\ DOMAIN b2 = InTree(t') /\ b2[n] = create_cache_block(o)
       /\ \A m \in InTree(t) : b2[m] = block[m]
  BY <1>2, <1>5, <1>7, <1>10, <1>13
<1>15. b2[n].offset = o
  BY <1>14 DEF create_cache_block
<1>16. \A i \in 1..Len(lru) : lru[i] \in InTree(t) /\ lru[i] # n
  BY <1>5, <1>7 DEF Elements
<1>17. /\ r \in Seq(Node) /\ Distinct(r) /\ Len(r) = Len(lru) + 1 /\ r[Len(lru) + 1] = n
       /\ \A i \in 1..Len(lru) : r[i] = lru[i]
  <2>1. r = Append(lru, n) /\ \A i \in 1..Len(lru) : lru[i] # n
    BY <1>2, <1>13, <1>16
  <2>2. Appended(Node, lru, n, r)
    BY <1>5, <1>7, <2>1, AppendDistinct
  <2> QED
    BY <2>2 DEF Appended
<1>18. Elements(r) = InTree(t')
  <2>1. \A i \in 1..Len(r) : i \in 1..Len(lru) \/ i = Len(lru) + 1
    BY <1>6, <1>17
  <2>2. \A i \in 1..Len(lru) : i \in 1..Len(r)
    BY <1>6, <1>17
  <2>3. Len(lru) + 1 \in 1..Len(r)
    BY <1>6, <1>17
  <2>4. ASSUME NEW e \in Elements(r) PROVE e \in InTree(t')
    <3>1. PICK i \in 1..Len(r) : e = r[i]
      BY <2>4 DEF Elements
    <3> QED
      BY <1>10, <1>16, <1>17, <2>1, <3>1
  <2>5. ASSUME NEW e \in InTree(t') PROVE e \in Elements(r)
    <3>1. CASE e = n
      BY <1>17, <2>3, <3>1 DEF Elements
    <3>2. CASE e \in InTree(t)
      <4>1. PICK i \in 1..Len(lru) : e = lru[i]
        BY <1>5, <3>2 DEF Elements
      <4> QED
        BY <1>17, <2>2, <4>1 DEF Elements
    <3> QED
      BY <1>10, <2>5, <3>1, <3>2
  <2> QED
    BY <2>4, <2>5
<1>19. \A m \in InTree(t') : IsBlock(b2[m])
  BY <1>5, <1>8, <1>10, <1>14
<1>20. \A a, b \in InTree(t') : b2[a].offset = b2[b].offset => a = b
  <2>1. ASSUME NEW a \in InTree(t'), NEW b \in InTree(t'), b2[a].offset = b2[b].offset PROVE a = b
    <3>1. (a \in InTree(t) \/ a = n) /\ (b \in InTree(t) \/ b = n)
      BY <1>10
    <3>2. CASE a \in InTree(t) /\ b \in InTree(t)
      BY <1>5, <1>14, <2>1, <3>2
    <3>3. CASE a \in InTree(t) /\ b = n
      BY <1>3, <1>14, <1>15, <2>1, <3>3
    <3>4. CASE a = n /\ b \in InTree(t)
      BY <1>3, <1>14, <1>15, <2>1, <3>4
    <3> QED
      BY <3>1, <3>2, <3>3, <3>4
  <2> QED
    BY <2>1
<1>21. /\ flushing' = NoFlush /\ call' = call /\ recent' = recent /\ current_blocks' = Len(r)
       /\ Len(r) <= MaxBlocks
  BY <1>2, <1>3, <1>5, <1>6, <1>17
<1>22. BlocksHeld'
  BY <1>13, <1>14, <1>17, <1>18, <1>19, <1>20, <1>21 DEF BlocksHeld
<1>23. Fresh'
  <2>1. Len(r) > 0 /\ b2[r[Len(r)]].offset = o
    BY <1>6, <1>15, <1>17
  <2> QED
    BY <1>1, <1>3, <1>13, <1>21, <2>1 DEF Fresh, BaseOf
<1>24. Recently(Len(lru) - 1)'
  <2>1. /\ Len(lru) <= Len(recent)
        /\ \A i \in 1..Len(lru) : block[lru[i]].offset = recent[Len(recent) - Len(lru) + i]
    BY <1>3 DEF Recently
  <2>2. \A i \in 1..Len(lru) : b2[r[i]].offset = recent[Len(recent) - Len(lru) + i]
    BY <1>14, <1>16, <1>17, <2>1
  <2>3. Len(r) - 1 = Len(lru)
    BY <1>6, <1>17
  <2> QED
    BY <1>13, <1>21, <2>1, <2>2, <2>3 DEF Recently
<1>25. UsedHeld'
  BY <1>4, <1>21, <1>23, <1>24 DEF UsedHeld
<1>26. CallHeld'
  BY <1>4, <1>21 DEF CallHeld
<1>27. PICK q, key2 : q = PosWith(pos, n, p, s) /\ key2 = blockKey'
  OBVIOUS
<1>28. key2[n] = o /\ \A a \in InTree(t) : key2[a] = blockKey[a]
  BY <1>5, <1>7, <1>13, <1>14, <1>15, <1>27 DEF blockKey
<1>29. pos \in [Node -> Int] /\ o \in Int
  BY <1>8 DEF TreeState, Shape
<1>30. OrderedBy(InTree(t) \cup {n}, q, key2)
  BY <1>4, <1>7, <1>11, <1>27, <1>28, <1>29, LinkOrdered
<1>31. CacheInv(q)'
  BY <1>10, <1>21, <1>22, <1>25, <1>26, <1>27, <1>30 DEF CacheInv
<1> QED
  BY <1>12, <1>27, <1>31 DEF CacheNext

\* What a turn that finds its block n at offset o copies: cs bytes from bp on.
Copies(n, o, bp, cs) ==
    /\ n = find_cache_block(call.offset) /\ n \in InTree(t)
    /\ o = block[n].offset /\ o = BaseOf(call.offset)
    /\ bp = call.offset % BlockSize /\ cs = Min({call.remaining, BlockSize - bp})
    /\ o \in Nat /\ bp \in Nat /\ cs \in Nat
    /\ call.offset = o + bp /\ bp + cs <= BlockSize /\ cs <= call.remaining

\* There are such numbers in every turn that finds its block.
LEMMA HitFacts ==
    ASSUME NEW S, NEW pos, NEW h, TreeState(S, pos, h), CacheInv(pos), CacheHit
    PROVE  \E n \in Node, o \in Nat, bp \in Nat, cs \in Nat : Copies(n, o, bp, cs)
<1>1. Running /\ find_cache_block(call.offset) # NIL
  BY DEF CacheHit
<1>2. call \in Call
  BY <1>1, RunningFacts
<1>3. call.offset \in Nat /\ call.remaining \in Nat /\ BlockSize \in Nat
  BY <1>2, BlockAssumption DEF Call
<1>4. FindIs(call.offset, find_cache_block(call.offset))
  BY <1>3, FindFacts DEF TreeState, CacheInv, BlocksHeld
<1>5. PICK n : n = find_cache_block(call.offset)
  OBVIOUS
<1>6. n \in InTree(t) /\ block[n].offset = BaseOf(call.offset)
  BY <1>1, <1>4, <1>5 DEF FindIs
<1>7. PICK o \in Nat : o = BaseOf(call.offset)
  BY <1>3, BaseFacts
<1>8. PICK bp \in Nat : bp = call.offset % BlockSize
  BY <1>3, BaseFacts
<1>9. bp < BlockSize /\ call.offset = o + bp
  BY <1>3, <1>7, <1>8, BaseFacts
<1>10. PICK cs : cs = Min({call.remaining, BlockSize - bp})
  OBVIOUS
<1>11. cs = IF call.remaining <= BlockSize - bp THEN call.remaining ELSE BlockSize - bp
  BY <1>3, <1>10, MinOfTwo
<1>12. cs \in Nat /\ bp + cs <= BlockSize /\ cs <= call.remaining
  BY <1>3, <1>9, <1>11
<1>13. Copies(n, o, bp, cs)
  BY <1>5, <1>6, <1>7, <1>8, <1>9, <1>10, <1>12 DEF Copies
<1>14. n \in Node
  BY <1>6 DEF InTree
<1> QED
  BY <1>12, <1>13, <1>14

\* The bytes that are copied are the next ones of the file.
LEMMA HitCopies ==
    ASSUME NEW pos, CacheInv(pos), CacheHit, NEW n, NEW o \in Nat,
           NEW bp \in Nat, NEW cs \in Nat, Copies(n, o, bp, cs)
    PROVE  CallHeld'
<1>1. Running
  BY DEF CacheHit
<1>2. /\ call \in Call /\ call.from < FileSize
      /\ call.from + Len(call.buf) = call.offset
      /\ call.remaining + Len(call.buf) = Min({call.size, FileSize - call.from})
      /\ \A i \in 1..Len(call.buf) : call.buf[i] = call.from + i - 1
  BY <1>1, RunningFacts
<1>3. PICK c : c = call
  OBVIOUS
<1>4. /\ c.offset \in Nat /\ c.remaining \in Nat /\ c.from \in Nat /\ c.size \in Nat
      /\ c.buf \in Seq(Nat) /\ Len(c.buf) \in Nat
  BY <1>2, <1>3 DEF Call
<1>5. PICK off \in Nat, rem \in Nat, fr \in Nat, len \in Nat, sz \in Nat :
           /\ off = c.offset /\ rem = c.remaining /\ fr = c.from /\ len = Len(c.buf)
           /\ sz = c.size
  BY <1>4
<1>6. PICK d : d = block[n].data
  OBVIOUS
<1>7. /\ n \in InTree(t) /\ o = block[n].offset /\ o \in Nat /\ bp \in Nat /\ cs \in Nat
      /\ c.offset = o + bp /\ bp + cs <= BlockSize /\ cs <= c.remaining
  BY <1>3 DEF Copies
<1>8. BlockFacts(block[n])
  BY <1>7, BlockContent DEF CacheInv, BlocksHeld
<1>9. /\ d \in Seq(Nat) /\ Len(d) = BlockSize
      /\ \A i \in 1..BlockSize : o + i - 1 < FileSize => d[i] = o + i - 1
  BY <1>6, <1>7, <1>8 DEF BlockFacts
<1>10. BlockSize \in Nat /\ FileSize \in Nat
  BY BlockAssumption
<1>11. PICK e : e = SubSeq(d, bp + 1, bp + cs)
  OBVIOUS
<1>12. e \in Seq(Nat) /\ Len(e) = cs /\ \A i \in 1..cs : e[i] = d[bp + i]
  BY <1>7, <1>9, <1>10, <1>11
<1>13. c.offset + c.remaining <= FileSize
  <2>1. FileSize - fr \in Int /\ sz \in Int
    BY <1>10
  <2>2. PICK w : w = Min({sz, FileSize - fr})
    OBVIOUS
  <2>3. w = IF sz <= FileSize - fr THEN sz ELSE FileSize - fr
    BY <2>1, <2>2, MinOfTwo
  <2>4. fr + len = off /\ rem + len = w
    BY <1>2, <1>3, <1>5, <2>2
  <2>5. off + rem <= FileSize
    BY <1>10, <2>3, <2>4
  <2> QED
    BY <1>5, <2>5
<1>14. ASSUME NEW i \in 1..cs PROVE e[i] = c.offset + i - 1
  <2>1. off = o + bp /\ bp + cs <= BlockSize /\ cs <= rem /\ off + rem <= FileSize
    BY <1>7, <1>13, <1>5
  <2>2. bp + i \in 1..BlockSize /\ o + (bp + i) - 1 < FileSize /\ o + (bp + i) - 1 = off + i - 1
    BY <1>10, <2>1
  <2> QED
    BY <1>9, <1>12, <1>5, <2>2
<1>15. PICK b : b = c.buf \o e
  OBVIOUS
<1>16. Joined(Nat, c.buf, e, b)
  BY <1>4, <1>12, <1>15, ConcatJoins
<1>17. /\ b \in Seq(Nat) /\ Len(b) = Len(c.buf) + cs
       /\ \A i \in 1..Len(c.buf) : b[i] = c.buf[i]
       /\ \A i \in 1..cs : b[Len(c.buf) + i] = e[i]
  BY <1>12, <1>16 DEF Joined
<1>18. ASSUME NEW i \in 1..Len(b) PROVE b[i] = c.from + i - 1
  <2>1. CASE i <= Len(c.buf)
    <3>1. i \in 1..Len(c.buf)
      BY <1>4, <2>1
    <3> QED
      BY <1>2, <1>3, <1>17, <3>1
  <2>2. CASE ~(i <= Len(c.buf))
    <3>1. PICK k \in 1..cs : i = Len(c.buf) + k
      <4>1. i \in 1..(len + cs) /\ ~(i <= len)
        BY <1>17, <1>5, <2>2
      <4>2. i - len \in 1..cs /\ i = len + (i - len)
        BY <4>1
      <4> QED
        BY <1>5, <4>2
    <3>2. b[i] = c.offset + k - 1
      BY <1>14, <1>17, <3>1
    <3>3. c.offset + k - 1 = c.from + i - 1
      BY <1>2, <1>3, <1>4, <3>1
    <3> QED
      BY <3>2, <3>3
  <2> QED
    BY <2>1, <2>2
<1>19. call' = [c EXCEPT !.buf = b, !.offset = c.offset + cs, !.remaining = c.remaining - cs]
  <2>1. n = find_cache_block(call.offset) /\ bp = call.offset % BlockSize
    BY DEF Copies
  <2>2. cs = Min({call.remaining, BlockSize - bp})
    BY DEF Copies
  <2>3. call' = [call EXCEPT
              !.buf = @ \o SubSeq(block[n].data, bp + 1, bp + cs),
              !.offset = @ + cs, !.remaining = @ - cs]
    BY <2>1, <2>2 DEF CacheHit
  <2> QED
    BY <1>3, <1>6, <1>11, <1>15, <2>3
<1>20. PICK c2 : c2 = call'
  OBVIOUS
<1>21. /\ c2 \in Call /\ c2.from = c.from /\ c2.size = c.size /\ c2.buf = b
       /\ c2.offset = c.offset + cs /\ c2.remaining = c.remaining - cs
  <2>0. cs <= rem
    BY <1>7, <1>5
  <2>1. off + cs \in Nat /\ rem - cs \in Nat
    BY <2>0
  <2> QED
    BY <1>2, <1>3, <1>17, <1>19, <1>20, <1>5, <2>1 DEF Call
<1>22. /\ c.from + Len(b) = c.offset + cs
       /\ (c.remaining - cs) + Len(b) = Min({c.size, FileSize - c.from})
  <2>1. fr + len = off /\ rem + len = Min({c.size, FileSize - c.from}) /\ Len(b) = len + cs /\ cs <= rem
    BY <1>2, <1>3, <1>7, <1>17, <1>5
  <2>2. fr + (len + cs) = off + cs /\ (rem - cs) + (len + cs) = rem + len
    BY <2>1
  <2> QED
    BY <1>5, <2>1, <2>2
<1>23. /\ c2 \in Call /\ c2.from < FileSize
       /\ c2.from + Len(c2.buf) = c2.offset
       /\ c2.remaining + Len(c2.buf) = Min({c2.size, FileSize - c2.from})
       /\ \A i \in 1..Len(c2.buf) : c2.buf[i] = c2.from + i - 1
  BY <1>2, <1>3, <1>18, <1>21, <1>22
<1> QED
  BY <1>20, <1>23 DEF CallHeld

\* The last L elements of q are the first L of K.
LastAre(K, L, q) == L <= Len(q) /\ \A i \in 1..L : K[i] = q[Len(q) - L + i]

\* The last elements of q are those of K, the j-th of them moved to the end.
MovedLast(K, j, q) ==
    /\ q \in Seq(Nat) /\ Distinct(q) /\ Len(K) <= Len(q) /\ q[Len(q)] = K[j]
    /\ \A i \in 1..Len(K) - 1 : q[Len(q) - Len(K) + i] = IF i < j THEN K[i] ELSE K[i + 1]

\* Moving an element to the end of both lists keeps them alike.
LEMMA MoveKeepsOrder ==
    ASSUME NEW K \in Seq(Nat), Distinct(K), NEW q \in Seq(Nat), Distinct(q),
           NEW j \in 1..Len(K), NEW o, o = K[j],
           LastAre(K, Len(K), q) \/ (j = Len(K) /\ LastAre(K, Len(K) - 1, q))
    PROVE  MovedLast(K, j, Append(RemoveFirst(q, o), o))
<1>1. PICK L \in Nat, R \in Nat : L = Len(K) /\ R = Len(q)
  OBVIOUS
<1>2. o \in Nat /\ j \in Nat /\ 1 <= j /\ j <= L
  BY <1>1
<1>3. PICK r : r = RemoveFirst(q, o)
  OBVIOUS
<1>4. PICK s : s = Append(r, o)
  OBVIOUS
<1>5. ASSUME NEW k \in 1..R, q[k] = o
      PROVE  /\ s \in Seq(Nat) /\ Distinct(s) /\ Len(s) = R /\ s[R] = o
             /\ \A i \in 1..R - 1 : s[i] = IF i < k THEN q[i] ELSE q[i + 1]
  <2>1. Taken(Nat, q, k, r)
    BY <1>1, <1>3, <1>5, RemoveTakes
  <2>2. /\ r \in Seq(Nat) /\ Distinct(r) /\ Len(r) = R - 1
        /\ \A i \in 1..R - 1 : r[i] = IF i < k THEN q[i] ELSE q[i + 1]
    BY <1>1, <2>1 DEF Taken, IsWithout
  <2>3. \A i \in 1..Len(r) : r[i] # o
    <3>1. o \notin Elements(r)
      BY <1>5, <2>1 DEF Taken
    <3> QED
      BY <3>1 DEF Elements
  <2>4. /\ s \in Seq(Nat) /\ Distinct(s) /\ Len(s) = Len(r) + 1 /\ s[Len(r) + 1] = o
        /\ \A i \in 1..Len(r) : s[i] = r[i]
    <3>1. Appended(Nat, r, o, s)
      BY <1>2, <1>4, <2>2, <2>3, AppendDistinct
    <3> QED
      BY <3>1 DEF Appended
  <2>5. Len(r) + 1 = R
    BY <2>2
  <2> QED
    BY <2>2, <2>4, <2>5
<1>6. CASE LastAre(K, L, q)
  <2>1. L <= R /\ \A i \in 1..L : K[i] = q[R - L + i]
    BY <1>1, <1>6 DEF LastAre
  <2>2. PICK k \in 1..R : k = R - L + j
    BY <1>2, <2>1
  <2>3. q[k] = o
    BY <2>1, <2>2
  <2>4. /\ s \in Seq(Nat) /\ Distinct(s) /\ Len(s) = R /\ s[R] = o
        /\ \A i \in 1..R - 1 : s[i] = IF i < k THEN q[i] ELSE q[i + 1]
    BY <1>5, <2>3
  <2>5. ASSUME NEW i \in 1..L - 1 PROVE s[R - L + i] = IF i < j THEN K[i] ELSE K[i + 1]
    <3>1. /\ R - L + i \in 1..R - 1 /\ (R - L + i < k <=> i < j) /\ i \in 1..L /\ i + 1 \in 1..L
          /\ (R - L + i) + 1 = R - L + (i + 1)
      BY <1>2, <2>1, <2>2
    <3>2. K[i] = q[R - L + i] /\ K[i + 1] = q[R - L + (i + 1)]
      BY <2>1, <3>1
    <3> QED
      BY <2>4, <3>1, <3>2
  <2>6. MovedLast(K, j, s)
    BY <1>1, <2>1, <2>4, <2>5 DEF MovedLast
  <2> QED
    BY <1>3, <1>4, <2>6
<1>7. CASE j = L /\ LastAre(K, L - 1, q)
  <2>1. L - 1 <= R /\ \A i \in 1..L - 1 : K[i] = q[R - (L - 1) + i]
    BY <1>1, <1>7 DEF LastAre
  <2>2. \A i \in 1..L - 1 : i \in 1..L /\ K[i] # o /\ i < j
    BY <1>1, <1>7 DEF Distinct
  <2>3. CASE \E k \in 1..R : q[k] = o
    <3>1. PICK k \in 1..R : q[k] = o
      BY <2>3
    <3>2. /\ s \in Seq(Nat) /\ Distinct(s) /\ Len(s) = R /\ s[R] = o
          /\ \A i \in 1..R - 1 : s[i] = IF i < k THEN q[i] ELSE q[i + 1]
      BY <1>5, <3>1
    <3>3. k <= R - L + 1
      <4>1. SUFFICES ASSUME k > R - L + 1 PROVE FALSE
        BY <1>2
      <4>2. PICK i \in 1..L - 1 : k = R - (L - 1) + i
        <5>1. k - (R - (L - 1)) \in 1..L - 1 /\ k = R - (L - 1) + (k - (R - (L - 1)))
          BY <1>2, <4>1
        <5> QED
          BY <5>1
      <4> QED
        BY <2>1, <2>2, <3>1, <4>2
    <3>4. L <= R
      BY <3>3
    <3>5. ASSUME NEW i \in 1..L - 1 PROVE s[R - L + i] = K[i]
      <4>1. R - L + i \in 1..R - 1 /\ ~(R - L + i < k) /\ (R - L + i) + 1 = R - (L - 1) + i
        BY <3>3, <3>4
      <4> QED
        BY <2>1, <3>2, <4>1
    <3>6. MovedLast(K, j, s)
      BY <1>1, <2>2, <3>2, <3>4, <3>5 DEF MovedLast
    <3> QED
      BY <1>3, <1>4, <3>6
  <2>4. CASE ~ \E k \in 1..R : q[k] = o
    <3>1. \A k \in 1..Len(q) : q[k] # o
      BY <1>1, <2>4
    <3>2. r = q
      BY <1>3, <3>1, RemoveMissing
    <3>3. /\ s \in Seq(Nat) /\ Distinct(s) /\ Len(s) = R + 1 /\ s[R + 1] = o
          /\ \A i \in 1..R : s[i] = q[i]
      <4>1. s = Append(q, o)
        BY <1>4, <3>2
      <4>2. Appended(Nat, q, o, s)
        BY <1>2, <3>1, <4>1, AppendDistinct
      <4> QED
        BY <1>1, <4>2 DEF Appended
    <3>4. L <= R + 1
      BY <2>1
    <3>5. ASSUME NEW i \in 1..L - 1 PROVE s[(R + 1) - L + i] = K[i]
      <4>1. (R + 1) - L + i \in 1..R /\ (R + 1) - L + i = R - (L - 1) + i
        BY <2>1
      <4> QED
        BY <2>1, <3>3, <4>1
    <3>6. MovedLast(K, j, s)
      BY <1>1, <2>2, <3>3, <3>4, <3>5 DEF MovedLast
    <3> QED
      BY <1>3, <1>4, <3>6
  <2> QED
    BY <2>3, <2>4
<1> QED
  BY <1>1, <1>6, <1>7

\* The history is cut to as many entries as the cache can have blocks.
LEMMA CutKeepsOrder ==
    ASSUME NEW K \in Seq(Nat), NEW j \in 1..Len(K), NEW s, MovedLast(K, j, s), Len(K) <= MaxBlocks
    PROVE  MovedLast(K, j, SubSeq(s, Max({1, Len(s) - MaxBlocks + 1}), Len(s)))
<1>1. /\ s \in Seq(Nat) /\ Distinct(s) /\ Len(K) <= Len(s) /\ s[Len(s)] = K[j]
      /\ \A i \in 1..Len(K) - 1 : s[Len(s) - Len(K) + i] = IF i < j THEN K[i] ELSE K[i + 1]
  BY DEF MovedLast
<1>2. PICK L \in Nat, R \in Nat, M \in Nat : L = Len(K) /\ R = Len(s) /\ M = MaxBlocks
  BY <1>1, BlockAssumption
<1>3. 1 <= L /\ L <= R /\ L <= M
  BY <1>1, <1>2
<1>4. PICK c : c = Max({1, R - M + 1})
  OBVIOUS
<1>5. c = IF 1 <= R - M + 1 THEN R - M + 1 ELSE 1
  <2>1. PICK d \in Int : d = R - M + 1
    OBVIOUS
  <2>2. 1 \in Int /\ c = Max({1, d})
    BY <1>4, <2>1
  <2>3. c = IF 1 <= d THEN d ELSE 1
    BY <2>2, MinOfTwo
  <2> QED
    BY <2>1, <2>3
<1>6. c \in Nat /\ 1 <= c /\ c <= R - L + 1 /\ c <= R + 1
  BY <1>3, <1>5
<1>7. PICK q : q = SubSeq(s, c, R)
  OBVIOUS
<1>8. /\ q \in Seq(Nat) /\ Distinct(q) /\ Len(q) = R - c + 1
      /\ \A i \in 1..R - c + 1 : q[i] = s[c + i - 1]
  <2>1. q = SubSeq(s, c, Len(s)) /\ c <= Len(s) + 1
    BY <1>2, <1>6, <1>7
  <2>2. IsTailOf(Nat, s, c, q)
    BY <1>1, <1>6, <2>1, SuffixFacts
  <2> QED
    BY <1>2, <2>2 DEF IsTailOf
<1>9. PICK Q \in Nat : Q = R - c + 1
  BY <1>6
<1>10. L <= Q /\ Q \in 1..R - c + 1 /\ c + Q - 1 = R
  BY <1>3, <1>6, <1>9
<1>11. q[Q] = K[j]
  BY <1>1, <1>2, <1>8, <1>10
<1>12. ASSUME NEW i \in 1..L - 1 PROVE q[Q - L + i] = IF i < j THEN K[i] ELSE K[i + 1]
  <2>1. Q - L + i \in 1..R - c + 1 /\ c + (Q - L + i) - 1 = R - L + i
    BY <1>6, <1>9, <1>10
  <2> QED
    BY <1>1, <1>2, <1>8, <2>1
<1>13. MovedLast(K, j, q)
  BY <1>2, <1>8, <1>9, <1>10, <1>11, <1>12 DEF MovedLast
<1> QED
  BY <1>2, <1>4, <1>7, <1>13

\* The list and the history of use after a hit.
LEMMA HitMoves ==
    ASSUME NEW pos, CacheInv(pos), CacheHit, NEW n \in Node, NEW o \in Nat,
           NEW bp \in Nat, NEW cs \in Nat, Copies(n, o, bp, cs)
    PROVE  BlocksHeld' /\ UsedHeld'
<1>1. Running /\ UNCHANGED <<treeVars, block, current_blocks, flushing>>
  BY DEF CacheHit
<1>2. /\ n = find_cache_block(call.offset) /\ n \in InTree(t) /\ o = block[n].offset
      /\ o = BaseOf(call.offset)
  BY DEF Copies
<1>3. lru' = Append(RemoveFirst(lru, n), n)
  BY <1>2 DEF CacheHit, MoveToTail
<1>4. PICK s : s = Append(RemoveFirst(recent, o), o)
  OBVIOUS
<1>5. recent' = SubSeq(s, Max({1, Len(s) - MaxBlocks + 1}), Len(s))
  BY <1>2, <1>4 DEF CacheHit
<1>6. t' = t /\ block' = block /\ current_blocks' = current_blocks /\ flushing' = flushing
  BY <1>1 DEF treeVars
<1>7. call # NoCall /\ flushing = NoFlush
  BY <1>1, RunningFacts
<1>8. /\ BlocksHeld /\ recent \in Seq(Nat) /\ Distinct(recent)
      /\ Recently(Len(lru)) \/ (Fresh /\ Recently(Len(lru) - 1))
  BY <1>7 DEF CacheInv, UsedHeld
<1>9. /\ lru \in Seq(Node) /\ Distinct(lru) /\ Elements(lru) = InTree(t) /\ current_blocks = Len(lru)
      /\ DOMAIN block = InTree(t) /\ Len(lru) <= MaxBlocks
      /\ \A m \in InTree(t) : IsBlock(block[m])
      /\ \A a, b \in InTree(t) : block[a].offset = block[b].offset => a = b
  BY <1>7, <1>8 DEF BlocksHeld
<1>10. \A i \in 1..Len(lru) : lru[i] \in InTree(t) /\ block[lru[i]].offset \in Nat
  <2>1. \A i \in 1..Len(lru) : lru[i] \in InTree(t)
    BY <1>9 DEF Elements
  <2>2. \A m \in InTree(t) : BlockFacts(block[m])
    BY <1>9, BlockContent
  <2> QED
    BY <2>1, <2>2 DEF BlockFacts
<1>11. PICK j \in 1..Len(lru) : n = lru[j]
  BY <1>2, <1>9 DEF Elements
<1>12. PICK K : K = [i \in 1..Len(lru) |-> block[lru[i]].offset]
  OBVIOUS
<1>13. K \in Seq(Nat) /\ Len(K) = Len(lru) /\ \A i \in 1..Len(lru) : K[i] = block[lru[i]].offset
  BY <1>9, <1>10, <1>12
<1>14. Distinct(K) /\ K[j] = o
  <2>1. ASSUME NEW a \in 1..Len(K), NEW b \in 1..Len(K), K[a] = K[b] PROVE a = b
    <3>1. PICK x, y : x = lru[a] /\ y = lru[b]
      OBVIOUS
    <3>2. x \in InTree(t) /\ y \in InTree(t) /\ block[x].offset = block[y].offset
      BY <1>10, <1>13, <2>1, <3>1
    <3>3. lru[a] = lru[b]
      BY <1>9, <3>1, <3>2
    <3> QED
      BY <1>9, <1>13, <3>3 DEF Distinct
  <2> QED
    BY <1>2, <1>11, <1>13, <2>1 DEF Distinct
<1>15. LastAre(K, Len(K), recent) \/ (j = Len(K) /\ LastAre(K, Len(K) - 1, recent))
  <2>1. CASE Recently(Len(lru))
    BY <1>13, <2>1 DEF Recently, LastAre
  <2>2. CASE Fresh /\ Recently(Len(lru) - 1)
    <3>1. Len(lru) \in 1..Len(lru) /\ \A i \in 1..Len(lru) - 1 : i \in 1..Len(lru)
      BY <1>9, <1>11
    <3>2. K[Len(lru)] = o
      BY <1>2, <1>13, <2>2, <3>1 DEF Fresh
    <3>3. j = Len(lru)
      BY <1>13, <1>14, <3>1, <3>2 DEF Distinct
    <3> QED
      BY <1>13, <2>2, <3>1, <3>3 DEF Recently, LastAre
  <2> QED
    BY <1>8, <2>1, <2>2
<1>16. j \in 1..Len(K) /\ Len(K) <= MaxBlocks
  BY <1>9, <1>13
<1>17. MovedLast(K, j, s)
  BY <1>4, <1>8, <1>13, <1>14, <1>15, <1>16, MoveKeepsOrder
<1>18. PICK q : q = recent'
  OBVIOUS
<1>19. MovedLast(K, j, q)
  BY <1>5, <1>13, <1>16, <1>17, <1>18, CutKeepsOrder
<1>20. PICK r : r = RemoveFirst(lru, n)
  OBVIOUS
<1>21. Taken(Node, lru, j, r)
  BY <1>9, <1>11, <1>20, RemoveTakes
<1>22. /\ r \in Seq(Node) /\ Distinct(r) /\ Len(r) = Len(lru) - 1
       /\ \A i \in 1..Len(lru) - 1 : r[i] = IF i < j THEN lru[i] ELSE lru[i + 1]
       /\ Elements(r) = InTree(t) \ {n}
  BY <1>9, <1>11, <1>21 DEF Taken, IsWithout
<1>23. \A i \in 1..Len(r) : r[i] \in InTree(t) /\ r[i] # n
  BY <1>22 DEF Elements
<1>24. PICK l : l = lru'
  OBVIOUS
<1>25. PICK L \in Nat : L = Len(lru) /\ 1 <= L
  BY <1>9, <1>11
<1>26. /\ l \in Seq(Node) /\ Distinct(l) /\ Len(l) = Len(r) + 1 /\ l[Len(r) + 1] = n
       /\ \A i \in 1..Len(r) : l[i] = r[i]
  <2>1. l = Append(r, n) /\ \A i \in 1..Len(r) : r[i] # n
    BY <1>3, <1>20, <1>23, <1>24
  <2>2. Appended(Node, r, n, l)
    BY <1>22, <2>1, AppendDistinct
  <2> QED
    BY <2>2 DEF Appended
<1>27. /\ Len(l) = L /\ l[L] = n
       /\ \A i \in 1..L - 1 : l[i] = r[i]
  <2>1. Len(r) = L - 1 /\ (L - 1) + 1 = L
    BY <1>22, <1>25
  <2> QED
    BY <1>26, <2>1
<1>28. Elements(l) = InTree(t)
  <2>1. L \in 1..L /\ (\A i \in 1..L - 1 : i \in 1..L) /\ \A i \in 1..L : i = L \/ i \in 1..L - 1
    BY <1>25
  <2>2. Len(r) = L - 1
    BY <1>22, <1>25
  <2>3. ASSUME NEW e \in Elements(l) PROVE e \in InTree(t)
    <3>1. PICK i \in 1..L : e = l[i]
      BY <1>27, <2>3 DEF Elements
    <3> QED
      BY <1>2, <1>23, <1>27, <2>1, <2>2, <3>1
  <2>4. ASSUME NEW e \in InTree(t) PROVE e \in Elements(l)
    <3>1. CASE e = n
      BY <1>27, <2>1, <3>1 DEF Elements
    <3>2. CASE e # n
      <4>1. PICK i \in 1..Len(r) : e = r[i]
        BY <1>22, <2>4, <3>2 DEF Elements
      <4>2. i \in 1..L - 1 /\ i \in 1..L
        BY <2>1, <2>2
      <4> QED
        BY <1>27, <4>1, <4>2 DEF Elements
    <3> QED
      BY <3>1, <3>2
  <2> QED
    BY <2>3, <2>4
<1>29. BlocksHeld'
  <2>1. Len(l) = Len(lru)
    BY <1>25, <1>27
  <2> QED
    BY <1>6, <1>7, <1>9, <1>24, <1>26, <1>28, <2>1 DEF BlocksHeld
<1>30. /\ q \in Seq(Nat) /\ Distinct(q) /\ L <= Len(q) /\ q[Len(q)] = o
       /\ \A i \in 1..L - 1 : q[Len(q) - L + i] = IF i < j THEN K[i] ELSE K[i + 1]
  BY <1>13, <1>14, <1>19, <1>25 DEF MovedLast
<1>31. ASSUME NEW i \in 1..L PROVE block[l[i]].offset = q[Len(q) - L + i]
  <2>1. CASE i = L
    <3>1. Len(q) \in Nat /\ Len(q) - L + L = Len(q)
      BY <1>30
    <3> QED
      BY <1>2, <1>27, <1>30, <2>1, <3>1
  <2>2. CASE i # L
    <3>1. i \in 1..L - 1 /\ i \in 1..L /\ i + 1 \in 1..L
      BY <2>2
    <3>2. l[i] = IF i < j THEN lru[i] ELSE lru[i + 1]
      BY <1>22, <1>25, <1>27, <3>1
    <3>3. block[l[i]].offset = IF i < j THEN K[i] ELSE K[i + 1]
      BY <1>13, <1>25, <3>1, <3>2
    <3> QED
      BY <1>30, <3>1, <3>3
  <2> QED
    BY <2>1, <2>2
<1>32. Recently(Len(lru))'
  BY <1>6, <1>18, <1>24, <1>27, <1>30, <1>31 DEF Recently
<1>33. UsedHeld'
  BY <1>18, <1>30, <1>32 DEF UsedHeld
<1> QED
  BY <1>29, <1>33

\* A hit keeps the tree and the blocks.
LEMMA HitKeeps ==
    ASSUME NEW S, NEW pos, NEW h, TreeState(S, pos, h), CacheInv(pos), CacheHit
    PROVE  CacheNext
<1>1. PICK n \in Node, o \in Nat, bp \in Nat, cs \in Nat : Copies(n, o, bp, cs)
  BY HitFacts
<1>2. CallHeld' /\ BlocksHeld' /\ UsedHeld'
  BY <1>1, HitCopies, HitMoves
<1>3. Running /\ UNCHANGED treeVars /\ block' = block /\ flushing' = flushing
  BY DEF CacheHit
<1>4. TreeState(S, pos, h)' /\ t' = t
  BY <1>3, TreeStays
<1>5. flushing = NoFlush
  BY <1>3, RunningFacts
<1>6. OrderedBy(InTree(t'), pos, blockKey')
  BY <1>3, <1>4 DEF CacheInv, blockKey
<1>7. CacheInv(pos)'
  BY <1>2, <1>3, <1>5, <1>6 DEF CacheInv
<1> QED
  BY <1>4, <1>7 DEF CacheNext

\* Every step of the cache keeps the invariant.
LEMMA CacheStepKeeps ==
    ASSUME NEW S, NEW pos, NEW h, TreeState(S, pos, h), CacheInv(pos), CacheStep
    PROVE  CacheNext
BY ReadKeeps, EvictKeeps, MissKeeps, ReadFailsKeeps, HitKeeps, ReadDoneKeeps,
   FlushBeginsKeeps, FlushBlockKeeps, FlushEndsKeeps DEF CacheStep

\* So does a step of a rebalancing loop.
LEMMA CacheRebalances ==
    ASSUME NEW S, NEW pos, NEW h, TreeState(S, pos, h), CacheInv(pos), Rebalance,
           UNCHANGED cacheVars
    PROVE  CacheNext
<1>1. Kept(pos)
  BY RebalanceKeeps
<1>2. InTree(t') = InTree(t) /\ \E S2, h2 : TreeState(S2, pos, h2)'
  BY <1>1 DEF Kept
<1>3. PICK S2, h2 : TreeState(S2, pos, h2)'
  BY <1>2
<1>4. /\ block' = block /\ lru' = lru /\ current_blocks' = current_blocks /\ call' = call
      /\ flushing' = flushing /\ recent' = recent
  BY DEF cacheVars
<1>5. BlocksHeld'
  BY <1>2, <1>4 DEF CacheInv, BlocksHeld
<1>6. CallHeld' /\ UsedHeld'
  BY <1>4 DEF CacheInv, CallHeld, UsedHeld, Recently, Fresh, BaseOf
<1>7. blockKey' = blockKey
  BY <1>4 DEF blockKey
<1>8. CacheInv(pos)'
  BY <1>2, <1>4, <1>5, <1>6, <1>7 DEF CacheInv
<1> QED
  BY <1>3, <1>8 DEF CacheNext

----------------------------------------------------------------------------
(* What the invariant says of the cache.                                   *)

\* Blocks of the file do not overlap.
LEMMA BlocksDoNotOverlap ==
    ASSUME NEW a \in Nat, NEW b \in Nat, Multiple(a), Multiple(b), a # b
    PROVE  a + BlockSize <= b \/ b + BlockSize <= a
<1>1. PICK p \in Nat : a = p * BlockSize
  BY DEF Multiple
<1>2. PICK q \in Nat : b = q * BlockSize
  BY DEF Multiple
<1>3. p # q
  BY <1>1, <1>2
<1>4. CASE p < q
  BY <1>1, <1>2, <1>4, BlocksApart
<1>5. CASE q < p
  BY <1>1, <1>2, <1>5, BlocksApart
<1> QED
  BY <1>3, <1>4, <1>5

\* Unless a block was just loaded the cached blocks are the last ones used.
LEMMA CacheIsRecent ==
    ASSUME NEW pos, CacheInv(pos)
    PROVE  LeastRecentlyUsed
<1>1. SUFFICES ASSUME flushing = NoFlush, call = NoCall \/ call.remaining = 0
      PROVE  { block[n].offset : n \in DOMAIN block }
                = { recent[i] : i \in Len(recent) - Len(lru) + 1 .. Len(recent) }
  BY DEF LeastRecentlyUsed
<1>2. ~Fresh
  BY <1>1 DEF Fresh
<1>3. Recently(Len(lru)) /\ recent \in Seq(Nat)
  BY <1>1, <1>2 DEF CacheInv, UsedHeld
<1>4. lru \in Seq(Node) /\ DOMAIN block = Elements(lru)
  BY DEF CacheInv, BlocksHeld
<1>5. PICK L \in Nat, R \in Nat : L = Len(lru) /\ R = Len(recent)
  BY <1>3, <1>4
<1>6. L <= R /\ \A i \in 1..L : block[lru[i]].offset = recent[R - L + i]
  BY <1>3, <1>5 DEF Recently
<1>7. ASSUME NEW n \in DOMAIN block
      PROVE  \E i \in R - L + 1 .. R : block[n].offset = recent[i]
  <2>1. PICK i \in 1..L : n = lru[i]
    BY <1>4, <1>5, <1>7 DEF Elements
  <2>2. R - L + i \in R - L + 1 .. R
    BY <1>6
  <2> QED
    BY <1>6, <2>1, <2>2
<1>8. ASSUME NEW k \in R - L + 1 .. R
      PROVE  \E n \in DOMAIN block : block[n].offset = recent[k]
  <2>1. PICK i \in 1..L : k = R - L + i
    <3>1. k - (R - L) \in 1..L /\ k = R - L + (k - (R - L))
      BY <1>6
    <3> QED
      BY <3>1
  <2>2. lru[i] \in DOMAIN block
    BY <1>4, <1>5 DEF Elements
  <2> QED
    BY <1>6, <2>1, <2>2
<1>9. PICK A, B : /\ A = { block[n].offset : n \in DOMAIN block }
                  /\ B = { recent[i] : i \in R - L + 1 .. R }
  OBVIOUS
<1>10. \A v \in A : v \in B
  BY <1>7, <1>9
<1>11. \A v \in B : v \in A
  BY <1>8, <1>9
<1>12. A = B
  BY <1>10, <1>11
<1> QED
  BY <1>5, <1>9, <1>12

\* Tree, list and memory agree, and the list is the order of use.
LEMMA CacheIsConsistent ==
    ASSUME NEW S, NEW pos, Links(t), Shape(t, S, pos), CacheInv(pos)
    PROVE  CacheConsistent
<1>1. /\ lru \in Seq(Node) /\ Distinct(lru) /\ Len(lru) <= MaxBlocks
      /\ DOMAIN block = InTree(t) /\ Elements(lru) = InTree(t)
      /\ \A n \in InTree(t) : IsBlock(block[n])
      /\ \A m, n \in InTree(t) : block[m].offset = block[n].offset => m = n
      /\ flushing = NoFlush => current_blocks = Len(lru)
  BY DEF CacheInv, BlocksHeld
<1>2. Nodes(t) = DOMAIN block
  BY <1>1, TreeSorted
<1>3. DOMAIN lru = 1..Len(lru)
  BY <1>1
<1>4. ToSet(lru) = DOMAIN block
  BY <1>1, <1>3 DEF ToSet, Elements
<1>5. IsInjective(lru)
  BY <1>1, <1>3 DEF IsInjective, Distinct
<1>6. NIL # NoFlush /\ NoFlush \notin Node /\ NIL \notin Node
  BY TreeAssumption DEF NoFlush, NIL, Node
<1>7. ASSUME flushing = NIL PROVE lru = <<>>
  <2>1. InTree(t) = {}
    BY <1>6, <1>7 DEF CacheInv, First
  <2>2. 1 \notin 1..Len(lru)
    BY <1>1, <2>1 DEF Elements
  <2>3. Len(lru) = 0
    BY <1>1, <2>2
  <2> QED
    BY <1>1, <2>3
<1>8. ASSUME flushing \in Node PROVE flushing \in DOMAIN block
  <2>1. First(InTree(t), pos, flushing) /\ flushing # NIL
    BY <1>6, <1>8 DEF CacheInv
  <2> QED
    BY <1>1, <2>1 DEF First
<1>9. ASSUME NEW m \in DOMAIN block, NEW n \in DOMAIN block, m # n
      PROVE  \/ block[m].offset + BlockSize <= block[n].offset
             \/ block[n].offset + BlockSize <= block[m].offset
  <2>1. BlockFacts(block[m]) /\ BlockFacts(block[n])
    BY <1>1, BlockContent
  <2>2. PICK a \in Nat, b \in Nat : a = block[m].offset /\ b = block[n].offset
    BY <2>1 DEF BlockFacts
  <2>3. Multiple(a) /\ Multiple(b)
    BY <2>1, <2>2 DEF BlockFacts
  <2>4. a # b
    BY <1>1, <1>9, <2>2
  <2>5. a + BlockSize <= b \/ b + BlockSize <= a
    BY <2>3, <2>4, BlocksDoNotOverlap
  <2> QED
    BY <2>2, <2>5
<1>10. LeastRecentlyUsed
  BY CacheIsRecent
<1> QED
  BY <1>1, <1>2, <1>4, <1>5, <1>7, <1>8, <1>9, <1>10 DEF CacheConsistent

\* A call that has nothing left to copy has the bytes of the file.
LEMMA ReadIsFaithful ==
    ASSUME NEW pos, CacheInv(pos)
    PROVE  ReadFaithful
<1>1. SUFFICES ASSUME Running, call.remaining = 0, NEW n, n = Min({call.size, FileSize - call.from})
      PROVE  call.buf = [i \in 1..n |-> call.from + i - 1]
  BY DEF ReadFaithful
<1>2. /\ call \in Call /\ call.remaining + Len(call.buf) = Min({call.size, FileSize - call.from})
      /\ \A i \in 1..Len(call.buf) : call.buf[i] = call.from + i - 1
  BY <1>1, RunningFacts
<1>3. PICK b, from : b = call.buf /\ from = call.from
  OBVIOUS
<1>4. b \in Seq(Nat) /\ Len(b) \in Nat
  BY <1>2, <1>3 DEF Call
<1>5. Len(b) = n
  BY <1>1, <1>2, <1>3, <1>4
<1>6. b = [i \in 1..Len(b) |-> b[i]]
  BY <1>4
<1>7. \A i \in 1..n : b[i] = from + i - 1
  BY <1>2, <1>3, <1>5
<1>8. b = [i \in 1..n |-> from + i - 1]
  BY <1>5, <1>6, <1>7
<1> QED
  BY <1>3, <1>8

----------------------------------------------------------------------------
(* The invariant of Trees.                                                 *)

\* The tree is a search tree in some state of a rebalancing loop, its owner
\* is in a consistent state, and only the cache has calls that run.
OwnerInv(pos) ==
    /\ user = "cache" => CacheInv(pos)
    /\ user # "cache" => SymbolInv(pos) /\ call = NoCall

\* The inductive invariant.
TreesInv == \E S, pos, h : TreeState(S, pos, h) /\ OwnerInv(pos)

\* It holds in the empty tree of any owner.
LEMMA InitInv == Init => TreesInv
<1>1. SUFFICES ASSUME TInit, SInit, BInit PROVE TreesInv
  BY DEF Init
<1>2. PICK pos \in [Node -> Int] : TRUE
  <2>1. [n \in Node |-> 0] \in [Node -> Int]
    OBVIOUS
  <2> QED
    BY <2>1
<1>3. t = EmptyTree /\ pc = "idle" /\ node = NIL /\ parent = NIL
  BY <1>1 DEF TInit
<1>4. InTree(t) = {} /\ \E S, h : TreeState(S, pos, h)
  BY <1>3, EmptyState
<1>5. PICK S, h : TreeState(S, pos, h)
  BY <1>4
<1>6. user \in User /\ row = <<>> /\ live = {} /\ cursor = NIL /\ phase = "use"
  BY <1>1 DEF SInit
<1>7. /\ block = [n \in {} |-> NIL] /\ lru = <<>> /\ current_blocks = 0
      /\ call = NoCall /\ flushing = NoFlush /\ recent = <<>>
  BY <1>1 DEF BInit
<1>8. CacheInv(pos)
  <2>1. /\ lru \in Seq(Node) /\ Len(lru) = 0 /\ recent \in Seq(Nat) /\ Len(recent) = 0 /\ 1..0 = {}
        /\ DOMAIN block = {} /\ 0 <= MaxBlocks
    BY <1>7, BlockAssumption, TreeAssumption
  <2>2. Distinct(lru) /\ Elements(lru) = {} /\ Distinct(recent)
    BY <2>1 DEF Distinct, Elements
  <2>3. BlocksHeld
    BY <1>4, <1>7, <2>1, <2>2 DEF BlocksHeld
  <2>4. Recently(Len(lru))
    BY <2>1 DEF Recently
  <2>5. UsedHeld
    BY <2>1, <2>2, <2>4 DEF UsedHeld
  <2> QED
    BY <1>4, <1>7, <2>3, <2>5 DEF CacheInv, CallHeld, OrderedBy
<1>9. user # "cache" => SymbolInv(pos)
  <2>1. row \in Seq(AddrRange) /\ Len(row) = 0 /\ DOMAIN row = {} /\ 0 <= MaxRows
    BY <1>6, SymbolAssumption, TreeAssumption
  <2>2. RowsHeld
    BY <1>6, <2>1 DEF RowsHeld
  <2> QED
    BY <1>4, <1>6, <2>1, <2>2 DEF SymbolInv, OrderedBy
<1> QED
  BY <1>5, <1>7, <1>8, <1>9 DEF TreesInv, OwnerInv

\* The trees of SymbolTrees keep their owner.
LEMMA SymbolStepUser ==
    ASSUME SymbolStep
    PROVE  user # "cache" /\ user' = user
BY DEF SymbolStep, load_kernel_symbols, process_symbol_section, parse_process_memory_maps,
       CallerInserts, CallerErases, CallerReplaces, FreeBegins, FreeNode, FreeEnds, free_vma_tree

\* Every step of an owner and of a loop keeps it.
LEMMA NextInv ==
    ASSUME TreesInv, [Next]_vars
    PROVE  TreesInv'
<1>1. PICK S, pos, h : TreeState(S, pos, h) /\ OwnerInv(pos)
  BY DEF TreesInv
<1>2. SymbolNext /\ user' # "cache" /\ call' = NoCall => TreesInv'
  <2>1. SUFFICES ASSUME SymbolNext, user' # "cache", call' = NoCall PROVE TreesInv'
    OBVIOUS
  <2>2. PICK S2, q, h2 : TreeState(S2, q, h2)' /\ SymbolInv(q)'
    BY <2>1 DEF SymbolNext
  <2>3. OwnerInv(q)'
    BY <2>1, <2>2 DEF OwnerInv
  <2> QED
    BY <2>2, <2>3 DEF TreesInv
<1>3. CacheNext /\ user' = "cache" => TreesInv'
  <2>1. SUFFICES ASSUME CacheNext, user' = "cache" PROVE TreesInv'
    OBVIOUS
  <2>2. PICK S2, q, h2 : TreeState(S2, q, h2)' /\ CacheInv(q)'
    BY <2>1 DEF CacheNext
  <2>3. OwnerInv(q)'
    BY <2>1, <2>2 DEF OwnerInv
  <2> QED
    BY <2>2, <2>3 DEF TreesInv
<1>4. CASE SymbolStep /\ UNCHANGED cacheVars
  <2>1. user # "cache" /\ user' = user
    BY <1>4, SymbolStepUser
  <2>2. SymbolInv(pos) /\ call = NoCall
    BY <1>1, <2>1 DEF OwnerInv
  <2>3. SymbolNext
    BY <1>1, <1>4, <2>2, SymbolStepKeeps
  <2>4. call' = NoCall
    BY <1>4, <2>2 DEF cacheVars
  <2> QED
    BY <1>2, <2>1, <2>3, <2>4
<1>5. CASE user = "cache" /\ CacheStep /\ UNCHANGED symbolVars
  <2>1. CacheInv(pos) /\ user' = "cache"
    BY <1>1, <1>5 DEF OwnerInv, symbolVars
  <2>2. CacheNext
    BY <1>1, <1>5, <2>1, CacheStepKeeps
  <2> QED
    BY <1>3, <2>1, <2>2
<1>6. CASE Rebalance /\ UNCHANGED <<symbolVars, cacheVars>>
  <2>1. user' = user /\ call' = call
    BY <1>6 DEF symbolVars, cacheVars
  <2>2. CASE user = "cache"
    <3>1. CacheInv(pos)
      BY <1>1, <2>2 DEF OwnerInv
    <3>2. CacheNext
      BY <1>1, <1>6, <3>1, CacheRebalances
    <3> QED
      BY <1>3, <2>1, <2>2, <3>2
  <2>3. CASE user # "cache"
    <3>1. SymbolInv(pos) /\ call = NoCall
      BY <1>1, <2>3 DEF OwnerInv
    <3>2. SymbolNext
      BY <1>1, <1>6, <3>1, SymbolRebalances
    <3> QED
      BY <1>2, <2>1, <2>3, <3>1, <3>2
  <2> QED
    BY <2>2, <2>3
<1>7. CASE UNCHANGED vars
  <2>1. UNCHANGED treeVars /\ UNCHANGED symbolVars /\ UNCHANGED cacheVars
    BY <1>7 DEF vars
  <2>2. TreeState(S, pos, h)' /\ t' = t
    BY <1>1, <2>1, TreeStays
  <2>3. /\ user' = user /\ row' = row /\ live' = live /\ cursor' = cursor /\ phase' = phase
        /\ block' = block /\ lru' = lru /\ current_blocks' = current_blocks /\ call' = call
        /\ flushing' = flushing /\ recent' = recent
    BY <2>1 DEF symbolVars, cacheVars
  <2>4. SymbolInv(pos) => SymbolInv(pos)'
    <3>1. symbolKey' = symbolKey
      BY <2>3 DEF symbolKey, Key
    <3> QED
      BY <2>2, <2>3, <3>1 DEF SymbolInv, RowsHeld
  <2>5. CacheInv(pos) => CacheInv(pos)'
    <3>1. BlocksHeld => BlocksHeld'
      BY <2>2, <2>3 DEF BlocksHeld
    <3>2. CallHeld => CallHeld'
      BY <2>3 DEF CallHeld
    <3>3. UsedHeld => UsedHeld'
      BY <2>3 DEF UsedHeld, Recently, Fresh, BaseOf
    <3>4. blockKey' = blockKey
      BY <2>3 DEF blockKey
    <3> QED
      BY <2>2, <2>3, <3>1, <3>2, <3>3, <3>4 DEF CacheInv
  <2>6. OwnerInv(pos)'
    BY <1>1, <2>3, <2>4, <2>5 DEF OwnerInv
  <2> QED
    BY <2>2, <2>6 DEF TreesInv
<1> QED
  BY <1>4, <1>5, <1>6, <1>7 DEF Next

\* What the invariant says of the properties.
LEMMA InvImplies ==
    ASSUME TreesInv
    PROVE  RedBlack /\ Walks /\ OwnerConsistent /\ LookupsCorrect /\ ReadFaithful
<1>1. PICK S, pos, h : TreeState(S, pos, h) /\ OwnerInv(pos)
  BY DEF TreesInv
<1>2. Links(t) /\ Shape(t, S, pos)
  BY <1>1 DEF TreeState
<1>3. RedBlack /\ Walks
  BY <1>1, <1>2, RedBlackHolds, WalksHold
<1>4. CASE user = "cache"
  <2>1. CacheInv(pos)
    BY <1>1, <1>4 DEF OwnerInv
  <2>2. CacheConsistent /\ ReadFaithful
    BY <1>2, <2>1, CacheIsConsistent, ReadIsFaithful
  <2>3. LookupsCorrect
    BY <1>4 DEF LookupsCorrect
  <2> QED
    BY <1>3, <1>4, <2>2, <2>3 DEF OwnerConsistent
<1>5. CASE user # "cache"
  <2>1. SymbolInv(pos) /\ call = NoCall
    BY <1>1, <1>5 DEF OwnerInv
  <2>2. NodesInOrder /\ LookupsCorrect
    BY <1>2, <2>1, NodesAreInOrder, LookupsHold
  <2>3. ReadFaithful
    BY <2>1 DEF ReadFaithful, Running, NoCall
  <2> QED
    BY <1>3, <1>5, <2>2, <2>3 DEF OwnerConsistent
<1> QED
  BY <1>4, <1>5

\* So it holds in every reachable state.
LEMMA TreesInvariant == Spec => []TreesInv
BY InitInv, NextInv, PTL DEF Spec

\* Whatever its owner does, the tree is red-black at rest, and inside the loops
\* of rbtree.c the invariants hold that their comments state.
THEOREM TreesRedBlack == Spec => []RedBlack
BY TreesInvariant, InvImplies, PTL

\* rb_first and rb_next, rb_last and rb_prev, and the postorder functions of
\* rbtree.c visit each node of the tree once, in their order.
THEOREM TreesWalks == Spec => []Walks
BY TreesInvariant, InvImplies, PTL

\* The nodes of the tree are the ones its owner has allocated, in the order of
\* their keys; tree, list and count of elf_cache.c agree and the list is the
\* order of use.
THEOREM TreesOwnerConsistent == Spec => []OwnerConsistent
BY TreesInvariant, InvImplies, PTL

\* The lookups of kernel_symbol.c, symbol_table.c and process.c find what a
\* search of all rows finds.
THEOREM TreesLookupsCorrect == Spec => []LookupsCorrect
BY TreesInvariant, InvImplies, PTL

\* cache_read returns the bytes of the file that were asked for, whatever was
\* evicted meanwhile.
THEOREM TreesReadFaithful == Spec => []ReadFaithful
BY TreesInvariant, InvImplies, PTL
=============================================================================
