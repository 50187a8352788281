---------------------------- MODULE SymbolTrees ----------------------------
(***************************************************************************)
(* The trees that addresses are looked up in: the kernel symbols           *)
(* (kernel_symbol.c), the function symbols of an ELF file (elf.c,          *)
(* symbol_table.c) and the memory map of a process (vma.c, process.c); and *)
(* "caller", who uses all of rbtree.h on keys of its own.  "cache" is left *)
(* to BlockCache.                                                          *)
(*                                                                         *)
(* A tree is built from the rows of a file, one insertion per row; it is   *)
(* then searched, and in the end emptied node by node.  Rows that are not  *)
(* inserted (no function, a size of 0, no memory) change nothing and are   *)
(* left out; a build cut short leaves a state that is reached anyway.      *)
(***************************************************************************)
EXTENDS RbTree

CONSTANTS MaxAddr,     \* addresses are 0..MaxAddr
          MaxRows      \* bound: rows read from one file

ASSUME SymbolAssumption == MaxAddr \in Nat /\ MaxRows \in 0..NumNodes

VARIABLES user,        \* whose tree this is
          row,         \* the rows read: row[n] is what node n stands for
          live,        \* the nodes that are allocated
          cursor,      \* the local variable next of a loop that frees
          phase        \* "use", or "free" while such a loop runs

symbolVars == <<user, row, live, cursor, phase>>

User == {"caller", "kernel", "elf", "vma", "cache"}
Addr == 0..MaxAddr

\* A range with hi <= lo is empty; an end of 0 stands for all of those.
AddrRange == [lo : Addr, hi : Addr]

SInit == user \in User /\ row = <<>> /\ live = {} /\ cursor = NIL /\ phase = "use"

\* The key of a node; a caller's nodes are numbered in the order of its keys.
Key(n) == IF user = "caller" THEN n ELSE row[n].lo

----------------------------------------------------------------------------
(* Building the tree.                                                      *)

\* Where key k belongs: the parent and the side; after the equal ones.
Place(k) ==
    LET f[m \in Node] ==
          LET s == IF k < Key(m) THEN "left" ELSE "right"
          IN IF t.kid[m][s] = NIL THEN <<m, s>> ELSE f[t.kid[m][s]]
    IN IF t.root = NIL THEN <<NIL, "left">> ELSE f[t.root]

\* Node n with key k is linked at its place; the loop of rb_insert_color runs.
Insert(n, k) == LET at == Place(k) IN rb_insert_color(n, at[1], at[2])

\* insert_symbol meets a node with this address on its way down.
Conflict(a) ==
    LET f[m \in Link] ==
          IF m = NIL THEN FALSE
          ELSE a = Key(m) \/ f[t.kid[m][IF a < Key(m) THEN "left" ELSE "right"]]
    IN f[t.root]

Reading(u) == user = u /\ phase = "use" /\ pc = "idle" /\ Len(row) < MaxRows

\* A row r of the file is node Len(row) + 1.
NewRow(r) ==
    /\ row' = Append(row, r)
    /\ Insert(Len(row) + 1, r.lo)
    /\ live' = live \union {Len(row) + 1}

\* Of two kernel symbols with one address the first is kept.
load_kernel_symbols ==
    /\ Reading("kernel")
    /\ \E a \in Addr :
          IF Conflict(a)
          THEN row' = Append(row, [lo |-> a, hi |-> a]) /\ UNCHANGED <<treeVars, live>>
          ELSE NewRow([lo |-> a, hi |-> a])
    /\ UNCHANGED <<user, cursor, phase>>

\* Functions of the two symbol tables, in any order; they can overlap.
process_symbol_section ==
    /\ Reading("elf")
    /\ \E r \in AddrRange : r.lo < r.hi /\ NewRow(r)
    /\ UNCHANGED <<user, cursor, phase>>

\* The kernel lists the areas in order and without overlaps.  But fgets cuts
\* long lines in two, and sscanf takes whatever range it can read from the
\* rest of a line; 0 stays where it finds no number, and stands for every
\* range that is empty: the search treats them all alike.
parse_process_memory_maps ==
    /\ Reading("vma")
    /\ \E r \in AddrRange : /\ r.lo < r.hi \/ (row # <<>> /\ r.hi = 0)
                            /\ NewRow(r)
    /\ UNCHANGED <<user, cursor, phase>>

----------------------------------------------------------------------------
(* A caller of rbtree.h.                                                   *)

Calls == user = "caller" /\ phase = "use" /\ pc = "idle"

CallerInserts ==
    /\ Calls
    /\ \E n \in Node \ live : Insert(n, n) /\ live' = live \union {n}
    /\ UNCHANGED <<user, row, cursor, phase>>

CallerErases ==
    /\ Calls
    /\ \E n \in live : rb_erase(n) /\ live' = live \ {n}
    /\ UNCHANGED <<user, row, cursor, phase>>

\* The new node has to fit between the neighbours of the victim.
CallerReplaces ==
    /\ Calls
    /\ \E victim \in live, new \in Node \ live :
          /\ \A m \in live \ {victim} : m < victim <=> m < new
          /\ t' = Forget(rb_replace_node(t, victim, new), victim)
          /\ live' = (live \ {victim}) \union {new}
    /\ UNCHANGED <<pc, node, parent, user, row, cursor, phase>>

----------------------------------------------------------------------------
(* Freeing the tree.                                                       *)

\* free_kernel_symbols and free_elf_resources start at the first node ...
FreeBegins ==
    /\ user # "vma" /\ phase = "use" /\ pc = "idle" /\ t.root # NIL
    /\ phase' = "free" /\ cursor' = rb_first(t)
    /\ UNCHANGED <<treeVars, user, row, live>>

\* Mutant: the successor is looked for after the node was erased and freed.
next_after_free ==
    /\ phase = "free" /\ pc = "idle" /\ cursor # NIL
    /\ rb_erase(cursor)
    /\ live' = live \ {cursor}
    /\ cursor' = rb_next(t', cursor)
    /\ UNCHANGED <<user, row, phase>>

\* ... and take the successor of each node before they erase and free it.
FreeNode ==
    /\ phase = "free" /\ pc = "idle" /\ cursor # NIL
    /\ cursor' = rb_next(t, cursor)
    /\ rb_erase(cursor)
    /\ live' = live \ {cursor}
    /\ UNCHANGED <<user, row, phase>>

\* The root goes too; the next file starts with an empty tree.
FreeEnds ==
    /\ phase = "free" /\ pc = "idle" /\ cursor = NIL
    /\ phase' = "use" /\ row' = <<>>
    /\ UNCHANGED <<treeVars, user, live, cursor>>

\* Memory maps are freed bottom up, without touching the tree, and then the
\* root is reset.
free_vma_tree ==
    /\ user = "vma" /\ pc = "idle" /\ row # <<>>
    /\ live' = live \ Nodes(t)
    /\ t' = EmptyTree
    /\ row' = <<>>
    /\ UNCHANGED <<pc, node, parent, user, cursor, phase>>

SymbolStep == user # "cache" /\
  ( \/ load_kernel_symbols \/ process_symbol_section \/ parse_process_memory_maps
    \/ CallerInserts \/ CallerErases \/ CallerReplaces
    \/ FreeBegins \/ FreeNode \/ FreeEnds \/ free_vma_tree )

----------------------------------------------------------------------------
(* Looking up an address; NIL is "unknown".                                *)

find_kernel_symbol(a) ==
    LET f[m \in Link] == [found \in Link |->
          IF m = NIL THEN found
          ELSE IF a >= row[m].lo THEN f[t.kid[m]["right"]][m]
                                 ELSE f[t.kid[m]["left"]][found]]
    IN f[t.root][NIL]

Covers(n, a) == row[n].lo <= a /\ a < row[n].hi

\* Mutant: the end of a symbol belongs to it.
search_end_inclusive(a) ==
    LET f[m \in Link] ==
          IF m = NIL THEN NIL
          ELSE IF row[m].lo <= a /\ a <= row[m].hi THEN m
          ELSE f[t.kid[m][IF a < row[m].lo THEN "left" ELSE "right"]]
    IN f[t.root]

rb_search_symbol(a) ==
    LET f[m \in Link] ==
          IF m = NIL THEN NIL
          ELSE IF Covers(m, a) THEN m
          ELSE f[t.kid[m][IF a < row[m].lo THEN "left" ELSE "right"]]
    IN f[t.root]

find_vma_from_process(a) ==
    LET f[m \in Link] ==
          IF m = NIL THEN NIL
          ELSE IF a < row[m].lo THEN f[t.kid[m]["left"]]
          ELSE IF a >= row[m].hi THEN f[t.kid[m]["right"]]
          ELSE m
    IN f[t.root]

----------------------------------------------------------------------------
(* Properties.                                                             *)

\* The nodes of the tree are the allocated ones, once each, in the order of
\* their keys; the loop that empties a tree never holds a freed node and
\* leaves none behind, although rb_erase moves the nodes it has still to see.
NodesInOrder ==
    LET s == InOrder(t, t.root)
    IN /\ { s[k] : k \in DOMAIN s } = live /\ Len(s) = Cardinality(live)
       /\ \A k \in 1..Len(s) - 1 : Key(s[k]) <= Key(s[k + 1])
       /\ phase = "free" => IF cursor = NIL THEN live = {} ELSE cursor \in live

\* The kernel symbol of a: the greatest address not above a, and of several
\* rows with that address the first of the file.
KernelLookup(a, n) ==
    LET below == { k \in DOMAIN row : row[k].lo <= a }
    IN IF below = {} THEN n = NIL
       ELSE /\ n \in below
            /\ \A k \in below : \/ row[k].lo < row[n].lo
                                \/ row[k].lo = row[n].lo /\ n <= k

\* No row that starts between the start of n and a ends before a: nothing
\* leads the search for a away from n.
Unobstructed(n, a) ==
    /\ Covers(n, a)
    /\ \A m \in live : row[n].lo <= row[m].lo /\ row[m].lo <= a => a < row[m].hi

\* A range of a: one that contains it, unless none does or each of them is
\* obstructed by one nested in it.
RangeLookup(a, n) ==
    IF n = NIL THEN \A m \in live : ~Unobstructed(m, a)
               ELSE n \in live /\ Covers(n, a)

\* Whatever the order of the rows and the shape of the tree, the lookups of
\* kernel_symbol.c, symbol_table.c and process.c find what a search of all
\* rows finds; only a symbol with another one nested in it may be missed.
LookupsCorrect ==
    pc = "idle" /\ phase = "use" => \A a \in Addr :
        /\ user = "kernel" => KernelLookup(a, find_kernel_symbol(a))
        /\ user = "elf" => RangeLookup(a, rb_search_symbol(a))
        /\ user = "vma" => RangeLookup(a, find_vma_from_process(a))
=============================================================================
