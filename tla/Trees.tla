------------------------------- MODULE Trees -------------------------------
(***************************************************************************)
(* The red-black tree with each of its users.  A tree belongs to one user, *)
(* chosen at the start; the rebalancing loops run inside the user's calls. *)
(***************************************************************************)
EXTENDS SymbolTrees, BlockCache

vars == <<treeVars, symbolVars, cacheVars>>

Init == TInit /\ SInit /\ BInit

Next ==
    \/ SymbolStep /\ UNCHANGED cacheVars
    \/ user = "cache" /\ CacheStep /\ UNCHANGED symbolVars
    \/ Rebalance /\ UNCHANGED <<symbolVars, cacheVars>>

Spec == Init /\ [][Next]_vars

----------------------------------------------------------------------------
\* Whoever owns the tree, its nodes are the ones the owner has allocated, in
\* the order of their keys, once each, also while a loop rotates them; the
\* cache keeps its list and its count in step with the tree.
OwnerConsistent == IF user = "cache" THEN CacheConsistent ELSE NodesInOrder
=============================================================================
