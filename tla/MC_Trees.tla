------------------------------ MODULE MC_Trees ------------------------------
(* Trees for TLC.  Ten nodes reach every case of insertion and erasure at   *)
(* both sides, with loops of several turns; five rows of four addresses     *)
(* give equal, nested and disjoint symbols; five blocks of a file with an   *)
(* odd end compete for three places.                                        *)
EXTENDS Trees

=============================================================================
