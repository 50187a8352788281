----------------------------- MODULE MC_MemPool -----------------------------
(* MemPool for TLC: two threads, a pool of three chunks, two more blocks,  *)
(* so that the pool runs empty, overflows, and holds malloc'ed chunks.     *)
EXTENDS MemPool

=============================================================================
