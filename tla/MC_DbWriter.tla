---------------------------- MODULE MC_DbWriter ----------------------------
(* DbWriter for TLC.  Batches of two into a queue of four, so that the last *)
(* flush can find the queue too full, a pop of three takes a part of a      *)
(* batch, and a popped batch can span two hours; two batches fit, so that   *)
(* main and the symbolizer can flush at the same time.  One call of SQLite  *)
(* may fail.                                                                *)
EXTENDS DbWriter
=============================================================================
