----------------------------- MODULE MC_Capture -----------------------------
(* Capture for TLC.  Rings of 16 words hold one to four records, so that    *)
(* records wrap at every offset; with three frames a record is longer than  *)
(* temp_buf and than the stack of a sample.                                 *)
EXTENDS Capture

=============================================================================
