---------------------------- MODULE MC_Pipeline ----------------------------
(* Pipeline for TLC.  Queues of two, batches of two, so that each stage can *)
(* be full while the one before it has more; two connections, so that the   *)
(* writer changes files under a request.                                    *)
EXTENDS Pipeline

=============================================================================
