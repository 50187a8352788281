------------------------ MODULE MC_ConcurrentQueue ------------------------
(* ConcurrentQueue for TLC: two producers and two consumers over a ring of *)
(* two slots, so that every call can find the queue full, empty or shut    *)
(* down, batches wrap round the ring, and waiters of both kinds pile up.   *)
EXTENDS ConcurrentQueue

=============================================================================
