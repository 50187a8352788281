---------------------------- MODULE BoundedFifo ----------------------------
(***************************************************************************)
(* What include/concurrent_queue.h promises of a queue, with no ring       *)
(* buffer, mutex or condition variable: a first-in first-out sequence of   *)
(* at most Capacity items that can be closed.  A put is atomic and happens *)
(* only while there is room for all of it; an item is refused only by a    *)
(* closed queue; a closed queue still hands out what it holds and answers  *)
(* "nothing" only once it is empty.                                        *)
(*                                                                         *)
(* ConcurrentQueue implements this specification.  DbWriter uses its       *)
(* actions for the database queue.                                         *)
(***************************************************************************)
EXTENDS Naturals, Sequences

CONSTANTS Item,       \* the pointers that travel through the queue
          Consumer,   \* the threads that take items out
          Capacity    \* queue->capacity

VARIABLES fifo,       \* the items in the queue, oldest first
          closed,     \* queue_signal_shutdown was called
          got,        \* got[c]: what the last pop of consumer c returned
          dropped     \* the items a closed queue refused

fvars == <<fifo, closed, got, dropped>>

FInit == /\ fifo = <<>>
         /\ closed = FALSE
         /\ got = [c \in Consumer |-> <<>>]
         /\ dropped = {}

\* The batches a single call can hand over.
Batch == UNION { [1..n -> Item] : n \in 1..Capacity }

Put(s) == /\ ~closed
          /\ Len(fifo) + Len(s) <= Capacity
          /\ fifo' = fifo \o s
          /\ UNCHANGED <<closed, got, dropped>>

Refuse(D) == /\ closed
             /\ dropped' = dropped \union D
             /\ UNCHANGED <<fifo, closed, got>>

Take(c, n) == /\ n \in 1..Len(fifo)
              /\ got' = [got EXCEPT ![c] = SubSeq(fifo, 1, n)]
              /\ fifo' = SubSeq(fifo, n + 1, Len(fifo))
              /\ UNCHANGED <<closed, dropped>>

TakeNothing(c) == /\ closed
                  /\ fifo = <<>>
                  /\ got' = [got EXCEPT ![c] = <<>>]
                  /\ UNCHANGED <<fifo, closed, dropped>>

Close == /\ closed' = TRUE
         /\ UNCHANGED <<fifo, got, dropped>>

FNext == \/ \E s \in Batch : Put(s)
         \/ \E D \in SUBSET Item : Refuse(D)
         \/ \E c \in Consumer : \E n \in 1..Capacity : Take(c, n)
         \/ \E c \in Consumer : TakeNothing(c)
         \/ Close

FSpec == FInit /\ [][FNext]_fvars
=============================================================================
