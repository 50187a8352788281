-------------------------- MODULE ConcurrentQueue --------------------------
(***************************************************************************)
(* src/utils/concurrent_queue.c: a bounded producer-consumer queue over a  *)
(* ring buffer, one mutex and two condition variables.                     *)
(*                                                                         *)
(* Every access to the queue's fields happens with the mutex held, and the *)
(* mutex is released only by unlock and by pthread_cond_wait.  So the code *)
(* between two of those is one atomic action here.  A thread is            *)
(*   - outside the queue            op[t] = "none";                        *)
(*   - contending for the mutex     op[t] # "none", in no wait set: it has *)
(*     just called, or was woken and will test its while condition again;  *)
(*   - asleep in pthread_cond_wait  in waitFull or in waitEmpty.           *)
(* pthread_cond_signal wakes one sleeper, any of them; a sleeper may also  *)
(* wake for no reason (POSIX allows it, hence the while loops).            *)
(***************************************************************************)
EXTENDS Naturals, Sequences, FiniteSets, Functions

CONSTANTS Producer,      \* threads that call queue_push and queue_push_batch
          Consumer,      \* threads that call queue_pop and queue_pop_batch
          Capacity,      \* queue->capacity (1024 for both queues)
          PushBatchMax,  \* longest batch handed to queue_push_batch
          PopBatchMax,   \* largest max_items given to queue_pop_batch
          MaxItems       \* bound on the items ever handed to the queue

ASSUME QueueAssumption ==
    /\ Capacity \in Nat \ {0}
    /\ PushBatchMax \in Nat \ {0}
    /\ PopBatchMax \in Nat \ {0}
    /\ MaxItems \in Nat
    /\ IsFiniteSet(Producer)
    /\ IsFiniteSet(Consumer)
    /\ Producer \cap Consumer = {}

VARIABLES
    buffer, head, tail, size, shutdown,  \* the fields of concurrent_queue_t
    waitFull, waitEmpty,                 \* sleepers on cond_full, cond_empty
    op,      \* op[t]: the call thread t is in, or "none"
    items,   \* items[p]: the items of producer p's call
    max,     \* max[c]: max_items of consumer c's call (1 for queue_pop)
    got,     \* got[c]: what consumer c's last call returned
    dropped, \* items whose push returned because of shutdown
    sent     \* how many items were handed to the queue so far: item k is
             \* the k-th pointer some producer passed in

ring  == <<buffer, head, tail, size>>
calls == <<op, items, max>>
vars  == <<buffer, head, tail, size, shutdown, waitFull, waitEmpty,
           op, items, max, got, dropped, sent>>

Thread == Producer \union Consumer
Item   == 1..MaxItems
Slot   == 0..(Capacity - 1)
NoItem == 0                       \* what malloc left in an unused slot

----------------------------------------------------------------------------
(* Helpers.                                                                *)

Wrap(i) == i % Capacity

\* How far slot j lies behind slot i, walking round the ring.
Offset(i, j) == Wrap(j + Capacity - i)

\* buffer after the items of s were stored at tail, tail + 1, ...
Stored(s) == [j \in Slot |-> IF Offset(tail, j) < Len(s)
                             THEN s[Offset(tail, j) + 1]
                             ELSE buffer[j]]

\* The n oldest items, in the order they were stored.
Oldest(n) == [i \in 1..n |-> buffer[Wrap(head + i - 1)]]

\* pthread_cond_signal on a condition variable with sleepers W.
Signal(W) == IF W = {} THEN {W} ELSE { W \ {t} : t \in W }

\* pthread_cond_broadcast leaves nobody asleep.
Broadcast == {}

\* Thread t holds the mutex and is about to test its while condition.
Runs(t) == op[t] # "none" /\ t \notin waitFull /\ t \notin waitEmpty

\* Mutant: the capacity test off by one.
Full_off_by_one(p) == IF op[p] = "push"
                      THEN size > Capacity
                      ELSE size + Len(items[p]) > Capacity

\* queue->size == queue->capacity, or (queue->capacity - queue->size) < count
Full(p) == IF op[p] = "push"
           THEN size = Capacity
           ELSE size + Len(items[p]) > Capacity

Return(t) == op' = [op EXCEPT ![t] = "none"] /\ UNCHANGED <<items, max>>

Init == /\ buffer = [j \in Slot |-> NoItem]
        /\ head = 0 /\ tail = 0 /\ size = 0
        /\ shutdown = FALSE
        /\ waitFull = {} /\ waitEmpty = {}
        /\ op = [t \in Thread |-> "none"]
        /\ items = [p \in Producer |-> <<>>]
        /\ max = [c \in Consumer |-> 0]
        /\ got = [c \in Consumer |-> <<>>]
        /\ dropped = {}
        /\ sent = 0

----------------------------------------------------------------------------
(* Threads enter the queue.                                                *)

\* The next n pointers, in the order the callers obtained them.
NextItems(n) == [i \in 1..n |-> sent + i]

CallPush(p, f, n) ==
    /\ op[p] = "none"
    /\ sent + n <= MaxItems
    /\ op' = [op EXCEPT ![p] = f]
    /\ items' = [items EXCEPT ![p] = NextItems(n)]
    /\ sent' = sent + n
    /\ UNCHANGED <<ring, shutdown, waitFull, waitEmpty, max, got, dropped>>

CallPop(c, f, n) ==
    /\ op[c] = "none"
    /\ op' = [op EXCEPT ![c] = f]
    /\ max' = [max EXCEPT ![c] = n]
    /\ UNCHANGED <<ring, shutdown, waitFull, waitEmpty, items, got, dropped,
                   sent>>

----------------------------------------------------------------------------
(* queue_push and queue_push_batch.                                        *)

PushWait(p) ==
    /\ Runs(p)
    /\ Full(p) /\ ~shutdown
    /\ waitFull' = waitFull \union {p}
    /\ UNCHANGED <<ring, shutdown, waitEmpty, calls, got, dropped, sent>>

\* The queue was shut down: the call returns and the items go nowhere.
PushRefused(p) ==
    /\ Runs(p)
    /\ shutdown
    /\ Return(p)
    /\ dropped' = dropped \union Range(items[p])
    /\ UNCHANGED <<ring, shutdown, waitFull, waitEmpty, got, sent>>

queue_push(p) ==
    /\ Runs(p) /\ op[p] = "push"
    /\ ~Full(p) /\ ~shutdown
    /\ buffer' = [buffer EXCEPT ![tail] = items[p][1]]
    /\ tail' = Wrap(tail + 1)
    /\ size' = size + 1
    /\ waitEmpty' \in Signal(waitEmpty)
    /\ Return(p)
    /\ UNCHANGED <<head, shutdown, waitFull, got, dropped, sent>>

\* Mutant: signal where the code broadcasts.
push_batch_signals_one(p) ==
    /\ Runs(p) /\ op[p] = "push_batch"
    /\ ~Full(p) /\ ~shutdown
    /\ buffer' = Stored(items[p])
    /\ tail' = Wrap(tail + Len(items[p]))
    /\ size' = size + Len(items[p])
    /\ waitEmpty' \in Signal(waitEmpty)
    /\ Return(p)
    /\ UNCHANGED <<head, shutdown, waitFull, got, dropped, sent>>

queue_push_batch(p) ==
    /\ Runs(p) /\ op[p] = "push_batch"
    /\ ~Full(p) /\ ~shutdown
    /\ buffer' = Stored(items[p])
    /\ tail' = Wrap(tail + Len(items[p]))
    /\ size' = size + Len(items[p])
    /\ waitEmpty' = Broadcast
    /\ Return(p)
    /\ UNCHANGED <<head, shutdown, waitFull, got, dropped, sent>>

----------------------------------------------------------------------------
(* queue_pop and queue_pop_batch.                                          *)

PopWait(c) ==
    /\ Runs(c)
    /\ size = 0 /\ ~shutdown
    /\ waitEmpty' = waitEmpty \union {c}
    /\ UNCHANGED <<ring, shutdown, waitFull, calls, got, dropped, sent>>

\* Mutant: the end of the stream reported although items are left.
pop_gives_up_at_shutdown(c) ==
    /\ Runs(c)
    /\ shutdown
    /\ Return(c)
    /\ got' = [got EXCEPT ![c] = <<>>]
    /\ UNCHANGED <<ring, shutdown, waitFull, waitEmpty, dropped, sent>>

\* Shut down and empty: queue_pop returns NULL, queue_pop_batch returns 0.
PopNothing(c) ==
    /\ Runs(c)
    /\ size = 0 /\ shutdown
    /\ Return(c)
    /\ got' = [got EXCEPT ![c] = <<>>]
    /\ UNCHANGED <<ring, shutdown, waitFull, waitEmpty, dropped, sent>>

\* Mutant: producers are not told of the free slot.
pop_without_signal(c) ==
    /\ Runs(c) /\ op[c] = "pop"
    /\ size > 0
    /\ got' = [got EXCEPT ![c] = <<buffer[head]>>]
    /\ head' = Wrap(head + 1)
    /\ size' = size - 1
    /\ Return(c)
    /\ UNCHANGED <<buffer, tail, shutdown, waitFull, waitEmpty, dropped, sent>>

queue_pop(c) ==
    /\ Runs(c) /\ op[c] = "pop"
    /\ size > 0
    /\ got' = [got EXCEPT ![c] = <<buffer[head]>>]
    /\ head' = Wrap(head + 1)
    /\ size' = size - 1
    /\ waitFull' \in Signal(waitFull)
    /\ Return(c)
    /\ UNCHANGED <<buffer, tail, shutdown, waitEmpty, dropped, sent>>

\* Mutant: producers are told only when the ring was full.
pop_batch_signals_if_full(c) ==
    LET n == IF size < max[c] THEN size ELSE max[c]
    IN /\ Runs(c) /\ op[c] = "pop_batch"
       /\ size > 0
       /\ got' = [got EXCEPT ![c] = Oldest(n)]
       /\ head' = Wrap(head + n)
       /\ size' = size - n
       /\ IF size = Capacity THEN waitFull' \in Signal(waitFull)
                             ELSE UNCHANGED waitFull
       /\ Return(c)
       /\ UNCHANGED <<buffer, tail, shutdown, waitEmpty, dropped, sent>>

\* Mutant: head advances by max_items, not by the number of items popped.
pop_batch_skips(c) ==
    LET n == IF size < max[c] THEN size ELSE max[c]
    IN /\ Runs(c) /\ op[c] = "pop_batch"
       /\ size > 0
       /\ got' = [got EXCEPT ![c] = Oldest(n)]
       /\ head' = Wrap(head + max[c])
       /\ size' = size - n
       /\ waitFull' \in Signal(waitFull)
       /\ Return(c)
       /\ UNCHANGED <<buffer, tail, shutdown, waitEmpty, dropped, sent>>

queue_pop_batch(c) ==
    LET n == IF size < max[c] THEN size ELSE max[c]
    IN /\ Runs(c) /\ op[c] = "pop_batch"
       /\ size > 0
       /\ got' = [got EXCEPT ![c] = Oldest(n)]
       /\ head' = Wrap(head + n)
       /\ size' = size - n
       /\ waitFull' \in Signal(waitFull)
       /\ Return(c)
       /\ UNCHANGED <<buffer, tail, shutdown, waitEmpty, dropped, sent>>

----------------------------------------------------------------------------

\* Mutant: only the consumers are woken.
shutdown_forgets_producers ==
    /\ shutdown' = TRUE
    /\ waitEmpty' = Broadcast
    /\ UNCHANGED <<ring, waitFull, calls, got, dropped, sent>>

queue_signal_shutdown ==
    /\ shutdown' = TRUE
    /\ waitEmpty' = Broadcast
    /\ waitFull' = Broadcast
    /\ UNCHANGED <<ring, calls, got, dropped, sent>>

\* pthread_cond_wait may return without a signal.
SpuriousWakeup(t) ==
    /\ t \in waitFull \union waitEmpty
    /\ waitFull' = waitFull \ {t}
    /\ waitEmpty' = waitEmpty \ {t}
    /\ UNCHANGED <<ring, shutdown, calls, got, dropped, sent>>

ProducerStep(p) == \/ PushWait(p)
                   \/ PushRefused(p)
                   \/ queue_push(p)
                   \/ queue_push_batch(p)

ConsumerStep(c) == \/ PopWait(c)
                   \/ PopNothing(c)
                   \/ queue_pop(c)
                   \/ queue_pop_batch(c)

ProducerCall(p) == \/ CallPush(p, "push", 1)
                   \/ \E n \in 1..PushBatchMax : CallPush(p, "push_batch", n)

ConsumerCall(c) == \/ CallPop(c, "pop", 1)
                   \/ \E n \in 1..PopBatchMax : CallPop(c, "pop_batch", n)

Next == \/ \E p \in Producer : ProducerCall(p) \/ ProducerStep(p)
        \/ \E c \in Consumer : ConsumerCall(c) \/ ConsumerStep(c)
        \/ \E t \in Thread : SpuriousWakeup(t)
        \/ queue_signal_shutdown

\* A thread that contends for the mutex gets it in the end, and a consumer
\* calls again once its call returned: symbolizer_thread_func and
\* db_writer_thread_func pop in a loop.  Nobody has to push or to shut down.
Fairness == /\ \A p \in Producer : WF_vars(ProducerStep(p))
            /\ \A c \in Consumer : WF_vars(ConsumerStep(c))
            /\ \A c \in Consumer : WF_vars(ConsumerCall(c))

Spec == Init /\ [][Next]_vars

FairSpec == Spec /\ Fairness

----------------------------------------------------------------------------
(* Properties.                                                             *)

\* Every field stays in its range: indices inside the ring, size at most the
\* capacity, sleepers only of the right kind.
TypeOK ==
    /\ buffer \in [Slot -> Item \union {NoItem}]
    /\ head \in Slot /\ tail \in Slot /\ size \in 0..Capacity
    /\ shutdown \in BOOLEAN
    /\ waitFull \subseteq Producer /\ waitEmpty \subseteq Consumer
    /\ op \in [Thread -> {"none", "push", "push_batch", "pop", "pop_batch"}]
    /\ \A p \in Producer : op[p] \in {"none", "push", "push_batch"}
    /\ \A c \in Consumer : op[c] \in {"none", "pop", "pop_batch"}
    /\ items \in [Producer -> Seq(Item)]
    /\ max \in [Consumer -> Nat]
    /\ got \in [Consumer -> Seq(Item \union {NoItem})]
    /\ dropped \subseteq Item
    /\ sent \in 0..MaxItems

WokenConsumers == { c \in Consumer : op[c] # "none" } \ waitEmpty
WokenProducers == { p \in Producer : op[p] # "none" } \ waitFull

\* No wakeup of a consumer is lost, although queue_push signals one thread
\* only: while some consumer sleeps on cond_empty, every item in the queue
\* has a consumer that is already awake and on its way to the mutex.
NoLostPopWakeup ==
    waitEmpty = {} \/ size <= Cardinality(WokenConsumers)

\* No wakeup of a producer is lost, although queue_pop_batch frees several
\* slots and signals one thread only: while some producer sleeps on
\* cond_full, either there is still something to pop (and that pop will
\* signal) or another producer is awake.  It needs batches that fit.
NoLostPushWakeup ==
    waitFull = {} \/ size > 0 \/ WokenProducers # {}

\* queue_signal_shutdown leaves nobody asleep, and nobody falls asleep
\* afterwards, so every later call returns.
ShutdownWakesAll == shutdown => waitFull = {} /\ waitEmpty = {}

\* The ring buffer with its mutex and condition variables is a bounded FIFO.
Fifo == INSTANCE BoundedFifo WITH fifo <- Oldest(size), closed <- shutdown

ImplementsFifo == Fifo!FSpec

\* Every call of a producer returns: room for it appears, or the queue is
\* shut down.
PushReturns == \A p \in Producer : op[p] # "none" ~> op[p] = "none"

\* What was stored is handed to a consumer, also when the queue is shut
\* down in between.  It is stated of the last item: no later push can make
\* up for a wakeup that was lost.
StoredIsTaken ==
    (MaxItems \in Range(Oldest(size))) ~> (\E c \in Consumer :
                                              MaxItems \in Range(got[c]))
=============================================================================
