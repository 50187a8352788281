----------------------- MODULE ConcurrentQueueProofs -----------------------
(***************************************************************************)
(* What ConcurrentQueue guarantees for every capacity, every batch size    *)
(* and every number of producers and consumers.                            *)
(***************************************************************************)
EXTENDS ConcurrentQueue, FiniteSetTheorems, SequenceTheorems, TLAPS

----------------------------------------------------------------------------
(* The ring's index arithmetic.                                            *)

\* An index inside the ring is left alone.
LEMMA WrapSmall ==
    ASSUME NEW i \in Slot
    PROVE  Wrap(i) = i
  BY QueueAssumption DEF Wrap, Slot

\* An index that ran over the end continues at the beginning.
LEMMA WrapLarge ==
    ASSUME NEW i \in Capacity..(2 * Capacity - 1)
    PROVE  Wrap(i) = i - Capacity
  BY QueueAssumption DEF Wrap

\* (x + 1) % capacity is always an index of buffer.
LEMMA WrapInSlot ==
    ASSUME NEW i \in Nat
    PROVE  Wrap(i) \in Slot
  BY QueueAssumption DEF Wrap, Slot

----------------------------------------------------------------------------
(* Type correctness.  It needs to know what the pending calls ask for.     *)

CallOK ==
    /\ \A p \in Producer :
          /\ op[p] = "push" => Len(items[p]) = 1
          /\ op[p] = "push_batch" => Len(items[p]) \in 1..PushBatchMax
    /\ \A c \in Consumer : op[c] = "pop_batch" => max[c] >= 1

\* Only threads that are inside a call sleep.
SleepOK ==
    /\ \A p \in waitFull : op[p] # "none"
    /\ \A c \in waitEmpty : op[c] # "none"

Typed == TypeOK /\ CallOK /\ SleepOK

LEMMA InitTyped == Init => Typed
<1> SUFFICES ASSUME Init
             PROVE  Typed
  OBVIOUS
<1> USE QueueAssumption DEF Init
<1>1. TypeOK
  <2>1. /\ buffer \in [Slot -> Item \union {NoItem}]
        /\ head \in Slot /\ tail \in Slot /\ size \in 0..Capacity
        /\ sent \in 0..MaxItems
    BY DEF Slot
  <2>2. /\ items \in [Producer -> Seq(Item)]
        /\ max \in [Consumer -> Nat]
        /\ got \in [Consumer -> Seq(Item \union {NoItem})]
    OBVIOUS
  <2>3. /\ op \in [Thread -> {"none", "push", "push_batch", "pop", "pop_batch"}]
        /\ \A t \in Thread : op[t] = "none"
    OBVIOUS
  <2> QED
    BY <2>1, <2>2, <2>3 DEF TypeOK, Thread
<1>2. CallOK
  BY DEF CallOK, Thread
<1>3. SleepOK
  BY DEF SleepOK
<1> QED
  BY <1>1, <1>2, <1>3 DEF Typed

LEMMA NextTyped == Typed /\ [Next]_vars => Typed'
<1> SUFFICES ASSUME Typed, [Next]_vars
             PROVE  Typed'
  OBVIOUS
<1> USE QueueAssumption DEF Typed, TypeOK, CallOK, SleepOK
<1>1. ASSUME NEW p \in Producer, ProducerCall(p)
      PROVE  Typed'
  <2>1. PICK f \in {"push", "push_batch"}, n \in 1..PushBatchMax :
            CallPush(p, f, n) /\ (f = "push" => n = 1)
    BY <1>1 DEF ProducerCall
  <2>2. NextItems(n) \in Seq(Item) /\ Len(NextItems(n)) = n
    BY <2>1 DEF CallPush, NextItems, Item
  <2> QED
    BY <2>1, <2>2 DEF CallPush, ring, Thread
<1>2. ASSUME NEW p \in Producer, PushWait(p)
      PROVE  Typed'
  BY <1>2 DEF PushWait, Runs, ring, calls
<1>3. ASSUME NEW p \in Producer, PushRefused(p)
      PROVE  Typed'
  <2>1. Range(items[p]) \subseteq Item
    BY DEF Range
  <2> QED
    BY <1>3, <2>1 DEF PushRefused, Runs, Return, ring, Thread
<1>4. ASSUME NEW p \in Producer, queue_push(p)
      PROVE  Typed'
  <2>1. waitEmpty' \subseteq waitEmpty
    BY <1>4 DEF queue_push, Signal
  <2>2. tail' \in Slot
    BY <1>4, WrapInSlot DEF queue_push, Slot
  <2>3. items[p][1] \in Item
    BY <1>4 DEF queue_push
  <2> QED
    BY <1>4, <2>1, <2>2, <2>3 DEF queue_push, Runs, Return, Full, Thread
<1>5. ASSUME NEW p \in Producer, queue_push_batch(p)
      PROVE  Typed'
  <2>1. tail' \in Slot
    BY <1>5, WrapInSlot DEF queue_push_batch, Slot
  <2>2. ASSUME NEW j \in Slot
        PROVE  Offset(tail, j) \in Nat
    BY WrapInSlot DEF Offset, Slot
  <2>3. buffer' \in [Slot -> Item \union {NoItem}]
    BY <1>5, <2>2 DEF queue_push_batch, Stored
  <2> QED
    BY <1>5, <2>1, <2>3 DEF queue_push_batch, Runs, Return, Full, Thread, Broadcast
<1>6. ASSUME NEW c \in Consumer, ConsumerCall(c)
      PROVE  Typed'
  <2>1. PICK f \in {"pop", "pop_batch"}, n \in 1..PopBatchMax : CallPop(c, f, n)
    BY <1>6 DEF ConsumerCall
  <2> QED
    BY <2>1 DEF CallPop, ring, Thread
<1>7. ASSUME NEW c \in Consumer, PopWait(c)
      PROVE  Typed'
  BY <1>7 DEF PopWait, Runs, ring, calls
<1>8. ASSUME NEW c \in Consumer, PopNothing(c)
      PROVE  Typed'
  BY <1>8 DEF PopNothing, Runs, Return, ring, Thread
<1>9. ASSUME NEW c \in Consumer, queue_pop(c)
      PROVE  Typed'
  <2>1. waitFull' \subseteq waitFull
    BY <1>9 DEF queue_pop, Signal
  <2>2. head' \in Slot
    BY <1>9, WrapInSlot DEF queue_pop, Slot
  <2> QED
    BY <1>9, <2>1, <2>2 DEF queue_pop, Runs, Return, Thread
<1>10. ASSUME NEW c \in Consumer, queue_pop_batch(c)
       PROVE  Typed'
  <2> DEFINE n == IF size < max[c] THEN size ELSE max[c]
  <2>1. n \in 1..size
    BY <1>10 DEF queue_pop_batch
  <2>2. waitFull' \subseteq waitFull
    BY <1>10 DEF queue_pop_batch, Signal
  <2>3. head' \in Slot
    <3>1. head + n \in Nat
      BY <2>1 DEF Slot
    <3> QED
      BY <1>10, <3>1, WrapInSlot DEF queue_pop_batch
  <2>4. ASSUME NEW i \in 1..n
        PROVE  buffer[Wrap(head + i - 1)] \in Item \union {NoItem}
    <3>1. head + i - 1 \in Nat
      BY <2>1 DEF Slot
    <3> QED
      BY <3>1, WrapInSlot
  <2>5. Oldest(n) \in Seq(Item \union {NoItem})
    BY <2>1, <2>4 DEF Oldest
  <2>6. got' \in [Consumer -> Seq(Item \union {NoItem})]
    BY <1>10, <2>5 DEF queue_pop_batch
  <2> QED
    BY <1>10, <2>1, <2>2, <2>3, <2>6 DEF queue_pop_batch, Runs, Return, Thread
<1>11. ASSUME NEW t \in Thread, SpuriousWakeup(t)
       PROVE  Typed'
  BY <1>11 DEF SpuriousWakeup, ring, calls
<1>12. CASE queue_signal_shutdown
  BY <1>12 DEF queue_signal_shutdown, Broadcast, ring, calls
<1>13. CASE UNCHANGED vars
  BY <1>13 DEF vars
<1> QED
  BY <1>1, <1>2, <1>3, <1>4, <1>5, <1>6, <1>7, <1>8, <1>9, <1>10, <1>11,
     <1>12, <1>13
  DEF Next, ProducerStep, ConsumerStep

\* Every field of concurrent_queue_t stays in its range, in every reachable
\* state, whatever the capacity and the number of threads.
THEOREM TypeCorrect == Spec => []TypeOK
<1>1. Typed => TypeOK
  BY DEF Typed
<1> QED
  BY <1>1, InitTyped, NextTyped, PTL DEF Spec

----------------------------------------------------------------------------
(* Sleeping and waking.                                                    *)

LEMMA NextShutdownWakesAll ==
    Typed /\ ShutdownWakesAll /\ [Next]_vars => ShutdownWakesAll'
<1> SUFFICES ASSUME Typed, ShutdownWakesAll, [Next]_vars
             PROVE  ShutdownWakesAll'
  OBVIOUS
<1> USE DEF ShutdownWakesAll
<1>1. ASSUME NEW p \in Producer, ProducerCall(p) \/ ProducerStep(p)
      PROVE  ShutdownWakesAll'
  BY <1>1 DEF ProducerCall, CallPush, ProducerStep, PushWait, PushRefused,
              queue_push, queue_push_batch, Signal, Broadcast
<1>2. ASSUME NEW c \in Consumer, ConsumerCall(c) \/ ConsumerStep(c)
      PROVE  ShutdownWakesAll'
  BY <1>2 DEF ConsumerCall, CallPop, ConsumerStep, PopWait, PopNothing,
              queue_pop, queue_pop_batch, Signal
<1>3. ASSUME NEW t \in Thread, SpuriousWakeup(t)
      PROVE  ShutdownWakesAll'
  BY <1>3 DEF SpuriousWakeup
<1>4. CASE queue_signal_shutdown
  BY <1>4 DEF queue_signal_shutdown, Broadcast
<1>5. CASE UNCHANGED vars
  BY <1>5 DEF vars
<1> QED
  BY <1>1, <1>2, <1>3, <1>4, <1>5 DEF Next

\* queue_signal_shutdown releases every sleeper, for good.
THEOREM ShutdownReleases == Spec => []ShutdownWakesAll
<1>1. Init => ShutdownWakesAll
  BY DEF Init, ShutdownWakesAll
<1> QED
  BY <1>1, InitTyped, NextTyped, NextShutdownWakesAll, PTL DEF Spec

\* The consumers that are awake are finitely many.
LEMMA WokenFinite ==
    /\ IsFiniteSet(WokenConsumers)
    /\ Cardinality(WokenConsumers) \in Nat
<1>1. WokenConsumers \in SUBSET Consumer
  BY DEF WokenConsumers
<1>2. IsFiniteSet(WokenConsumers)
  BY <1>1, FS_Subset, QueueAssumption
<1> QED
  BY <1>2, FS_CardinalityType

LEMMA NextNoLostPopWakeup ==
    Typed /\ NoLostPopWakeup /\ [Next]_vars => NoLostPopWakeup'
<1> SUFFICES ASSUME Typed, NoLostPopWakeup, [Next]_vars
             PROVE  NoLostPopWakeup'
  OBVIOUS
<1> DEFINE W == WokenConsumers
<1> USE QueueAssumption DEF Typed, TypeOK, SleepOK, NoLostPopWakeup
<1>0. IsFiniteSet(W) /\ Cardinality(W) \in Nat
  BY WokenFinite
<1>00. IsFiniteSet(W') /\ Cardinality(W') \in Nat
  <2>1. W' \in SUBSET Consumer
    BY DEF WokenConsumers
  <2>2. IsFiniteSet(W')
    BY <2>1, FS_Subset
  <2> QED
    BY <2>2, FS_CardinalityType
<1>1. ASSUME waitEmpty' \subseteq waitEmpty, size' = size, W \subseteq W'
      PROVE  NoLostPopWakeup'
  <2>1. Cardinality(W) <= Cardinality(W')
    BY <1>00, <1>1, FS_Subset
  <2> QED
    BY <1>0, <1>00, <1>1, <2>1
<1>2. ASSUME NEW p \in Producer, ProducerCall(p)
      PROVE  NoLostPopWakeup'
  <2>1. waitEmpty' = waitEmpty /\ size' = size /\ W' = W
    BY <1>2 DEF ProducerCall, CallPush, ring, WokenConsumers, Thread
  <2> QED
    BY <1>1, <2>1
<1>3. ASSUME NEW p \in Producer, PushWait(p) \/ PushRefused(p)
      PROVE  NoLostPopWakeup'
  <2>1. waitEmpty' = waitEmpty /\ size' = size /\ W' = W
    BY <1>3 DEF PushWait, PushRefused, Return, ring, calls, WokenConsumers, Thread
  <2> QED
    BY <1>1, <2>1
<1>4. ASSUME NEW p \in Producer, queue_push(p), waitEmpty # {}
      PROVE  NoLostPopWakeup'
  <2>1. PICK t \in waitEmpty : waitEmpty' = waitEmpty \ {t}
    BY <1>4 DEF queue_push, Signal
  <2>2. t \notin W /\ W' = W \union {t}
    BY <1>4, <2>1 DEF queue_push, Return, WokenConsumers, Thread
  <2>3. Cardinality(W') = Cardinality(W) + 1
    BY <1>0, <2>2, FS_AddElement
  <2> QED
    BY <1>0, <1>4, <2>3 DEF queue_push
<1>5. ASSUME NEW p \in Producer, queue_push(p), waitEmpty = {}
      PROVE  NoLostPopWakeup'
  BY <1>5 DEF queue_push, Signal
<1>6. ASSUME NEW p \in Producer, queue_push_batch(p)
      PROVE  NoLostPopWakeup'
  BY <1>6 DEF queue_push_batch, Broadcast
<1>7. ASSUME NEW c \in Consumer, ConsumerCall(c)
      PROVE  NoLostPopWakeup'
  <2>1. waitEmpty' = waitEmpty /\ size' = size
    BY <1>7 DEF ConsumerCall, CallPop, ring
  <2>2. W \subseteq W'
    BY <1>7 DEF ConsumerCall, CallPop, WokenConsumers, Thread
  <2> QED
    BY <1>1, <2>1, <2>2
<1>8. ASSUME NEW c \in Consumer, PopWait(c) \/ PopNothing(c)
      PROVE  NoLostPopWakeup'
  <2>1. size' = 0
    BY <1>8 DEF PopWait, PopNothing, ring
  <2> QED
    BY <1>00, <2>1
<1>9. ASSUME NEW c \in Consumer, queue_pop(c) \/ queue_pop_batch(c)
      PROVE  NoLostPopWakeup'
  <2>1. c \in W /\ W' = W \ {c} /\ waitEmpty' = waitEmpty
    BY <1>9 DEF queue_pop, queue_pop_batch, Runs, Return, WokenConsumers, Thread
  <2>2. Cardinality(W') = Cardinality(W) - 1
    BY <1>0, <2>1, FS_RemoveElement
  <2>3. size' <= size - 1 /\ size' \in Nat
    BY <1>9 DEF queue_pop, queue_pop_batch, CallOK
  <2> QED
    BY <1>0, <1>00, <2>1, <2>2, <2>3
<1>10. ASSUME NEW t \in Thread, SpuriousWakeup(t)
       PROVE  NoLostPopWakeup'
  <2>1. waitEmpty' \subseteq waitEmpty /\ size' = size
    BY <1>10 DEF SpuriousWakeup, ring
  <2>2. W \subseteq W'
    BY <1>10, <2>1 DEF SpuriousWakeup, calls, WokenConsumers
  <2> QED
    BY <1>1, <2>1, <2>2
<1>11. CASE queue_signal_shutdown
  BY <1>11 DEF queue_signal_shutdown, Broadcast
<1>12. CASE UNCHANGED vars
  BY <1>1, <1>12 DEF vars, WokenConsumers
<1> QED
  BY <1>2, <1>3, <1>4, <1>5, <1>6, <1>7, <1>8, <1>9, <1>10, <1>11, <1>12
  DEF Next, ProducerStep, ConsumerStep

\* A single pthread_cond_signal per queue_push is enough for any number of
\* consumers, and for queue_pop and queue_pop_batch mixed.
THEOREM NoConsumerForgotten == Spec => []NoLostPopWakeup
<1>1. Init => NoLostPopWakeup
  BY DEF Init, NoLostPopWakeup
<1> QED
  BY <1>1, InitTyped, NextTyped, NextNoLostPopWakeup, PTL DEF Spec

LEMMA NextNoLostPushWakeup ==
    ASSUME PushBatchMax <= Capacity
    PROVE  Typed /\ ShutdownWakesAll /\ NoLostPushWakeup /\ [Next]_vars
               => NoLostPushWakeup'
<1> SUFFICES ASSUME Typed, ShutdownWakesAll, NoLostPushWakeup, [Next]_vars
             PROVE  NoLostPushWakeup'
  OBVIOUS
<1> DEFINE W == WokenProducers
<1> USE QueueAssumption
    DEF Typed, TypeOK, SleepOK, NoLostPushWakeup
<1>1. ASSUME NEW p \in Producer, ProducerCall(p)
      PROVE  NoLostPushWakeup'
  BY <1>1 DEF ProducerCall, CallPush, ring, WokenProducers, Thread
<1>2. ASSUME NEW p \in Producer, PushWait(p)
      PROVE  NoLostPushWakeup'
  <2>1. size > 0
    BY <1>2 DEF PushWait, Runs, Full, CallOK
  <2> QED
    BY <1>2, <2>1 DEF PushWait, ring
<1>3. ASSUME NEW p \in Producer, PushRefused(p)
      PROVE  NoLostPushWakeup'
  BY <1>3 DEF PushRefused, ShutdownWakesAll
<1>4. ASSUME NEW p \in Producer, queue_push(p) \/ queue_push_batch(p)
      PROVE  NoLostPushWakeup'
  BY <1>4 DEF queue_push, queue_push_batch, CallOK
<1>5. ASSUME NEW c \in Consumer, ConsumerCall(c) \/ PopWait(c) \/ PopNothing(c)
      PROVE  NoLostPushWakeup'
  <2>1. waitFull' = waitFull /\ size' = size /\ W' = W
    BY <1>5 DEF ConsumerCall, CallPop, PopWait, PopNothing, Return, ring,
                calls, WokenProducers, Thread
  <2> QED
    BY <2>1
<1>6. ASSUME NEW c \in Consumer, queue_pop(c) \/ queue_pop_batch(c)
      PROVE  NoLostPushWakeup'
  <2>1. CASE waitFull = {}
    BY <1>6, <2>1 DEF queue_pop, queue_pop_batch, Signal
  <2>2. CASE waitFull # {}
    <3>1. PICK t \in waitFull : waitFull' = waitFull \ {t}
      BY <1>6, <2>2 DEF queue_pop, queue_pop_batch, Signal
    <3>2. t \in W'
      BY <1>6, <3>1 DEF queue_pop, queue_pop_batch, Return, WokenProducers, Thread
    <3> QED
      BY <3>2
  <2> QED
    BY <2>1, <2>2
<1>7. ASSUME NEW t \in Thread, SpuriousWakeup(t)
      PROVE  NoLostPushWakeup'
  <2>1. waitFull' \subseteq waitFull /\ size' = size
    BY <1>7 DEF SpuriousWakeup, ring
  <2>2. W \subseteq W'
    BY <1>7, <2>1 DEF SpuriousWakeup, calls, WokenProducers
  <2> QED
    BY <2>1, <2>2
<1>8. CASE queue_signal_shutdown
  BY <1>8 DEF queue_signal_shutdown, Broadcast
<1>9. CASE UNCHANGED vars
  BY <1>9 DEF vars, WokenProducers
<1> QED
  BY <1>1, <1>2, <1>3, <1>4, <1>5, <1>6, <1>7, <1>8, <1>9
  DEF Next, ProducerStep, ConsumerStep

\* A single pthread_cond_signal per pop is enough for any number of
\* producers, even though queue_pop_batch frees several slots at once,
\* provided no batch is longer than the ring.
THEOREM NoProducerForgotten ==
    ASSUME PushBatchMax <= Capacity
    PROVE  Spec => []NoLostPushWakeup
<1>1. Init => ShutdownWakesAll /\ NoLostPushWakeup
  BY DEF Init, ShutdownWakesAll, NoLostPushWakeup
<1>2. Typed /\ ShutdownWakesAll /\ NoLostPushWakeup /\ [Next]_vars
          => NoLostPushWakeup'
  BY NextNoLostPushWakeup
<1> QED
  BY <1>1, <1>2, InitTyped, NextTyped, NextShutdownWakesAll, PTL DEF Spec

----------------------------------------------------------------------------
(* The ring buffer implements a FIFO sequence.                             *)

\* Everything index arithmetic needs: head + n with n <= capacity runs over
\* the end of the ring at most once.
LEMMA WrapCases ==
    ASSUME NEW i \in 0..(2 * Capacity - 1)
    PROVE  Wrap(i) = IF i < Capacity THEN i ELSE i - Capacity
  BY WrapSmall, WrapLarge, QueueAssumption DEF Slot

\* Moving head forward by n renumbers the slots behind it.
LEMMA WrapShift ==
    ASSUME NEW h \in Slot, NEW n \in Nat, NEW k \in Nat, n + k <= Capacity
    PROVE  Wrap(Wrap(h + n) + k) = Wrap(h + n + k)
<1>1. h + n \in 0..(2 * Capacity - 1) /\ h + n + k \in 0..(2 * Capacity - 1)
  BY QueueAssumption DEF Slot
<1>2. Wrap(h + n) = IF h + n < Capacity THEN h + n ELSE h + n - Capacity
  BY <1>1, WrapCases, QueueAssumption DEF Slot
<1>3. Wrap(h + n + k) =
        IF h + n + k < Capacity THEN h + n + k ELSE h + n + k - Capacity
  BY <1>1, WrapCases, QueueAssumption DEF Slot
<1>4. Wrap(h + n) + k \in 0..(2 * Capacity - 1)
  BY <1>1, <1>2, QueueAssumption DEF Slot
<1>5. Wrap(Wrap(h + n) + k) =
        IF Wrap(h + n) + k < Capacity THEN Wrap(h + n) + k
                                      ELSE Wrap(h + n) + k - Capacity
  BY <1>1, <1>2, <1>4, WrapCases, QueueAssumption DEF Slot
<1> QED
  BY <1>1, <1>2, <1>3, <1>5, QueueAssumption DEF Slot

\* Seen from the slot n behind h, the slot k behind h comes k - n later, or,
\* when it lies before that slot, almost a full round later.
LEMMA OffsetFromHead ==
    ASSUME NEW h \in Slot, NEW n \in 0..Capacity, NEW k \in 0..(Capacity - 1)
    PROVE  Offset(Wrap(h + n), Wrap(h + k)) =
             IF k >= n THEN k - n ELSE k + Capacity - n
<1> DEFINE t == Wrap(h + n)
           j == Wrap(h + k)
<1>1. t = IF h + n < Capacity THEN h + n ELSE h + n - Capacity
  BY WrapCases, QueueAssumption DEF Slot
<1>2. j = IF h + k < Capacity THEN h + k ELSE h + k - Capacity
  BY WrapCases, QueueAssumption DEF Slot
<1> HIDE DEF t, j
<1>3. t \in Slot /\ j \in Slot
  BY <1>1, <1>2, QueueAssumption DEF Slot
<1>4. j + Capacity - t \in 0..(2 * Capacity - 1)
  BY <1>3, QueueAssumption DEF Slot
<1>5. Offset(t, j) = IF j + Capacity - t < Capacity THEN j + Capacity - t
                                                  ELSE j - t
  BY <1>3, <1>4, WrapCases, QueueAssumption DEF Offset, Slot
<1>6. Offset(t, j) = IF k >= n THEN k - n ELSE k + Capacity - n
  BY <1>1, <1>2, <1>3, <1>5, QueueAssumption DEF Slot
<1> QED
  BY <1>6 DEF t, j

\* tail is always where the next item goes.
RingOK == tail = Wrap(head + size)

LEMMA NextRingOK == Typed /\ RingOK /\ [Next]_vars => RingOK'
<1> SUFFICES ASSUME Typed, RingOK, [Next]_vars
             PROVE  RingOK'
  OBVIOUS
<1> USE QueueAssumption DEF Typed, TypeOK, CallOK, RingOK
<1>1. ASSUME UNCHANGED <<head, tail, size>>
      PROVE  RingOK'
  BY <1>1
<1>2. ASSUME NEW n \in Nat, size + n <= Capacity,
             tail' = Wrap(tail + n), size' = size + n, head' = head
      PROVE  RingOK'
  <2>1. Wrap(Wrap(head + size) + n) = Wrap(head + size + n)
    BY <1>2, WrapShift
  <2> QED
    BY <1>2, <2>1 DEF Slot
<1>3. ASSUME NEW n \in 0..size,
             head' = Wrap(head + n), size' = size - n, tail' = tail
      PROVE  RingOK'
  <2>1. Wrap(Wrap(head + n) + (size - n)) = Wrap(head + n + (size - n))
    BY WrapShift
  <2> QED
    BY <1>3, <2>1 DEF Slot
<1>4. ASSUME NEW p \in Producer, queue_push(p)
      PROVE  RingOK'
  <2>1. 1 \in Nat /\ size + 1 <= Capacity
    BY <1>4 DEF queue_push, Full
  <2>2. tail' = Wrap(tail + 1) /\ size' = size + 1 /\ head' = head
    BY <1>4 DEF queue_push
  <2> QED
    BY <1>2, <2>1, <2>2
<1>5. ASSUME NEW p \in Producer, queue_push_batch(p)
      PROVE  RingOK'
  <2>1. Len(items[p]) \in Nat /\ size + Len(items[p]) <= Capacity
    BY <1>5 DEF queue_push_batch, Full
  <2>2. /\ tail' = Wrap(tail + Len(items[p]))
        /\ size' = size + Len(items[p]) /\ head' = head
    BY <1>5 DEF queue_push_batch
  <2> QED
    BY <1>2, <2>1, <2>2
<1>6. ASSUME NEW c \in Consumer, queue_pop(c)
      PROVE  RingOK'
  <2>1. 1 \in 0..size
    BY <1>6 DEF queue_pop
  <2>2. head' = Wrap(head + 1) /\ size' = size - 1 /\ tail' = tail
    BY <1>6 DEF queue_pop
  <2> QED
    BY <1>3, <2>1, <2>2
<1>7. ASSUME NEW c \in Consumer, queue_pop_batch(c)
      PROVE  RingOK'
  <2> DEFINE n == IF size < max[c] THEN size ELSE max[c]
  <2>1. n \in 0..size
    OBVIOUS
  <2>2. head' = Wrap(head + n) /\ size' = size - n /\ tail' = tail
    BY <1>7 DEF queue_pop_batch
  <2> HIDE DEF n
  <2> QED
    BY <1>3, <2>1, <2>2
<1> QED
  BY <1>1, <1>4, <1>5, <1>6, <1>7
  DEF Next, ProducerStep, ConsumerStep, ProducerCall, CallPush, PushWait,
      PushRefused, ConsumerCall, CallPop, PopWait, PopNothing,
      SpuriousWakeup, queue_signal_shutdown, ring, vars

\* A function on 1..n that agrees with a sequence of length n is it.
LEMMA SeqByElements ==
    ASSUME NEW S, NEW n \in Nat, NEW g, NEW s \in Seq(S),
           g \in [1..n -> S], Len(s) = n, \A i \in 1..n : g[i] = s[i]
    PROVE  g = s
<1>1. g \in Seq(S) /\ Len(g) = n
  OBVIOUS
<1> QED
  BY <1>1, SeqEqual

\* The ring always reads as a sequence of size items.
LEMMA OldestIsSeq ==
    ASSUME Typed, NEW n \in 0..Capacity
    PROVE  /\ Oldest(n) \in Seq(Item \union {NoItem})
           /\ Len(Oldest(n)) = n
           /\ \A i \in 1..n : Oldest(n)[i] = buffer[Wrap(head + i - 1)]
<1> USE QueueAssumption DEF Typed, TypeOK
<1>1. ASSUME NEW i \in 1..n
      PROVE  buffer[Wrap(head + i - 1)] \in Item \union {NoItem}
  <2>1. head + i - 1 \in Nat
    BY DEF Slot
  <2> QED
    BY <2>1, WrapInSlot
<1> QED
  BY <1>1 DEF Oldest

\* Storing s behind the items of the ring appends s to the sequence.
LEMMA StoreAppends ==
    ASSUME Typed, RingOK, Typed',
           NEW s \in Seq(Item), size + Len(s) <= Capacity,
           buffer' = Stored(s), head' = head, size' = size + Len(s)
    PROVE  Oldest(size)' = Oldest(size) \o s
<1> USE QueueAssumption DEF Typed, TypeOK
<1> DEFINE V == Item \union {NoItem}
           f == Oldest(size)
           g == Oldest(size)'
<1>1. f \in Seq(V) /\ Len(f) = size
  BY OldestIsSeq
<1>2. s \in Seq(V) /\ Len(s) \in Nat
  OBVIOUS
<1>3. /\ f \o s \in Seq(V)
      /\ Len(f \o s) = size + Len(s)
      /\ \A i \in 1..(size + Len(s)) :
            (f \o s)[i] = IF i <= size THEN f[i] ELSE s[i - size]
  BY <1>1, <1>2, ConcatProperties
<1>4. ASSUME NEW i \in 1..(size + Len(s))
      PROVE  buffer'[Wrap(head + i - 1)] = (f \o s)[i]
  <2> DEFINE k == i - 1
             j == Wrap(head + k)
  <2>1. k \in 0..(Capacity - 1) /\ head + i - 1 = head + k /\ head + k \in Nat
    BY <1>2 DEF Slot
  <2>2. j \in Slot
    BY <2>1, WrapInSlot
  <2>3. Offset(tail, j) = IF k >= size THEN k - size ELSE k + Capacity - size
    BY <2>1, OffsetFromHead DEF RingOK
  <2>4. buffer'[j] = IF Offset(tail, j) < Len(s) THEN s[Offset(tail, j) + 1]
                                                ELSE buffer[j]
    BY <2>2 DEF Stored
  <2>5. CASE i <= size
    <3>1. ~(Offset(tail, j) < Len(s))
      BY <1>2, <2>1, <2>3, <2>5
    <3>2. f[i] = buffer[j]
      BY <2>1, <2>5, OldestIsSeq
    <3> QED
      BY <1>3, <2>1, <2>4, <2>5, <3>1, <3>2
  <2>6. CASE i > size
    <3>1. Offset(tail, j) = i - size - 1 /\ Offset(tail, j) < Len(s)
      BY <1>2, <2>1, <2>3, <2>6
    <3>2. Offset(tail, j) + 1 = i - size
      BY <1>2, <2>6, <3>1
    <3> QED
      BY <1>3, <2>1, <2>4, <2>6, <3>1, <3>2
  <2>7. i <= size \/ i > size
    BY <1>2
  <2> QED
    BY <2>5, <2>6, <2>7
<1>5. g = [i \in 1..(size + Len(s)) |-> buffer'[Wrap(head + i - 1)]]
  BY DEF Oldest, Wrap
<1> HIDE DEF f, g, V
<1>6. g = [i \in 1..(size + Len(s)) |-> (f \o s)[i]]
  BY <1>4, <1>5
<1>7. size + Len(s) \in Nat
  BY <1>2
<1>8. g \in [1..(size + Len(s)) -> V]
  BY <1>3, <1>6, ElementOfSeq
<1>9. \A i \in 1..(size + Len(s)) : g[i] = (f \o s)[i]
  BY <1>6
<1>10. g = f \o s
  BY <1>3, <1>7, <1>8, <1>9, SeqByElements
<1> QED
  BY <1>10 DEF f, g

\* Advancing head by n removes the n oldest items of the sequence.
LEMMA AdvanceRemoves ==
    ASSUME Typed, NEW n \in 1..size,
           buffer' = buffer, head' = Wrap(head + n), size' = size - n
    PROVE  /\ Oldest(n) = SubSeq(Oldest(size), 1, n)
           /\ Oldest(size)' = SubSeq(Oldest(size), n + 1, size)
<1> USE QueueAssumption DEF Typed, TypeOK
<1> DEFINE V == Item \union {NoItem}
           f == Oldest(size)
<1>1. f \in Seq(V) /\ Len(f) = size
      /\ \A i \in 1..size : f[i] = buffer[Wrap(head + i - 1)]
  BY OldestIsSeq
<1>2. Oldest(n) \in Seq(V) /\ Len(Oldest(n)) = n
      /\ \A i \in 1..n : Oldest(n)[i] = buffer[Wrap(head + i - 1)]
  BY OldestIsSeq
<1> HIDE DEF f, V
<1>3. \A i \in 1..size : f[i] \in V
  BY <1>1, ElementOfSeq
<1>4. /\ SubSeq(f, 1, n) \in Seq(V)
      /\ Len(SubSeq(f, 1, n)) = n
      /\ \A i \in 1..n : SubSeq(f, 1, n)[i] = f[i]
  <2>1. \A i \in 1..n : f[i] \in V
    BY <1>3
  <2> QED
    BY <2>1, SubSeqProperties
<1>5. /\ SubSeq(f, n + 1, size) \in Seq(V)
      /\ Len(SubSeq(f, n + 1, size)) = size - n
      /\ \A i \in 1..(size - n) : SubSeq(f, n + 1, size)[i] = f[n + i]
  <2>1. \A i \in (n + 1)..size : f[i] \in V
    BY <1>3
  <2> QED
    BY <2>1, SubSeqProperties
<1>6. Oldest(n) = SubSeq(f, 1, n)
  <2>1. \A i \in 1..n : Oldest(n)[i] = SubSeq(f, 1, n)[i]
    BY <1>1, <1>2, <1>4
  <2> QED
    BY <1>2, <1>4, <2>1, SeqEqual
<1> DEFINE g == Oldest(size)'
<1>7. g = [i \in 1..(size - n) |-> buffer[Wrap(Wrap(head + n) + i - 1)]]
  BY DEF Oldest, Wrap
<1> HIDE DEF g
<1>8. ASSUME NEW i \in 1..(size - n)
      PROVE  buffer[Wrap(Wrap(head + n) + i - 1)] = SubSeq(f, n + 1, size)[i]
  <2>1. Wrap(head + n) \in Slot
    BY WrapInSlot DEF Slot
  <2>2. Wrap(head + n) + i - 1 = Wrap(head + n) + (i - 1)
    BY <2>1 DEF Slot
  <2>3. Wrap(Wrap(head + n) + (i - 1)) = Wrap(head + n + (i - 1))
    BY WrapShift
  <2>4. head + n + (i - 1) = head + (n + i) - 1 /\ n + i \in 1..size
    BY DEF Slot
  <2>5. SubSeq(f, n + 1, size)[i] = buffer[Wrap(head + (n + i) - 1)]
    BY <1>1, <1>5, <2>4
  <2> QED
    BY <2>2, <2>3, <2>4, <2>5
<1>9. g = [i \in 1..(size - n) |-> SubSeq(f, n + 1, size)[i]]
  BY <1>7, <1>8
<1>10. size - n \in Nat
  OBVIOUS
<1>11. g \in [1..(size - n) -> V]
  BY <1>5, <1>9, ElementOfSeq
<1>12. \A i \in 1..(size - n) : g[i] = SubSeq(f, n + 1, size)[i]
  BY <1>9
<1>13. g = SubSeq(f, n + 1, size)
  BY <1>5, <1>10, <1>11, <1>12, SeqByElements
<1> QED
  BY <1>6, <1>13 DEF f, g

\* Storing a single item at tail is the one-item case of Stored.
LEMMA StoredOne ==
    ASSUME Typed, NEW s \in Seq(Item), Len(s) = 1
    PROVE  Stored(s) = [buffer EXCEPT ![tail] = s[1]]
<1> USE QueueAssumption DEF Typed, TypeOK
<1>1. ASSUME NEW j \in Slot
      PROVE  /\ Offset(tail, j) \in Nat
             /\ Offset(tail, j) = 0 <=> j = tail
  <2>1. j + Capacity - tail \in 0..(2 * Capacity - 1)
    BY DEF Slot
  <2>2. Offset(tail, j) = IF j + Capacity - tail < Capacity
                          THEN j + Capacity - tail ELSE j - tail
    BY <2>1, WrapCases DEF Offset, Slot
  <2> QED
    BY <2>2 DEF Slot
<1>2. ASSUME NEW j \in Slot
      PROVE  (IF Offset(tail, j) < Len(s) THEN s[Offset(tail, j) + 1]
                                          ELSE buffer[j])
               = [buffer EXCEPT ![tail] = s[1]][j]
  BY <1>1
<1> QED
  BY <1>2 DEF Stored

\* A producer's call hands over items, at most Capacity of them if they fit.
LEMMA CallIsBatch ==
    ASSUME Typed, NEW p \in Producer, op[p] # "none",
           size + Len(items[p]) <= Capacity
    PROVE  items[p] \in Fifo!Batch
<1>1. items[p] \in Seq(Item) /\ op[p] \in {"push", "push_batch"}
      /\ size \in Nat
  BY DEF Typed, TypeOK
<1>2. Len(items[p]) \in Nat /\ Len(items[p]) >= 1
  <2>1. Len(items[p]) \in Nat
    BY <1>1
  <2>2. CASE op[p] = "push"
    BY <2>2 DEF Typed, CallOK
  <2>3. CASE op[p] = "push_batch"
    BY <2>1, <2>3, QueueAssumption DEF Typed, CallOK
  <2> QED
    BY <1>1, <2>1, <2>2, <2>3
<1>3. Len(items[p]) \in 1..Capacity
  BY <1>1, <1>2, QueueAssumption
<1>4. items[p] \in [1..Len(items[p]) -> Item]
  BY <1>1
<1>5. \E n \in 1..Capacity : items[p] \in [1..n -> Item]
  BY <1>3, <1>4
<1> QED
  BY <1>5 DEF Fifo!Batch

LEMMA NextRefines ==
    Typed /\ Typed' /\ RingOK /\ [Next]_vars => [Fifo!FNext]_(Fifo!fvars)
<1> SUFFICES ASSUME Typed, Typed', RingOK, [Next]_vars
             PROVE  Fifo!FNext \/ UNCHANGED Fifo!fvars
  BY DEF Fifo!fvars
<1> USE QueueAssumption
<1>1. ASSUME UNCHANGED <<buffer, head, size, shutdown, got, dropped>>
      PROVE  UNCHANGED Fifo!fvars
  BY <1>1 DEF Fifo!fvars, Oldest, Wrap
<1>2. ASSUME NEW p \in Producer, PushRefused(p)
      PROVE  Fifo!FNext
  <2>1. Range(items[p]) \in SUBSET Item
    BY DEF Range, Typed, TypeOK
  <2>2. Oldest(size)' = Oldest(size)
    BY <1>2 DEF PushRefused, ring, Oldest, Wrap
  <2>3. Fifo!Refuse(Range(items[p]))
    BY <1>2, <2>2 DEF PushRefused, Fifo!Refuse
  <2> QED
    BY <2>1, <2>3 DEF Fifo!FNext
<1>3. ASSUME NEW p \in Producer, queue_push(p) \/ queue_push_batch(p)
      PROVE  Fifo!FNext
  <2> DEFINE s == items[p]
  <2>1. s \in Seq(Item) /\ op[p] # "none" /\ size + Len(s) <= Capacity
        /\ (op[p] = "push" => Len(s) = 1)
    <3>1. s \in Seq(Item) /\ (op[p] = "push" => Len(s) = 1)
          /\ size \in 0..Capacity
      BY DEF Typed, TypeOK, CallOK
    <3>2. op[p] # "none" /\ ~Full(p)
      BY <1>3 DEF queue_push, queue_push_batch
    <3>3. Len(s) \in Nat
      BY <3>1
    <3>4. size + Len(s) <= Capacity
      <4>1. CASE op[p] = "push"
        <5> HIDE DEF s
        <5>1. size # Capacity /\ Len(s) = 1
          BY <3>1, <3>2, <4>1 DEF Full
        <5> QED
          BY <3>1, <5>1, QueueAssumption
      <4>2. CASE op[p] # "push"
        <5> HIDE DEF s
        <5>1. ~(size + Len(s) > Capacity)
          BY <3>2, <4>2 DEF Full, s
        <5> QED
          BY <3>1, <3>3, <5>1, QueueAssumption
      <4> QED
        BY <4>1, <4>2
    <3> QED
      BY <3>1, <3>2, <3>4
  <2>2. buffer' = Stored(s)
    BY <1>3, <2>1, StoredOne DEF queue_push, queue_push_batch
  <2>3. head' = head /\ size' = size + Len(s) /\ ~shutdown
        /\ UNCHANGED <<shutdown, got, dropped>>
    BY <1>3, <2>1 DEF queue_push, queue_push_batch
  <2>4. Oldest(size)' = Oldest(size) \o s
    BY <2>1, <2>2, <2>3, StoreAppends
  <2>5. Len(Oldest(size)) = size
    BY OldestIsSeq DEF Typed, TypeOK
  <2>6. Fifo!Put(s)
    BY <2>1, <2>3, <2>4, <2>5 DEF Fifo!Put
  <2>7. s \in Fifo!Batch
    BY <2>1, CallIsBatch
  <2> QED
    BY <2>6, <2>7 DEF Fifo!FNext
<1>4. ASSUME NEW c \in Consumer, PopNothing(c)
      PROVE  Fifo!FNext
  <2>1. Oldest(size)' = Oldest(size)
    BY <1>4 DEF PopNothing, ring, Oldest, Wrap
  <2>2. Oldest(size) = <<>>
    <3>1. Len(Oldest(size)) = 0 /\ Oldest(size) \in Seq(Item \union {NoItem})
      BY <1>4, OldestIsSeq DEF PopNothing
    <3> QED
      BY <3>1, EmptySeq
  <2>3. Fifo!TakeNothing(c)
    BY <1>4, <2>1, <2>2 DEF PopNothing, Fifo!TakeNothing
  <2> QED
    BY <2>3 DEF Fifo!FNext
<1>5. ASSUME NEW c \in Consumer, queue_pop(c) \/ queue_pop_batch(c)
      PROVE  Fifo!FNext
  <2>1. PICK n \in 1..size :
           /\ buffer' = buffer /\ head' = Wrap(head + n) /\ size' = size - n
           /\ got' = [got EXCEPT ![c] = Oldest(n)]
           /\ UNCHANGED <<shutdown, dropped>>
    <3>1. CASE queue_pop(c)
      <4>1. 1 \in 1..size /\ size \in 0..Capacity /\ head \in Slot
        BY <3>1 DEF queue_pop, Typed, TypeOK
      <4>2. Oldest(1) = <<buffer[head]>>
        <5>1. Oldest(1) \in Seq(Item \union {NoItem}) /\ Len(Oldest(1)) = 1
              /\ Oldest(1)[1] = buffer[Wrap(head + 1 - 1)]
          <6>1. 1 \in 0..Capacity /\ 1 \in 1..1
            BY <4>1
          <6> QED
            BY <6>1, OldestIsSeq
        <5>2. Wrap(head + 1 - 1) = head
          BY <4>1, WrapSmall DEF Slot
        <5> QED
          BY <5>1, <5>2
      <4> QED
        BY <3>1, <4>1, <4>2 DEF queue_pop
    <3>2. CASE queue_pop_batch(c)
      <4> DEFINE n == IF size < max[c] THEN size ELSE max[c]
      <4>1. n \in 1..size
        BY <3>2 DEF queue_pop_batch, Typed, TypeOK, CallOK
      <4>2. /\ buffer' = buffer /\ head' = Wrap(head + n) /\ size' = size - n
            /\ got' = [got EXCEPT ![c] = Oldest(n)]
            /\ UNCHANGED <<shutdown, dropped>>
        BY <3>2 DEF queue_pop_batch
      <4> HIDE DEF n
      <4> QED
        BY <4>1, <4>2
    <3> QED
      BY <1>5, <3>1, <3>2
  <2>2. /\ Oldest(n) = SubSeq(Oldest(size), 1, n)
        /\ Oldest(size)' = SubSeq(Oldest(size), n + 1, size)
    BY <2>1, AdvanceRemoves
  <2>3. Len(Oldest(size)) = size
    BY OldestIsSeq DEF Typed, TypeOK
  <2>4. Fifo!Take(c, n)
    BY <2>1, <2>2, <2>3 DEF Fifo!Take
  <2>5. n \in 1..Capacity
    BY DEF Typed, TypeOK
  <2> QED
    BY <2>4, <2>5 DEF Fifo!FNext
<1>6. CASE queue_signal_shutdown
  <2>1. Oldest(size)' = Oldest(size)
    BY <1>6 DEF queue_signal_shutdown, ring, Oldest, Wrap
  <2>2. Fifo!Close
    BY <1>6, <2>1 DEF queue_signal_shutdown, Fifo!Close
  <2> QED
    BY <2>2 DEF Fifo!FNext
<1>7. CASE \/ \E p \in Producer : ProducerCall(p) \/ PushWait(p)
           \/ \E c \in Consumer : ConsumerCall(c) \/ PopWait(c)
           \/ \E t \in Thread : SpuriousWakeup(t)
           \/ UNCHANGED vars
  <2>1. UNCHANGED <<buffer, head, size, shutdown, got, dropped>>
    BY <1>7 DEF ProducerCall, CallPush, PushWait, ConsumerCall, CallPop,
                PopWait, SpuriousWakeup, ring, vars
  <2> QED
    BY <1>1, <2>1
<1> QED
  BY <1>2, <1>3, <1>4, <1>5, <1>6, <1>7 DEF Next, ProducerStep, ConsumerStep

\* The promise of include/concurrent_queue.h holds of the implementation:
\* items leave in the order they entered, each exactly once, never more than
\* the capacity, refused only after shutdown, batches whole.
THEOREM QueueImplementsFifo == Spec => ImplementsFifo
<1>1. Init => RingOK /\ Fifo!FInit
  <2> SUFFICES ASSUME Init
               PROVE  RingOK /\ Fifo!FInit
    OBVIOUS
  <2>1. RingOK
    BY WrapSmall, QueueAssumption DEF Init, RingOK, Slot
  <2>2. Oldest(size) = <<>>
    <3>1. Len(Oldest(size)) = 0 /\ Oldest(size) \in Seq(Item \union {NoItem})
      BY InitTyped, OldestIsSeq, QueueAssumption DEF Init
    <3> QED
      BY <3>1, EmptySeq
  <2> QED
    BY <2>1, <2>2 DEF Init, Fifo!FInit
<1> QED
  BY <1>1, InitTyped, NextTyped, NextRingOK, NextRefines, PTL
  DEF Spec, ImplementsFifo, Fifo!FSpec
=============================================================================
