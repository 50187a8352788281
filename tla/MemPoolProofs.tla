--------------------------- MODULE MemPoolProofs ---------------------------
(***************************************************************************)
(* The memory pool for every pool size and any number of threads.  The     *)
(* inductive invariant says who owns each block, that nobody is inside the *)
(* pool once it is destroyed, and that chunks handed out and chunks in the *)
(* pool together never fall below the pool's size.                         *)
(***************************************************************************)
EXTENDS MemPool, FiniteSetTheorems, TLAPS

\* Threads that are about to free() carry a chunk, and there are none left
\* when the pool is destroyed.
ThreadsOK ==
    /\ \A t \in Thread : pc[t] = "free" => arg[t] \in Chunk
    /\ ~open => \A t \in Thread : pc[t] = "idle"
    /\ open => ~badFree

\* Whatever the program returns finds enough free slots: the pool is full
\* whenever nothing is handed out.
EnoughChunks == open => PoolSize <= count + Cardinality(out)

PoolInv == TypeOK /\ ThreadsOK /\ SingleOwner /\ NothingLeaks /\ EnoughChunks

LEMMA OutFinite ==
    ASSUME TypeOK
    PROVE  IsFiniteSet(out) /\ Cardinality(out) \in Nat
<1>1. IsFiniteSet(1..MaxChunks)
  BY FS_Interval, PoolAssumption
<1>2. IsFiniteSet(out)
  BY <1>1, FS_Subset DEF TypeOK, Chunk
<1> QED
  BY <1>2, FS_CardinalityType

LEMMA InitPoolInv == Init => PoolInv
<1> SUFFICES ASSUME Init
             PROVE  PoolInv
  OBVIOUS
<1> USE PoolAssumption DEF Init
<1>1. TypeOK
  <2>1. pool \in [Slot -> Chunk] /\ count \in 0..PoolSize /\ heap \subseteq Chunk
    BY DEF Slot, Chunk
  <2>2. pc \in [Thread -> {"idle", "malloc", "free"}]
    OBVIOUS
  <2> QED
    BY <2>1, <2>2 DEF TypeOK
<1>2. ThreadsOK
  BY DEF ThreadsOK
<1>3. Pooled = 1..PoolSize /\ Freeing = {}
  <2>1. ASSUME NEW y \in 1..PoolSize
        PROVE  y \in Pooled
    <3>1. y - 1 \in 0..(count - 1) /\ pool[y - 1] = y
      BY DEF Slot
    <3> QED
      BY <3>1 DEF Pooled
  <2>2. Pooled \subseteq 1..PoolSize
    BY DEF Pooled, Slot
  <2>3. Freeing = {}
    BY DEF Freeing
  <2> QED
    BY <2>1, <2>2, <2>3
<1>4. SingleOwner
  BY <1>3 DEF SingleOwner, Slot
<1>5. NothingLeaks
  BY <1>3 DEF NothingLeaks
<1>6. EnoughChunks
  BY FS_EmptySet DEF EnoughChunks
<1> QED
  BY <1>1, <1>2, <1>4, <1>5, <1>6 DEF PoolInv

LEMMA AllocKeepsInv ==
    ASSUME PoolInv, NEW t \in Thread, mempool_alloc(t)
    PROVE  PoolInv'
<1> USE PoolAssumption DEF PoolInv, mempool_alloc
<1> DEFINE x == pool[count - 1]
<1>1. x \in Pooled /\ x \notin out /\ x \in Chunk /\ count - 1 \in Slot
  BY DEF TypeOK, SingleOwner, Pooled, Slot
<1>2. Pooled' = Pooled \ {x} /\ Freeing' = Freeing
  BY <1>1 DEF TypeOK, SingleOwner, Pooled, Freeing, Slot
<1>3. TypeOK' /\ ThreadsOK'
  BY <1>1 DEF TypeOK, ThreadsOK
<1>4. SingleOwner'
  BY <1>1, <1>2 DEF SingleOwner, TypeOK
<1>5. NothingLeaks'
  BY <1>1, <1>2 DEF NothingLeaks
<1>6. EnoughChunks'
  <2>1. Cardinality(out \union {x}) = Cardinality(out) + 1
    BY <1>1, OutFinite, FS_AddElement
  <2> QED
    BY <2>1, OutFinite DEF EnoughChunks, TypeOK
<1> QED
  BY <1>3, <1>4, <1>5, <1>6

LEMMA AllocFallbackKeepsInv ==
    ASSUME PoolInv, NEW t \in Thread, AllocFallback(t)
    PROVE  PoolInv'
<1> USE PoolAssumption DEF PoolInv, AllocFallback
<1>1. Pooled' = Pooled /\ Freeing' = Freeing
  BY DEF TypeOK, Pooled, Freeing
<1>2. TypeOK' /\ ThreadsOK'
  BY DEF TypeOK, ThreadsOK
<1>3. SingleOwner' /\ NothingLeaks' /\ EnoughChunks'
  BY <1>1 DEF SingleOwner, NothingLeaks, EnoughChunks, TypeOK
<1> QED
  BY <1>2, <1>3

LEMMA MallocKeepsInv ==
    ASSUME PoolInv, NEW t \in Thread, Malloc(t)
    PROVE  PoolInv'
<1> USE PoolAssumption DEF PoolInv
<1>1. open /\ open' /\ badFree' = badFree /\ count' = count /\ pool' = pool
      /\ arg' = arg /\ pc' = [pc EXCEPT ![t] = "idle"]
  BY DEF Malloc, ThreadsOK, TypeOK
<1>2. Pooled' = Pooled /\ Freeing' = Freeing
  BY <1>1 DEF Malloc, TypeOK, Pooled, Freeing
<1>3. ASSUME NEW x \in Chunk \ heap, heap' = heap \union {x}, out' = out \union {x}
      PROVE  PoolInv'
  <2>1. x \notin Pooled /\ x \notin out /\ x \notin Freeing
    BY <1>1, <1>3 DEF NothingLeaks
  <2>2. TypeOK' /\ ThreadsOK'
    BY <1>1, <1>3 DEF TypeOK, ThreadsOK
  <2>3. SingleOwner'
    BY <1>1, <1>2, <1>3, <2>1 DEF SingleOwner, TypeOK
  <2>4. NothingLeaks'
    BY <1>1, <1>2, <1>3 DEF NothingLeaks
  <2>5. EnoughChunks'
    <3>1. Cardinality(out \union {x}) = Cardinality(out) + 1
      BY <2>1, OutFinite, FS_AddElement
    <3> QED
      BY <1>1, <1>3, <3>1, OutFinite DEF EnoughChunks, TypeOK
  <2> QED
    BY <2>2, <2>3, <2>4, <2>5
<1>4. ASSUME UNCHANGED <<heap, out>>
      PROVE  PoolInv'
  <2>1. TypeOK' /\ ThreadsOK'
    BY <1>1, <1>4 DEF TypeOK, ThreadsOK
  <2>2. SingleOwner' /\ NothingLeaks' /\ EnoughChunks'
    BY <1>1, <1>2, <1>4 DEF SingleOwner, NothingLeaks, EnoughChunks, TypeOK
  <2> QED
    BY <2>1, <2>2
<1> QED
  BY <1>3, <1>4 DEF Malloc

LEMMA FreeToPoolKeepsInv ==
    ASSUME PoolInv, NEW t \in Thread, NEW x \in Chunk, mempool_free(t, x)
    PROVE  PoolInv'
<1> USE PoolAssumption DEF PoolInv, mempool_free
<1>1. count \in Slot /\ count \in Nat /\ x \notin Pooled /\ x \notin Freeing
  BY DEF TypeOK, SingleOwner, Slot
<1>2. Pooled' = Pooled \union {x} /\ Freeing' = Freeing
  BY <1>1 DEF TypeOK, Pooled, Freeing, Slot
<1>3. TypeOK' /\ ThreadsOK'
  BY <1>1 DEF TypeOK, ThreadsOK
<1>4. SingleOwner'
  <2>1. ASSUME NEW i \in 0..count, NEW j \in 0..count, pool'[i] = pool'[j]
        PROVE  i = j
    BY <1>1, <2>1 DEF SingleOwner, TypeOK, Pooled, Slot
  <2> QED
    BY <1>1, <1>2, <2>1 DEF SingleOwner, TypeOK
<1>5. NothingLeaks'
  BY <1>2 DEF NothingLeaks
<1>6. EnoughChunks'
  <2>1. Cardinality(out \ {x}) = Cardinality(out) - 1
    BY OutFinite, FS_RemoveElement
  <2> QED
    BY <2>1, OutFinite DEF EnoughChunks, TypeOK
<1> QED
  BY <1>3, <1>4, <1>5, <1>6

LEMMA FreeFallbackKeepsInv ==
    ASSUME PoolInv, NEW t \in Thread, NEW x \in Chunk, FreeFallback(t, x)
    PROVE  PoolInv'
<1> USE PoolAssumption DEF PoolInv, FreeFallback
<1>1. x \notin Pooled /\ x \notin Freeing
  BY DEF SingleOwner
<1>2. Pooled' = Pooled /\ Freeing' = Freeing \union {x}
  BY DEF TypeOK, Pooled, Freeing
<1>3. TypeOK' /\ ThreadsOK'
  BY DEF TypeOK, ThreadsOK
<1>4. SingleOwner'
  <2>1. ASSUME NEW u \in Thread, NEW v \in Thread, pc'[u] = "free",
               pc'[v] = "free", arg'[u] = arg'[v]
        PROVE  u = v
    BY <1>1, <2>1 DEF SingleOwner, TypeOK, Freeing
  <2> QED
    BY <1>1, <1>2, <2>1 DEF SingleOwner, TypeOK
<1>5. NothingLeaks'
  BY <1>2 DEF NothingLeaks
<1>6. EnoughChunks'
  <2>1. IsFiniteSet(out') /\ Cardinality(out') \in Nat
    BY <1>3, OutFinite, FS_Subset, FS_CardinalityType
  <2> QED
    BY <2>1 DEF EnoughChunks, TypeOK
<1> QED
  BY <1>3, <1>4, <1>5, <1>6

LEMMA FreeKeepsInv ==
    ASSUME PoolInv, NEW t \in Thread, Free(t)
    PROVE  PoolInv'
<1> USE PoolAssumption DEF PoolInv, Free
<1>1. open /\ open' /\ arg[t] \in Freeing /\ arg[t] \in heap /\ arg[t] \in Chunk
  BY DEF ThreadsOK, TypeOK, Freeing, NothingLeaks
<1>2. arg[t] \notin Pooled /\ arg[t] \notin out
  BY <1>1 DEF SingleOwner
<1>3. Pooled' = Pooled
  BY DEF Pooled
<1>4. Freeing' = Freeing \ {arg[t]}
  BY <1>1 DEF TypeOK, SingleOwner, Freeing
<1>5. TypeOK' /\ ThreadsOK'
  BY <1>1 DEF TypeOK, ThreadsOK
<1>6. SingleOwner'
  BY <1>1, <1>3, <1>4 DEF SingleOwner, TypeOK
<1>7. NothingLeaks'
  BY <1>1, <1>2, <1>3, <1>4 DEF NothingLeaks
<1>8. EnoughChunks'
  BY DEF EnoughChunks
<1> QED
  BY <1>5, <1>6, <1>7, <1>8

LEMMA DestroyKeepsInv ==
    ASSUME PoolInv, mempool_destroy
    PROVE  PoolInv'
  BY DEF PoolInv, mempool_destroy, TypeOK, ThreadsOK, SingleOwner,
         NothingLeaks, EnoughChunks

LEMMA NextPoolInv == PoolInv /\ [Next]_vars => PoolInv'
<1> SUFFICES ASSUME PoolInv, [Next]_vars
             PROVE  PoolInv'
  OBVIOUS
<1>1. CASE UNCHANGED vars
  BY <1>1 DEF vars, PoolInv, TypeOK, ThreadsOK, SingleOwner, NothingLeaks,
              EnoughChunks, Pooled, Freeing
<1> QED
  BY <1>1, AllocKeepsInv, AllocFallbackKeepsInv, MallocKeepsInv,
     FreeToPoolKeepsInv, FreeFallbackKeepsInv, FreeKeepsInv, DestroyKeepsInv
  DEF Next

\* Every step keeps the pool's bookkeeping in range.
THEOREM PoolTypeCorrect == Spec => []TypeOK
<1>1. PoolInv => TypeOK
  BY DEF PoolInv
<1> QED
  BY <1>1, InitPoolInv, NextPoolInv, PTL DEF Spec

\* mempool_alloc never hands out a chunk that somebody else owns.
THEOREM NoChunkSharedEver == Spec => []SingleOwner
<1>1. PoolInv => SingleOwner
  BY DEF PoolInv
<1> QED
  BY <1>1, InitPoolInv, NextPoolInv, PTL DEF Spec

\* The malloc and free fallbacks leak no block.
THEOREM PoolNeverLeaks == Spec => []NothingLeaks
<1>1. PoolInv => NothingLeaks
  BY DEF PoolInv
<1> QED
  BY <1>1, InitPoolInv, NextPoolInv, PTL DEF Spec

\* With nothing handed out, the pool's array holds every block, each once.
LEMMA NothingOutMeansFull ==
    ASSUME PoolInv, open, out = {}, \A t \in Thread : pc[t] = "idle"
    PROVE  /\ heap = { pool[i] : i \in Slot }
           /\ \A i, j \in Slot : pool[i] = pool[j] => i = j
<1> USE PoolAssumption DEF PoolInv
<1>1. count = PoolSize
  BY FS_EmptySet DEF EnoughChunks, TypeOK
<1>2. Pooled = { pool[i] : i \in Slot } /\ Freeing = {}
  BY <1>1 DEF Pooled, Freeing, Slot
<1> QED
  BY <1>1, <1>2 DEF NothingLeaks, SingleOwner, Slot

\* If the program returned every chunk before mempool_destroy, everything is
\* freed, each block once.
THEOREM DestroyIsClean == Spec => []CleanDestroy
<1>1. Init => CleanDestroy
  BY DEF Init, CleanDestroy
<1>2. PoolInv /\ CleanDestroy /\ [Next]_vars => CleanDestroy'
  <2> SUFFICES ASSUME PoolInv, CleanDestroy, [Next]_vars
               PROVE  CleanDestroy'
    OBVIOUS
  <2> USE DEF CleanDestroy
  <2>1. CASE mempool_destroy
    <3>1. ASSUME out' = {}
          PROVE  heap' = {} /\ ~badFree'
      <4>1. /\ heap = { pool[i] : i \in Slot }
            /\ \A i, j \in Slot : pool[i] = pool[j] => i = j
        BY <2>1, <3>1, NothingOutMeansFull DEF mempool_destroy
      <4>2. heap' = {}
        BY <2>1, <4>1 DEF mempool_destroy
      <4>3. ~badFree
        BY <2>1 DEF mempool_destroy, PoolInv, ThreadsOK
      <4>4. ~badFree'
        <5>1. ASSUME NEW i \in Slot
              PROVE  /\ pool[i] \in heap
                     /\ \A j \in Slot : j < i => pool[j] # pool[i]
          BY <4>1, PoolAssumption DEF Slot
        <5>2. badFree' <=> \/ badFree
                           \/ \E i \in Slot :
                                \/ pool[i] \notin heap
                                \/ \E j \in Slot : j < i /\ pool[j] = pool[i]
          BY <2>1 DEF mempool_destroy
        <5> QED
          BY <4>3, <5>1, <5>2
      <4> QED
        BY <4>2, <4>4
    <3> QED
      BY <3>1
  <2>2. CASE open' = open /\ open
    BY <2>2
  <2>3. CASE UNCHANGED vars
    BY <2>3 DEF vars
  <2> QED
    BY <2>1, <2>2, <2>3
    DEF Next, mempool_alloc, AllocFallback, Malloc, Free, mempool_free,
        FreeFallback, PoolInv, ThreadsOK, TypeOK
<1> QED
  BY <1>1, <1>2, InitPoolInv, NextPoolInv, PTL DEF Spec
=============================================================================
