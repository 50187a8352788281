------------------------------ MODULE MemPool ------------------------------
(***************************************************************************)
(* src/utils/mempool.c: a stack of preallocated chunks behind a mutex.     *)
(* mempool_alloc falls back to malloc when the stack is empty, and         *)
(* mempool_free falls back to free when it is full; both do so after the   *)
(* mutex was released, so they are two steps each here.  The program has   *)
(* two pools, each with one thread that allocates and one that frees       *)
(* (sample_pool: main and symbolizer, entry_pool: symbolizer and writer),  *)
(* so a chunk handed out belongs to the program, not to a thread.          *)
(***************************************************************************)
EXTENDS Naturals, FiniteSets

CONSTANTS Thread,     \* threads that use the pool
          PoolSize,   \* mp->pool_size
          MaxChunks   \* bound on the blocks alive at the same time

ASSUME PoolAssumption ==
    /\ PoolSize \in Nat \ {0}
    /\ MaxChunks \in Nat
    /\ PoolSize <= MaxChunks

VARIABLES
    pool,     \* mp->pool: slots at count and above keep stale pointers
    count,    \* mp->count: the slots below it hold the free chunks
    heap,     \* blocks that malloc returned and free did not take back
    out,      \* chunks the program holds: alloc returned them
    pc, arg,  \* where thread t is, and the chunk it is about to free
    open,     \* FALSE after mempool_destroy
    badFree   \* some free() got a block that is not allocated

vars == <<pool, count, heap, out, pc, arg, open, badFree>>

Slot  == 0..(PoolSize - 1)
Chunk == 1..MaxChunks
NoChunk == 0

Init == /\ pool = [i \in Slot |-> i + 1]
        /\ count = PoolSize
        /\ heap = 1..PoolSize
        /\ out = {}
        /\ pc = [t \in Thread |-> "idle"]
        /\ arg = [t \in Thread |-> NoChunk]
        /\ open = TRUE
        /\ badFree = FALSE

----------------------------------------------------------------------------
(* mempool_alloc.                                                          *)

\* Mutant: the element below the top of the stack is handed out.
alloc_reads_wrong_slot(t) ==
    /\ open /\ pc[t] = "idle"
    /\ count > 0
    /\ out' = out \union {pool[IF count > 1 THEN count - 2 ELSE 0]}
    /\ count' = count - 1
    /\ UNCHANGED <<pool, heap, pc, arg, open, badFree>>

mempool_alloc(t) ==
    /\ open /\ pc[t] = "idle"
    /\ count > 0
    /\ out' = out \union {pool[count - 1]}
    /\ count' = count - 1
    /\ UNCHANGED <<pool, heap, pc, arg, open, badFree>>

\* The pool is exhausted: unlock, then call malloc.
AllocFallback(t) ==
    /\ open /\ pc[t] = "idle"
    /\ count = 0
    /\ pc' = [pc EXCEPT ![t] = "malloc"]
    /\ UNCHANGED <<pool, count, heap, out, arg, open, badFree>>

\* malloc returns a block that is not in use, or NULL: then mempool_alloc
\* returns NULL and the caller gives up its sample or entry.
Malloc(t) ==
    /\ pc[t] = "malloc"
    /\ \/ \E x \in Chunk \ heap : /\ heap' = heap \union {x}
                                  /\ out' = out \union {x}
       \/ UNCHANGED <<heap, out>>
    /\ pc' = [pc EXCEPT ![t] = "idle"]
    /\ UNCHANGED <<pool, count, arg, open, badFree>>

----------------------------------------------------------------------------
(* mempool_free.                                                           *)

\* Mutant: the test for a full pool off by one.
free_off_by_one(t, x) ==
    /\ open /\ pc[t] = "idle"
    /\ x \in out
    /\ count <= PoolSize
    /\ pool' = [pool EXCEPT ![count] = x]
    /\ count' = count + 1
    /\ out' = out \ {x}
    /\ UNCHANGED <<heap, pc, arg, open, badFree>>

mempool_free(t, x) ==
    /\ open /\ pc[t] = "idle"
    /\ x \in out
    /\ count < PoolSize
    /\ pool' = [pool EXCEPT ![count] = x]
    /\ count' = count + 1
    /\ out' = out \ {x}
    /\ UNCHANGED <<heap, pc, arg, open, badFree>>

\* The code before its fix, which the comment above mempool_free still
\* describes: a chunk that comes back to a full pool is forgotten.
full_pool_drops_chunk(t, x) ==
    /\ open /\ pc[t] = "idle"
    /\ x \in out
    /\ count = PoolSize
    /\ out' = out \ {x}
    /\ UNCHANGED <<pool, count, heap, pc, arg, open, badFree>>

\* The pool is full: unlock, then call free.
FreeFallback(t, x) ==
    /\ open /\ pc[t] = "idle"
    /\ x \in out
    /\ count = PoolSize
    /\ out' = out \ {x}
    /\ pc' = [pc EXCEPT ![t] = "free"]
    /\ arg' = [arg EXCEPT ![t] = x]
    /\ UNCHANGED <<pool, count, heap, open, badFree>>

Free(t) ==
    /\ pc[t] = "free"
    /\ heap' = heap \ {arg[t]}
    /\ badFree' = (badFree \/ arg[t] \notin heap)
    /\ pc' = [pc EXCEPT ![t] = "idle"]
    /\ arg' = [arg EXCEPT ![t] = NoChunk]
    /\ UNCHANGED <<pool, count, out, open>>

----------------------------------------------------------------------------

\* Mutant: only the chunks that are in the pool at the moment, and one short.
destroy_off_by_one ==
    /\ open
    /\ \A t \in Thread : pc[t] = "idle"
    /\ open' = FALSE
    /\ heap' = heap \ { pool[i] : i \in 0..(count - 2) }
    /\ UNCHANGED <<pool, count, out, pc, arg, badFree>>

\* mempool_destroy frees every slot of the array, those at count and above
\* included; two slots with the same pointer make the second free() invalid.
\* It runs when the threads that use the pool are gone.
mempool_destroy ==
    /\ open
    /\ \A t \in Thread : pc[t] = "idle"
    /\ open' = FALSE
    /\ heap' = heap \ { pool[i] : i \in Slot }
    /\ badFree' = (badFree \/ \E i \in Slot :
                                 \/ pool[i] \notin heap
                                 \/ \E j \in Slot : j < i /\ pool[j] = pool[i])
    /\ UNCHANGED <<pool, count, out, pc, arg>>

Next == \/ \E t \in Thread : \/ mempool_alloc(t)
                             \/ AllocFallback(t)
                             \/ Malloc(t)
                             \/ Free(t)
        \/ \E t \in Thread, x \in Chunk : \/ mempool_free(t, x)
                                          \/ FreeFallback(t, x)
        \/ mempool_destroy

Spec == Init /\ [][Next]_vars

----------------------------------------------------------------------------
(* Properties.                                                             *)

TypeOK == /\ pool \in [Slot -> Chunk]
          /\ count \in 0..PoolSize
          /\ heap \subseteq Chunk
          /\ out \subseteq Chunk
          /\ pc \in [Thread -> {"idle", "malloc", "free"}]
          /\ arg \in [Thread -> Chunk \union {NoChunk}]
          /\ open \in BOOLEAN /\ badFree \in BOOLEAN

Pooled  == { pool[i] : i \in 0..(count - 1) }
Freeing == { arg[t] : t \in { u \in Thread : pc[u] = "free" } }

\* No chunk has two owners: while the pool is open, no two of its live slots
\* hold the same chunk, no chunk is both in the pool and in the program's
\* hands, and what is about to be freed is neither.  So mempool_alloc never
\* hands out memory that somebody still uses.
SingleOwner ==
    open => /\ \A i, j \in 0..(count - 1) : pool[i] = pool[j] => i = j
            /\ Pooled \cap out = {}
            /\ Freeing \cap (Pooled \union out) = {}
            /\ \A t, u \in Thread :
                  pc[t] = "free" /\ pc[u] = "free" /\ arg[t] = arg[u] => t = u

\* While the pool is open, every block is in the pool, in the program's
\* hands or on its way to free(): the malloc and free fallbacks leak nothing.
NothingLeaks == open => heap = Pooled \union out \union Freeing

\* Destroying the pool is clean if the program gave back what it held: every
\* block is freed, each one once, although the fallbacks put malloc'ed
\* chunks into slots that once held preallocated ones.
CleanDestroy == ~open /\ out = {} => heap = {} /\ ~badFree
=============================================================================
