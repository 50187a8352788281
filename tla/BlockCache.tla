----------------------------- MODULE BlockCache -----------------------------
(***************************************************************************)
(* src/utils/elf_cache.c: blocks of a file, found in a red-black tree by   *)
(* their offset, and evicted from the head of a list kept in the order of  *)
(* use.                                                                    *)
(*                                                                         *)
(* A byte of the file is named by its position.  One turn of the loop in   *)
(* cache_read is an action: it makes room and loads the block (CacheMiss;  *)
(* the tree is then rebalanced) or finds it, and copies from it (CacheHit: *)
(* after a miss the same turn copies from the new block).                  *)
(***************************************************************************)
EXTENDS RbTree, SequencesExt

CONSTANTS BlockSize,   \* CACHE_BLOCK_SIZE
          FileSize,    \* the size of the file
          MaxBlocks,   \* MAX_CACHE_BLOCKS
          MaxRead      \* bound: bytes asked for by one call

ASSUME BlockAssumption ==
    /\ BlockSize \in Nat \ {0} /\ FileSize \in Nat \ {0} /\ MaxRead \in Nat
    /\ MaxBlocks \in 1..NumNodes

VARIABLES block,          \* the cached blocks: node -> [offset, data]
          lru,            \* lru_list, the least recently used block first
          current_blocks,
          call,           \* the cache_read that runs, or NoCall
          flushing,       \* the local variable next of cache_flush, or NoFlush
          recent          \* history: the last blocks copied from

cacheVars == <<block, lru, current_blocks, call, flushing, recent>>

NoCall  == [op |-> "none"]
NoFlush == NumNodes + 1
ZERO    == FileSize        \* the content of a byte that calloc cleared

BInit ==
    /\ block = [n \in {} |-> NIL] /\ lru = <<>> /\ current_blocks = 0
    /\ call = NoCall /\ flushing = NoFlush /\ recent = <<>>

Idle == pc = "idle" /\ call = NoCall /\ flushing = NoFlush

----------------------------------------------------------------------------
(* cache_read and cache_prefetch.                                          *)

\* Mutant: a read behind the end of the file is not cut.
read_not_cut(op, offset, size, until) ==
    [op |-> op, offset |-> offset, remaining |-> size, buf |-> <<>>,
     from |-> offset, size |-> size, until |-> until]

\* A call of cache_read for size bytes at offset, cut at the end of the file.
\* from and size remember the arguments; until is where a prefetch ends.
Request(op, offset, size, until) ==
    LET n == IF offset + size > FileSize THEN FileSize - offset ELSE size
    IN [op |-> op, offset |-> offset, remaining |-> n, buf |-> <<>>,
        from |-> offset, size |-> size, until |-> until]

\* An offset behind the file is refused at once and changes nothing.
cache_read ==
    /\ Idle
    /\ \E offset \in 0..FileSize - 1, size \in 1..MaxRead :
          call' = Request("read", offset, size, 0)
    /\ UNCHANGED <<treeVars, block, lru, current_blocks, flushing, recent>>

\* A prefetch reads whole blocks from its offset on.
cache_prefetch ==
    /\ Idle
    /\ \E offset \in 0..FileSize - 1, size \in 1..MaxRead :
          call' = Request("prefetch", offset, BlockSize, offset + size)
    /\ UNCHANGED <<treeVars, block, lru, current_blocks, flushing, recent>>

Running == pc = "idle" /\ call.op \in {"read", "prefetch"} /\ flushing = NoFlush

find_cache_block(offset) ==
    LET f[m \in Link] ==
          IF m = NIL THEN NIL
          ELSE IF offset < block[m].offset THEN f[t.kid[m]["left"]]
          ELSE IF offset >= block[m].offset + BlockSize THEN f[t.kid[m]["right"]]
          ELSE m
    IN f[t.root]

\* The block at offset: the last one of the file may be a short one.
create_cache_block(offset) ==
    LET size == IF offset + BlockSize > FileSize THEN FileSize - offset ELSE BlockSize
    IN [offset |-> offset,
        data |-> [i \in 1..BlockSize |-> IF i <= size THEN offset + i - 1 ELSE ZERO]]

CacheFull == current_blocks >= MaxBlocks

Missing == Running /\ call.remaining > 0 /\ find_cache_block(call.offset) = NIL

Without(f, n) == [m \in DOMAIN f \ {n} |-> f[m]]

\* evict_lru_block: the head of the list leaves the tree, the list and memory.
evict_lru_block ==
    /\ Missing /\ CacheFull /\ lru # <<>>
    /\ rb_erase(Head(lru))
    /\ block' = Without(block, Head(lru))
    /\ lru' = Tail(lru)
    /\ current_blocks' = current_blocks - 1
    /\ UNCHANGED <<call, flushing, recent>>

insert_cache_block(n, offset) ==
    LET f[m \in Node] ==
          LET s == IF offset < block[m].offset THEN "left" ELSE "right"
          IN IF t.kid[m][s] = NIL THEN <<m, s>> ELSE f[t.kid[m][s]]
        at == IF t.root = NIL THEN <<NIL, "left">> ELSE f[t.root]
    IN rb_insert_color(n, at[1], at[2])

\* The missing block is read into a new node n.
CacheMiss ==
    /\ Missing /\ ~CacheFull
    /\ LET offset == (call.offset \div BlockSize) * BlockSize
           n      == Min(Node \ DOMAIN block)
       IN /\ insert_cache_block(n, offset)
          /\ block' = [m \in DOMAIN block \union {n} |->
                          IF m = n THEN create_cache_block(offset) ELSE block[m]]
          /\ lru' = Append(lru, n)
    /\ current_blocks' = current_blocks + 1
    /\ UNCHANGED <<call, flushing, recent>>

\* calloc, lseek or read fails: cache_read returns -1.
ReadFails ==
    /\ Missing /\ ~CacheFull
    /\ call' = NoCall
    /\ UNCHANGED <<treeVars, block, lru, current_blocks, flushing, recent>>

MoveToTail(n) == Append(RemoveFirst(lru, n), n)

\* The block is there: it moves to the tail of the list, and what it has of
\* the bytes asked for is copied.
CacheHit ==
    LET n         == find_cache_block(call.offset)
        block_pos == call.offset % BlockSize
        copy_size == Min({call.remaining, BlockSize - block_pos})
    IN /\ Running /\ call.remaining > 0 /\ n # NIL
       /\ lru' = MoveToTail(n)
       /\ call' = [call EXCEPT
              !.buf = @ \o SubSeq(block[n].data, block_pos + 1, block_pos + copy_size),
              !.offset = @ + copy_size, !.remaining = @ - copy_size]
       /\ recent' = LET s == Append(RemoveFirst(recent, block[n].offset), block[n].offset)
                    IN SubSeq(s, Max({1, Len(s) - MaxBlocks + 1}), Len(s))
       /\ UNCHANGED <<treeVars, block, current_blocks, flushing>>

\* All is copied: a read returns; a prefetch reads on one block further, and
\* fails when that is behind the end of the file.
ReadDone ==
    /\ Running /\ call.remaining = 0
    /\ LET next == call.from + BlockSize
       IN call' = IF call.op = "prefetch" /\ next < call.until /\ next < FileSize
                  THEN Request("prefetch", next, BlockSize, call.until)
                  ELSE NoCall
    /\ UNCHANGED <<treeVars, block, lru, current_blocks, flushing, recent>>

----------------------------------------------------------------------------
(* cache_flush.                                                            *)

FlushBegins ==
    /\ Idle /\ t.root # NIL
    /\ flushing' = rb_first(t)
    /\ UNCHANGED <<treeVars, block, lru, current_blocks, call, recent>>

FlushBlock ==
    /\ pc = "idle" /\ flushing \in Node
    /\ flushing' = rb_next(t, flushing)
    /\ rb_erase(flushing)
    /\ block' = Without(block, flushing)
    /\ lru' = RemoveFirst(lru, flushing)
    /\ UNCHANGED <<current_blocks, call, recent>>

FlushEnds ==
    /\ pc = "idle" /\ flushing = NIL
    /\ current_blocks' = 0 /\ flushing' = NoFlush
    /\ UNCHANGED <<treeVars, block, lru, call, recent>>

CacheStep ==
    \/ cache_read \/ cache_prefetch \/ evict_lru_block \/ CacheMiss \/ ReadFails
    \/ CacheHit \/ ReadDone \/ FlushBegins \/ FlushBlock \/ FlushEnds

----------------------------------------------------------------------------
(* Properties.                                                             *)

\* Between two turns of the loop in cache_read the cached blocks are the ones
\* copied from last: evict_lru_block takes the least recently used.
LeastRecentlyUsed ==
    pc = "idle" /\ flushing = NoFlush /\ (call = NoCall \/ call.remaining = 0) =>
        LET k == Len(recent)
        IN { block[n].offset : n \in DOMAIN block }
              = { recent[i] : i \in k - Len(lru) + 1 .. k }

\* Tree, list and memory hold the same blocks, at most MaxBlocks and no two
\* of them overlapping; current_blocks is their number, which cache_flush
\* sets only at its end, and its loop never holds a freed block.
CacheConsistent ==
    /\ Nodes(t) = DOMAIN block /\ ToSet(lru) = DOMAIN block
    /\ IsInjective(lru) /\ Len(lru) <= MaxBlocks
    /\ flushing = NoFlush => current_blocks = Len(lru)
    /\ flushing = NIL => lru = <<>>
    /\ flushing \in Node => flushing \in DOMAIN block
    /\ \A m, n \in DOMAIN block : m # n =>
          \/ block[m].offset + BlockSize <= block[n].offset
          \/ block[n].offset + BlockSize <= block[m].offset
    /\ LeastRecentlyUsed

\* A call that has copied everything has the bytes of the file that were
\* asked for, up to the end of the file, whatever was evicted meanwhile.
ReadFaithful ==
    Running /\ call.remaining = 0 =>
        LET n == Min({call.size, FileSize - call.from})
        IN call.buf = [i \in 1..n |-> call.from + i - 1]
=============================================================================
