# TLA+ specifications of the profiler

The profiler samples call stacks with `perf_event_open`, turns the addresses
into names and writes the stacks to SQLite files, one per hour. It is a
pipeline of threads over two bounded queues. This directory models the parts
that carry the state and the concurrency, checks them with TLC and proves the
central ones with TLAPS. Paths below are relative to the repository; `C` files
of the form `src/utils/x.c` live under `src/src/utils/`.

## 1. The system

| Component | State | Operations | Hard part |
|---|---|---|---|
| Concurrent queue (`utils/concurrent_queue.c`) | ring buffer, head, tail, size, shutdown, a mutex, two condition variables | `queue_push`, `queue_pop`, both as batches, `queue_signal_shutdown`, `queue_get_size`, `queue_destroy` | lost wakeups, wrap-around, shutdown, batches larger than the queue |
| Memory pool (`utils/mempool.c`) | stack of chunks, count | create, alloc (falls back to `malloc`), free (falls back to `free`), destroy | fallback paths outside the lock, destroy with chunks out |
| Database writer (`utils/database.c`) | static producer buffer, queue, `running`, open file, statement, transaction | push_stack, flush, writer thread, ensure_db_handle, stop, wait | stopping, hour rotation inside a batch, error paths |
| Symbolizer thread (`core/handler.c`) | the sample at hand, `proc_info`, `process_name` | `symbolize_sample`, thread loop | processes change while it reads |
| Process table (`core/process.c`, `elf/vma.c`) | one node per pid, with start time and memory maps | find, find_new, remove, cleanup_dead, free table | pid reuse, cleanup from another thread |
| ELF cache (`elf/elf.c`) | objects by build id, reference counts | find_or_create, release, clear | counts |
| Perf rings (`perf/perf.c`) | per-CPU ring shared with the kernel, head and tail | init with LBR fallback, consume, cleanup | wrapping records, back-pressure |
| Main loop, lifecycle (`core/main_loop.c`, `core/system.c`, `main.c`) | start-up order, `stop_profiling` | loop, dispatch, teardown | teardown order, error paths |
| Lookups (`elf/symbol_table.c`, `core/kernel_symbol.c`, `elf/vma.c`, `core/process.c`) | a red-black tree per table | load, search, free | boundaries, equal and nested symbols, freeing while walking |
| Red-black tree (`utils/rbtree.c`) | nodes with parent, children and colour | insert, erase, replace, walks | rebalancing |
| Block cache (`utils/elf_cache.c`) | tree of blocks, LRU list, count | read, prefetch, evict, flush, cleanup | not used by the program |
| HTTP server (`utils/http_server.c`) | server thread | query handler | shares the writer's database handle |
| Configuration, query tool, scripts | | | sequential |

How they interact: **main** drains the perf rings, copies each sample into a
chunk of the sample pool and pushes it to the symbolizer queue; when idle it
frees cached dead processes. The **symbolizer** pops a sample, resolves it
with the process table and the ELF cache, copies the stack into a chunk of the
entry pool, collects entries in a static buffer, hands them to the database
queue in batches, and returns the sample's chunk. The **writer** pops
batches, writes each in a transaction, and returns the chunks. The **HTTP**
thread reads through the writer's connection.

What makes each part correct: the queue is a FIFO that forgets no sleeper; a
pool chunk has one owner and none is lost; an accepted entry ends up in exactly
one place, in the file of its hour; a cached process is never confused with
another one under the same pid and never used after it was freed; a record of
the kernel is read once, in order and whole; a tree is red-black, ordered and
found complete by every walk, and a search finds what a search of all rows
finds; end to end, samples come out once and in the order they went in.

## 2. Modules

| Module | Models | Role |
|---|---|---|
| `BoundedFifo` | what `include/concurrent_queue.h` promises | abstract specification |
| `ConcurrentQueue` | `utils/concurrent_queue.c` | implements `BoundedFifo` |
| `ConcurrentQueueProofs` | | its theorems |
| `MemPool`, `MemPoolProofs` | `utils/mempool.c` | and its theorems |
| `DbWriter`, `DbWriterProofs` | `utils/database.c` | uses `BoundedFifo` for its queue; its theorems |
| `Symbolizer`, `SymbolizerProofs` | `core/handler.c`, `core/process.c`, `elf/elf.c`, `elf/vma.c` | and its theorems |
| `Capture`, `CaptureProofs` | `perf/perf.c`, `core/main_loop.c`, `parse_sample_data` of `core/handler.c` | from the kernel's ring to the symbolizer's queue, a `BoundedFifo`; its theorems |
| `RbTree`, `RbTreeProofs` | `utils/rbtree.c` | used by the next two; lemmas and theorem about its operators |
| `SymbolTrees` | `core/kernel_symbol.c`, `elf/symbol_table.c`, the trees of `elf/elf.c`, `elf/vma.c`, `core/process.c` | extends `RbTree` |
| `BlockCache` | `utils/elf_cache.c` | extends `RbTree` |
| `Trees`, `TreesProofs` | | the tree with each of its users; its theorems |
| `Pipeline`, `PipelineProofs` | `main.c`, `core/system.c`, `utils/http_server.c` and the threads | composes main, symbolizer, writer and HTTP thread over two `BoundedFifo`s; its theorems |
| `MC_*` | | instances for TLC |

`PROJECT.json` maps every definition to its lines. Operators introduced by a
comment `Mutant:` are deliberately wrong variants of a definition; no
specification uses them. They show that the property they are paired with in
`PROJECT.json` depends on that line of the code.

**ConcurrentQueue.** All fields are accessed under the mutex, so the code
between two releases of the mutex (unlock, `pthread_cond_wait`) is one action.
`waitFull` and `waitEmpty` are the sleepers of the two condition variables. A
signal removes an arbitrary sleeper; a woken thread tests its condition again
when it next gets the mutex; sleepers may wake spuriously. Items are numbered
in the order in which the callers obtained them.

**MemPool.** Allocation and release are one action while the lock is held; the
`malloc` and `free` fallbacks happen later, in a second action. `out` is the
set of chunks the program holds, `heap` what the C library considers
allocated, `badFree` records a `free` of something that is not. Stale pointers
in slots at `count` and above are kept, because `mempool_destroy` reads them.

**DbWriter.** The queue is an instance of `BoundedFifo`, which the proofs
justify. The writer is a program counter over loop test, pop, handle, inserts
and commit. `flushS` and `flushM` are the batches that the symbolizer's and
main's call of `db_writer_flush` are pushing: both read the same unlocked
buffer. `db_writer_push_stack` tests `running` in one step and appends in the
next. SQLite is external and modelled by the facts listed at the head of the
module: closing a connection with an open statement fails, a statement writes
through the connection that prepared it, COMMIT without a transaction does
nothing, an open write transaction locks out other connections, and each of
BEGIN, INSERT and COMMIT can fail. The code acts on none of these failures:
after a failed BEGIN every row is committed on its own (`bare`), a failed INSERT
loses its row or the whole transaction, after a failed COMMIT the rows are rolled
back or stay in a transaction (`txn`, `pend`) that the next batch writes into. The
discard paths call `free` on a pointer into the middle of a chunk; the outcome
is a choice between abort and carrying on. `quiet` says whether the caller of
`db_writer_stop` makes sure that the symbolizer is not inside
`db_writer_push_stack`. Nothing in `database.c` does; without it one buffer is
flushed twice, so the properties about single entries assume it; the right file
of a row and termination do not. Left out: the latency histograms, the split of the
stack string into columns, and failures of `pthread_create` (`Pipeline` has
them).

**Symbolizer.** A process instance is numbered by birth, and that number is
its start time. The kernel starts and ends processes between any two steps.
`find_new_process` is split where it reads `/proc` (start time, liveness,
maps), because the process can change in between. `get_process_start_time`
answers 0 when `stat` cannot be opened, and also for a live process whose name
has a space, which its `fscanf` format does not get past; maps can be refused for
want of permission or memory. An address is a kernel or a user address, and which
mapping a user address falls in is an arbitrary choice. One chain of the hash
table stands for all. The symbolizer searches it, inserts and removes; the main
thread sweeps it in `cleanup_dead_processes`; both go from node to node, one read
or write of a link at a time, since there is no lock. Freed nodes are remembered
(`removed`, `swept`). A step that would read or write one has no defined outcome:
it sets `wild` and ends the behaviour, so the other properties are about what
happens before any use of freed memory. Left out: the text of names, the display
buffer, the leak of strings when a node is given up.

**Capture.** Memory is counted in words of 8 bytes, the kernel's alignment;
word k of record r is `<<r, k>>`, so that any mix-up of words is visible in
`ips`. The kernel writes a record of any allowed shape, sample or other, into
the free part of any ring at any time. The consumer's steps are: read
`data_head`; pass one record (copying it through `temp_buf` if it wraps, or
skipping it if it does not fit); parse it into a chunk or drop it for want of
memory; push it, blocking; store `data_tail`. Initialisation opens and maps one
event per CPU; the LBR retry works on the manager it has freed, which may crash
or go on, and leaves `use_lbr` set. `StacksFaithful` and `ManagerLifetime` are
stated for events opened in the mode the parser uses; what happens after a
refusal has two configurations of its own.

**RbTree, SymbolTrees, BlockCache, Trees.** `t` is the memory of the tree:
parents, children, colours. One turn of a rebalancing loop is one action, so
the comments of the loops ("node is red", "one lower") are invariants that can
be checked between turns. The code writes each case for the left and for the
right side; the model has one case with a side. Erased nodes are cleared, since
their memory is the caller's again. A tree has one user, chosen at the start:
the kernel symbols (equal addresses: first one kept), the symbols of an ELF file
(any ranges in any order), the map of a process (any ranges, because the rest of
a line that `fgets` cut is parsed like a line, and empty ones), the block cache, or a caller who
does anything `rbtree.h` allows. Bytes of the cached file are named by their
position.

**Pipeline.** Start-up is a program counter over the steps of `main`, each of
which can fail; `res` is what has been acquired. After start-up main
dispatches numbered samples; the symbolizer and the writer pass them on; the
HTTP thread reads `context->db` without a lock and prepares a statement on it.
SQLite again: a connection with a prepared statement is not closed; preparing
on a closed connection, or one read from a freed context, fails or crashes the
process. How records become samples, what happens inside a stack and which rows
of a batch survive are the subject of the other modules: here a batch the writer
finished is processed. `stop_profiling` is set by the handler and read by
nobody, so main never leaves its loop, and the code behind it is no action.

## 3. Runs

| Run | Result | Shows |
|---|---|---|
| `queue` | holds | the ring implements `BoundedFifo`; no lost wakeups; shutdown wakes everybody; pushes return, what is stored is taken |
| `queue_batch_too_long` | violated | a batch longer than the queue blocks for ever |
| `mempool` | holds | single ownership, no leak, clean destroy when everything came back |
| `db_writer` | holds | every entry in exactly one place, right file, in order, no use after free, only the last flush can be thrown away, whichever call of SQLite fails; stop and wait terminate; queued entries are committed, unless a call of SQLite fails or the hours change |
| `db_writer_stop` | violated | entries flushed by `db_writer_stop` can be lost |
| `db_writer_rotate` | violated | rows of a batch that crosses the hour are lost |
| `symbolizer` | holds | no frame lost, nothing used that the symbolizer itself freed, pid reuse detected where a start time was read, one node per pid although the sweep works on the same chain |
| `symbolizer_race` | violated | the sweep and the symbolizer use what the other one freed |
| `capture` | holds | stacks as the kernel recorded them, records passed once and in order, one fate for each, descriptors and maps released, everything is read in the end |
| `trees` | holds | red-black rules and loop invariants, walks, the owners' books, lookups, reads through the cache |
| `pipeline` | holds | samples in order and once through all stages, samples are processed, a failed start-up ends with everything released but the HTTP server, and the writer if its thread was not created |
| `pipeline_stop` | violated | a signal does not end the program |

The violated runs each check one statement of a header or comment; the
`findings` of `PROJECT.json` quote it. Five more configurations are kept for
statements of the same kind, which TLC refutes as well; they are no runs of
`PROJECT.json`:

| Configuration | Property | The code says | TLC shows |
|---|---|---|---|
| `MC_SymbolizerReuse.cfg` | `StartTimeReliable` | the start time is a reliable means to tell reused pids apart (`process.c:40`) | two processes whose start times both read as 0 are taken for one |
| `MC_SymbolizerRefs.cfg` | `ReferencesReleased` | `free_vma_tree` releases the ELF references (`process.c:245`) | a count stays above the number of mappings |
| `MC_CaptureFallback.cfg` | `ManagerAfterFallback` | after a refusal of LBR sampling goes on as usual (`perf.c:197`) | the main loop has a manager that was freed |
| `MC_CaptureStacks.cfg` | `StacksAfterFallback` | the same | call chains are parsed as branch entries |
| `MC_PipelineHttp.cfg` | `QueryAtWorstFails` | at worst a query fails on a handle that was just closed (`database.c:560`) | the statement is prepared on freed memory |

**Bounds.** Queue: capacity 2 with batches up to 2, two producers, two
consumers and four items reach a full and an empty queue, every wrap-around
offset, batches that straddle the end, and two sleepers of different needs.
The proofs remove these bounds. Pool: three preallocated chunks and five blocks
reach both fallbacks with two threads, as many as each pool has in the
program. Writer: a configured batch of 3 against a
physical limit of 2, a queue of 4, popped batches of up to 3, two hours, five
entries and one fault: the last flush finds the queue too full, a popped batch mixes
two flushes and two hours, an hour comes back after its connection was
leaked, and main and the symbolizer flush at once. Two batches have to fit into
the queue: with less room `db_writer_stop` can block for good behind the
symbolizer's flush of the same buffer. Symbolizer: two pids, two
births, three nodes, stacks of one frame and each filter mode: both pids are in
the chain, or one is reused; a node is taken out at the head or further on, by the
sweep and by a removal, while the other thread is at any node. A removal needs no
reuse, because a start time may read as 0. Longer stacks, a full buffer and more
births are covered by the proofs. Capture: two CPUs, a
ring of 16 words, a `temp_buf` of 8, and three records of 7 to 15 words in both
modes: records wrap, do not fit into `temp_buf`, have more frames than the
sample has room for, and the queue of one blocks the reader. Trees: ten nodes
are enough for erasures whose loop runs twice and for every case at both sides;
five rows over four addresses give equal, nested, touching and disjoint ranges;
a file of nine bytes in blocks of two, three of them cached, gives a short last
block and reads over evictions. Pipeline: queues of two and three, flushes of
two, batches of three, eight samples (both queues
are full at once while the writer holds a batch), three connections. `MaxItems`, `MaxEntries`, `MaxFaults`, `MaxBirths`, `MaxNodes`, `MaxDepth`,
`MaxChunks`, `MaxRecords`, `MaxRows`, `MaxRead`, `MaxSamples` and `MaxConns` are
bounds of the model only; the rest are parameters of the code.

**Deadlock** is checked for the queue and the trees. It is switched off where the
system may stop: a destroyed pool, a destroyed writer, an aborted or exited
process, a symbolizer that used freed memory, a kernel that writes no more records.

**Fairness.** `queue`: each thread that is inside a queue call and can
proceed does so, and consumers keep calling; mutexes and the scheduler of the
C library give this, and the program's consumers are loops around a pop.
Producers need not call. `StoredIsTaken` is about the last item of a run, which
no later push can rescue. `db_writer`: the writer, a push that began, a
flush that has room, and main after it began to stop make progress; nobody has to push or to stop.
`capture`: the main thread and the symbolizer run; the kernel need not write.
`pipeline`: each of the four threads runs when it can; samples, signals and
requests need not come. No run assumes strong fairness.

## 4. Proofs

All theorems hold for every value of the constants; TLC evaluates the
assumptions (`QueueAssumption`, `PoolAssumption`, ...) in its runs.

**ConcurrentQueueProofs.** `TypeCorrect` needs to know which calls a thread
can be in (`CallOK`) and that only a thread inside a matching call sleeps
(`SleepOK`). `ShutdownReleases` is inductive with them.
`NoConsumerForgotten` counts: whenever a consumer sleeps, each stored item has
an awake consumer; each push adds one item and wakes one sleeper or finds
none, a batch wakes all. `NoProducerForgotten` assumes
`PushBatchMax <= Capacity`: with an empty queue a fitting batch does not
sleep, and the last pop signals. `QueueImplementsFifo` maps the ring to the
sequence of its `size` oldest items; it rests on `RingOK` (tail is head plus
size, round the ring) and on lemmas about `Wrap`, `Offset`, `Stored` and
`Oldest`.

**MemPoolProofs.** The invariant `PoolInv` joins the type, what each thread is
about to do, single ownership, completeness (`NothingLeaks`) and
`EnoughChunks`: if every block the program ever held came back, the pool is
full again, which is what makes destroying it clean.

**PipelineProofs.** `PipeInv` says, besides the types, what is still empty
while the symbolizer thread does not exist (`Starting`), that a writer whose
thread could not be created lets nothing past the symbolizer (`NoWriter`), and
that each thread holds at most one sample (`InHand`). With them
`StagesInOrder`, the stages one after the other are `1..dispatched`, is
inductive: a step moves samples from the end of one stage to the beginning of
the next, and the lemmas about concatenation and cutting show that the whole
does not change. `PoolSuffices` follows from `InHand` and the capacity.

**DbWriterProofs.** `DbInv` has a part per concern. `Sane` bounds the buffers
and says when a statement exists. `FileInv` ties a statement to its file: an
open handle belongs to `current_db_path`, a statement that owns its connection
writes to that file, and a row is inserted only after the handle was checked
against its hour. `StopInv` relates the places of main and of the writer to
`running` and to the queue's shutdown, and says that after a quiet stop the
last flush is all that is left behind. A transaction that COMMIT left open holds rows
of the file that is open, and `bare` rows are the only ones without that tie.
`OrderInv` says that entries do not
overtake each other: everything finished is older than the batch, the batch is
older than the queue, the queue older than the producer buffer. The order is
what makes `ExactlyOnePlace` inductive: two places that an entry could be in
are an older and a younger one. It also gives the order of rows in
`FilesRight` and, with the chunks freed counted as finished,
`NoUseAfterFree`.

**SymbolizerProofs.** Nothing is assumed about the sweep: it may be anywhere in
the chain at any time. `Placed` says which pointers are set at each position and
that every link leads to a node that was allocated, so that the next one to be
allocated was never freed; with it `OwnFreesUnused` is inductive. `Counted` says
that names written plus frames still to come are the frames that passed the
filter. `Ages` carries the argument about reuse: births are numbered,
`find_new_process` reads the start time before the maps, so a node's start time
is never above the birth its maps belong to, and nobody who runs under the pid
later is older than either. `Owner` ties the node in use to the pid of the sample
as long as it is not freed. `ReuseNoticed` proves the part of `ReuseDetected`
that is about the comparison before each frame. The other part, that the lookup
after a removal does not come back with the old node, and `OneNodePerPid` need
the shape of the whole chain under two threads that change it; they are checked
by TLC.

**CaptureProofs.** The ring is the difficult part. Positions are counted without
end, as `data_head` and `data_tail` are; `Word(c, p)` is what position p of
ring c holds. `Layout` says that the positions from `data_tail` to
`data_head`, less than a ring apart, are covered by whole records: a word
numbered 0 starts one, and the words after it are its own as far as its size
goes. `Reading` gives the position that `cur` stands for and says that it and
the head that was loaded are where records start or end, whatever the kernel
adds behind it. So the header that the reader finds is one, `hdr->size` leads
to the next, and the walk stops exactly at the head: `More` is false there and
nowhere before. That a write of the kernel leaves the unread words alone, and
that a record that wraps is read in order, comes down to a few lemmas about
remainders (`ModApart`, `ModDist`, `ModAdd`). `InOrder` relates the records
that were passed, the ones ahead of the reader and the ones written; from it
follows `RingInOrder`. `Distinct` (no record number is used twice) shows that
the record at the reader's position was never passed before, and so has no
fate yet; `Fates` follows each fate from the sample through the queue to the
symbolizer. For `StacksFaithful` the lemma `Parsed` computes what
`parse_sample_data` returns for a whole record; a write of the kernel does not
change the shape of an older record. `AtIndices` is a recursive function; that
it yields a sequence is proved by induction over its index, with a set of
numbers in place of a predicate (`SetInduction`, from the well-foundedness of
`<`). `RingInOrder` states the order of the unread records through the set of
their positions, which says the same as comparing sequences.

**RbTreeProofs.** The operators of `RbTree` that `RedBlack` and `Walks` use
(`BlackCounts`, `InOrder`, the walks, the searches) are recursive functions,
which have values only if the pointers form no cycle, and rotations move
pointers while parents and children are out of step with the colours. The
proofs therefore describe a tree without recursion (`TreeState`): some `S` gives
the nodes of each subtree, some `pos` a position for each node, some `h` the
black height of each subtree, and every condition is about a node and its
neighbours (`Shape`, `Balanced`). `Links` says that parent and child pointers
agree. `LoopState` has the invariant of the loop that runs: `rb_insert_color`
may have a red `node` below a red parent, `__rb_erase_color` may have one
black node too few on the paths through `node`; a tree at rest has neither.
`RebalanceKeeps` says that each turn of a loop keeps all this with the same
nodes and the same `pos`: rotations change `S` and `h`, never the order. It has
a part for each of the three cases of inserting and the four of erasing, at
both sides. Linking, erasing and replacing a node have lemmas of the same kind
(`LinkKeeps`, `EraseKeeps`, `ReplaceKeeps`); an erase of a node with two
children is shown to be the same as splicing out its successor and then putting
that in its place (`TwoIsSpliceAndReplace`). That a recursive
function computes what it should follows by well-founded induction over the
subtrees `S`, with a set of nodes in place of a predicate. The walks come down
to one fact: `rb_next` returns the node with the least greater `pos`.

**TreesProofs.** `TreesInv` says that there are an `S`, a `pos` and an `h` that
put the tree in a `TreeState` and suit its owner. For the trees of symbols and
mappings (`SymbolInv`) the nodes in the tree are the ones allocated, keys do
not fall along `pos` (they may be equal: symbols of an ELF file share
addresses), and a loop that frees the nodes holds the first of those left; this
is what shows that the successor, taken before the node is erased, is still a
node. `RowsHeld` says which rows the tree has: all, or the first of each
address for the kernel, whose `insert_symbol` refuses a second one.
`LookupsCorrect` follows from the order: a search turns away only from a side
where no node has the address, or where each node that has it is obstructed by
one nested in it. For the block cache
(`CacheInv`) tree, list and memory have the same blocks (`BlocksHeld`);
a call that runs has copied the bytes from its start on and has the rest left
(`CallHeld`), from which `ReadFaithful` follows when nothing is left; and the
list is the order of use, least recent first, but for a block that was just
loaded, which is at its end and not copied from yet (`UsedHeld`). `Recently` and
`Fresh` are the strengthening that `OwnerConsistent` needs to be inductive: it
speaks of the set of blocks used last, and that this set stays right when the
head of the list is evicted follows only from the order of the whole list.
`MaxRows` bounds the model and `MaxBlocks` is `MAX_CACHE_BLOCKS`; the theorems
hold for any values of them up to `NumNodes`.

The invariants `PipeInv`, `DbInv`, `Inv` of `SymbolizerProofs` and `CapInv` were
checked by TLC before they were proved, on the instance of the run, except `DbInv`
(five entries and two faults) and `Inv` (one pid, three births, stacks of two). `TreesInv` quantifies over
functions into sets of nodes and is not something TLC can evaluate.

Only model-checked: the liveness properties (`PushReturns`, `StoredIsTaken`,
`StopTerminates`, `QueuedIsSettled`, `RecordIsRead`, `SampleProcessed`,
`FailedStartEnds`), because the prover does not handle fairness; `OneNodePerPid`,
and `ReuseDetected` for the lookup after a removal. Every other invariant of a
passing run has a theorem.

## 5. Not modelled, and the plan

The plan is done: what it named is modelled, and its invariants are proved.

Not modelled:

- **Code that nothing reaches.** What follows `main_loop` in `main`
  (`http_server_stop`, the second `cleanup_system`, the regular stop of the
  writer): the loop never ends. `cache_cleanup` and the ELF manager of
  `utils/elf_cache.c`: no entry is ever added, and `cache_cleanup` would free
  each block twice. `release_elf_by_ptr`, the augmented and RCU variants of the
  tree: no caller.
- **Error handling of a batch in `Pipeline`.** It is in `DbWriter`; here the
  open of a new file succeeds.
- **A destroyed pool with chunks out.** `MemPool` has it, and its slots above
  `count` are then stale; in the program `mempool_destroy` is reached only before
  the first allocation, so no property is stated about it.
- **Input and text.** Command line parsing (`config/config.c`), the query tool
  and the shell scripts are sequential text processing; libelf, SQLite and
  libmicrohttpd are external; `flamegraph.pl` is third party. The names in a
  stack, SQL and JSON text, latency histograms are left out.
- **Records shorter than the configured `sample_type`.** The kernel writes none;
  `parse_sample_data` would keep an old time stamp for one.
