------------------------------ MODULE DbWriter ------------------------------
(***************************************************************************)
(* src/utils/database.c: stacks become database rows.                      *)
(*                                                                         *)
(* The symbolizer thread calls db_writer_push_stack, which collects        *)
(* entries in a static buffer and hands them over in batches.  The writer  *)
(* thread pops batches, keeps the SQLite file of the entry's hour open,    *)
(* and writes each batch in one transaction.  The main thread stops and    *)
(* joins the writer (db_writer_stop, db_writer_wait).                      *)
(*                                                                         *)
(* The queue between them is BoundedFifo, which ConcurrentQueue implements.*)
(* SQLite is external; what the code relies on is modelled so:             *)
(*  - sqlite3_close on a connection whose statement is not finalized       *)
(*    returns SQLITE_BUSY and the connection stays open (the code ignores  *)
(*    the result and drops its pointer: nobody can reach it any more);     *)
(*  - a statement writes through the connection that prepared it;          *)
(*  - rows are visible to others only after a COMMIT on that connection,   *)
(*    and COMMIT on a connection with no transaction does nothing;         *)
(*  - a transaction that wrote a row keeps every other connection to the   *)
(*    same file from writing (INSERT answers SQLITE_BUSY);                 *)
(*  - BEGIN, INSERT and COMMIT can fail (a full disk, an I/O error, a busy *)
(*    file), and the code does not act on any of these results: without a  *)
(*    transaction every row is committed on its own, a failed INSERT loses *)
(*    its row or rolls the transaction back, a failed COMMIT rolls it back *)
(*    or leaves it open, and a BEGIN in an open transaction changes nothing;*)
(*  - closing a connection rolls its transaction back.                     *)
(***************************************************************************)
EXTENDS Naturals, Sequences, FiniteSets, Functions

CONSTANTS ProducerBatch,     \* config->producer_batch_size
          MaxProducerBatch,  \* MAX_PRODUCER_BATCH_SIZE
          BatchSize,         \* config->db_batch_size
          QueueCapacity,     \* QUEUE_CAPACITY
          Hour,              \* the hours that timestamps fall in
          NoHour,            \* no file: an empty path, a NULL handle
          MaxEntries,        \* bound on the entries pushed
          MaxFaults          \* bound on failing calls of SQLite

ASSUME DbAssumption ==
    /\ ProducerBatch \in Nat
    /\ MaxProducerBatch \in Nat \ {0}
    /\ BatchSize \in Nat \ {0}
    /\ QueueCapacity \in Nat \ {0}
    /\ MaxEntries \in Nat
    /\ MaxFaults \in Nat
    /\ NoHour \notin Hour

VARIABLES
    fifo, closed, got, dropped,  \* context->queue; got["writer"] is batch
    running,                     \* context->running
    inPush,                      \* db_writer_push_stack has seen it
    pbuf,                        \* producer_batch_buffer[0..count-1]
    flushS, flushM,              \* what the symbolizer's and main's call of
                                 \* db_writer_flush hands to queue_push_batch
    pcW, pcM,                    \* the writer and main threads
    hour, pushed,                \* the hour of each entry; entries so far
    path, db,                    \* current_db_path and context->db
    stmt,                        \* file: where stmt writes; own: through
                                 \* context->db, not a leaked connection
    i, pend,                     \* position in the batch, uncommitted rows
    txn, bare,                   \* a transaction is open; the rows that were
                                 \* written without one
    table,                       \* committed rows of each file
    locked,                      \* files a leaked connection keeps locked
    stuck, rejected, discarded,  \* entries lost in a leaked transaction, by
                                 \* a failed INSERT or a rollback, by an
                                 \* error path
    drained,                     \* entries db_writer_wait threw away
    lastFlush,                   \* entries that db_writer_stop flushed
    freed,                       \* entries whose chunk went back to the pool
    quiet,                       \* db_writer_stop is called only while no
                                 \* other thread is inside db_writer_push_stack
    faults, aborted

queueVars == <<fifo, closed, got, dropped>>
fileVars  == <<path, db, stmt, i, pend, txn, bare, table, locked, stuck, rejected>>
mainVars  == <<pcM, flushM, drained, lastFlush>>
vars == <<queueVars, running, pbuf, flushS, inPush, pcW, hour, pushed,
          fileVars, discarded, mainVars, freed, quiet, faults, aborted>>

Entry  == 1..MaxEntries
NoStmt == [file |-> NoHour, own |-> FALSE]
batch  == got["writer"]

Q == INSTANCE BoundedFifo
       WITH Item <- Entry, Consumer <- {"writer", "main"},
            Capacity <- QueueCapacity

Init == /\ Q!FInit
        /\ running = TRUE
        /\ pbuf = <<>>
        /\ flushS = <<>> /\ flushM = <<>> /\ inPush = FALSE
        /\ pcW = "loop" /\ pcM = "run"
        /\ hour = [e \in Entry |-> NoHour] /\ pushed = 0
        /\ path = NoHour /\ db = NoHour
        /\ stmt = NoStmt /\ i = 0 /\ pend = <<>>
        /\ txn = FALSE /\ bare = {}
        /\ table = [h \in Hour |-> <<>>]
        /\ locked = {} /\ stuck = {} /\ rejected = {} /\ discarded = {}
        /\ drained = {} /\ lastFlush = {} /\ freed = {}
        /\ quiet \in BOOLEAN /\ faults = 0 /\ aborted = FALSE

----------------------------------------------------------------------------
(* The symbolizer: db_writer_push_stack and db_writer_flush.               *)

\* Mutant: the physical limit is not applied to the threshold.
unlimited_threshold == IF ProducerBatch = 0 THEN MaxProducerBatch ELSE ProducerBatch

flush_threshold ==
    IF ProducerBatch = 0 \/ ProducerBatch > MaxProducerBatch
    THEN MaxProducerBatch
    ELSE ProducerBatch

\* if (!context->running) return
db_writer_push_stack ==
    /\ ~inPush /\ flushS = <<>> /\ running
    /\ pushed < MaxEntries
    /\ inPush' = TRUE
    /\ UNCHANGED <<queueVars, running, pbuf, flushS, pcW, hour, pushed, fileVars,
                   discarded, mainVars, freed, faults, aborted>>

\* The entry is built and put into the buffer ...
AppendEntry(h) ==
    /\ inPush /\ inPush' = FALSE
    /\ pushed' = pushed + 1
    /\ hour' = [hour EXCEPT ![pushed + 1] = h]
    /\ pbuf' = Append(pbuf, pushed + 1)
    /\ flushS' = IF Len(pbuf) + 1 >= flush_threshold THEN pbuf' ELSE <<>>
    /\ UNCHANGED <<queueVars, running, pcW, fileVars, discarded, mainVars,
                   freed, faults, aborted>>

\* ... or there is no memory for it.
NoEntry ==
    /\ inPush /\ inPush' = FALSE
    /\ UNCHANGED <<queueVars, running, pbuf, flushS, pcW, hour, pushed, fileVars,
                   discarded, mainVars, freed, faults, aborted>>

\* Mutant: the buffer is not emptied after it was handed over.
flush_keeps_buffer(s) == /\ Q!Put(s) \/ Q!Refuse(Range(s))
                         /\ UNCHANGED pbuf

\* queue_push_batch blocks until there is room for s; the buffer is emptied
\* whether or not the queue took the entries.
db_writer_flush(s) == /\ Q!Put(s) \/ Q!Refuse(Range(s))
                      /\ pbuf' = <<>>

SymbolizerFlush ==
    /\ flushS # <<>>
    /\ db_writer_flush(flushS)
    /\ flushS' = <<>>
    /\ UNCHANGED <<running, inPush, pcW, hour, pushed, fileVars, discarded, mainVars,
                   freed, faults, aborted>>

----------------------------------------------------------------------------
(* The writer thread.                                                      *)

\* Mutant: the loop stops with running, whatever is queued.
loop_ignores_queue ==
    /\ pcW = "loop"
    /\ pcW' = IF running THEN "pop" ELSE "done"
    /\ UNCHANGED <<queueVars, running, pbuf, flushS, inPush, hour, pushed, fileVars,
                   discarded, mainVars, freed, faults, aborted>>

\* while (context->running || queue_get_size(context->queue) > 0)
WriterLoop ==
    /\ pcW = "loop"
    /\ pcW' = IF running \/ fifo # <<>> THEN "pop" ELSE "done"
    /\ UNCHANGED <<queueVars, running, pbuf, flushS, inPush, hour, pushed, fileVars,
                   discarded, mainVars, freed, faults, aborted>>

WriterPop ==
    /\ pcW = "pop"
    /\ \/ /\ Q!Take("writer", IF Len(fifo) < BatchSize THEN Len(fifo)
                                                      ELSE BatchSize)
          /\ pcW' = "handle"
       \/ /\ Q!TakeNothing("writer")
          /\ pcW' = IF running THEN "loop" ELSE "done"
    /\ UNCHANGED <<running, pbuf, flushS, inPush, hour, pushed, fileVars, discarded,
                   mainVars, freed, faults, aborted>>

\* Mutant: the file that is open is kept, whatever the hour.
EnsureOk_keeps_file(h) ==
    \/ db # NoHour /\ UNCHANGED <<path, db>>
    \/ db = NoHour /\ path # h /\ path' = h /\ db' = h

\* ensure_db_handle returns 0: the right file is open, or it is opened now.
EnsureOk(h) ==
    \/ path = h /\ db # NoHour /\ UNCHANGED <<path, db>>
    \/ path # h /\ path' = h /\ db' = h

\* ensure_db_handle returns -1: opening fails now, or failed before for this
\* hour (current_db_path already names it, so it is not tried again).
EnsureFails(h) ==
    \/ /\ path = h /\ db = NoHour
       /\ UNCHANGED <<path, db, faults>>
    \/ /\ path # h
       /\ faults < MaxFaults /\ faults' = faults + 1
       /\ path' = h /\ db' = NoHour

\* The error paths free() a pointer into the middle of a chunk.  The C
\* library aborts the process, or corrupts its heap and goes on.
Discard(E) ==
    /\ discarded' = discarded \union E
    /\ \/ aborted' = TRUE /\ UNCHANGED pcW
       \/ pcW' = "loop" /\ UNCHANGED aborted

\* The transaction of the writer's connection ends without its rows, and with
\* it the entries E.
RollBack(E) == /\ rejected' = rejected \union Range(pend) \union E
               /\ pend' = <<>> /\ txn' = FALSE

Fault == faults < MaxFaults /\ faults' = faults + 1

\* Before a batch there is no statement, so switching files closes the old
\* connection: what an earlier COMMIT left open there is rolled back.
CloseOld == IF path' = path
            THEN UNCHANGED <<pend, rejected>>
            ELSE pend' = <<>> /\ rejected' = rejected \union Range(pend)

StillOpen == txn /\ path' = path

\* The handle for the batch's first entry cannot be had, or the INSERT
\* cannot be prepared: the whole batch is discarded.
BatchDiscarded ==
    /\ pcW = "handle"
    /\ \/ EnsureFails(hour[batch[1]])
       \/ EnsureOk(hour[batch[1]]) /\ Fault
    /\ CloseOld /\ txn' = StillOpen
    /\ Discard(Range(batch))
    /\ UNCHANGED <<queueVars, running, pbuf, flushS, inPush, hour, pushed, stmt, i,
                   bare, table, locked, stuck, mainVars, freed>>

\* Mutant: the batch goes back to the pool as soon as it is popped.
begin_frees_batch ==
    /\ pcW = "handle"
    /\ EnsureOk(hour[batch[1]])
    /\ CloseOld
    /\ stmt' = [file |-> db', own |-> TRUE]
    /\ txn' = TRUE
    /\ i' = 1 /\ pcW' = "insert"
    /\ freed' = freed \union Range(batch)
    /\ UNCHANGED <<queueVars, running, pbuf, flushS, inPush, hour, pushed, bare, table,
                   locked, stuck, discarded, mainVars, faults, aborted>>

\* Prepare the INSERT and BEGIN, whose result is ignored: it works, there is a
\* transaction already, or it fails.
BeginBatch ==
    /\ pcW = "handle"
    /\ EnsureOk(hour[batch[1]])
    /\ CloseOld
    /\ stmt' = [file |-> db', own |-> TRUE]
    /\ \/ txn' = TRUE /\ UNCHANGED faults
       \/ Fault /\ txn' = StillOpen
    /\ i' = 1 /\ pcW' = "insert"
    /\ UNCHANGED <<queueVars, running, pbuf, flushS, inPush, hour, pushed, bare, table,
                   locked, stuck, discarded, mainVars, freed, aborted>>

\* Switching files in the middle of a batch cannot close the connection that
\* stmt belongs to: stmt goes on writing to the old file.
Rotated == [stmt EXCEPT !.own = stmt.own /\ path' = path]

\* sqlite3_step for the row of e: it joins the transaction, or is committed
\* at once without one; a leaked connection has the file locked; it fails;
\* or it fails and takes the transaction with it.
Step(e) ==
    \/ /\ stmt.file \notin locked /\ txn
       /\ pend' = Append(pend, e)
       /\ UNCHANGED <<txn, bare, table, rejected, faults>>
    \/ /\ stmt.file \notin locked /\ ~txn
       /\ table' = [table EXCEPT ![stmt.file] = Append(@, e)]
       /\ bare' = bare \union {e}
       /\ UNCHANGED <<pend, txn, rejected, faults>>
    \/ /\ \/ stmt.file \in locked /\ UNCHANGED faults
          \/ Fault
       /\ rejected' = rejected \union {e}
       /\ UNCHANGED <<pend, txn, bare, table>>
    \/ /\ txn /\ Fault
       /\ RollBack({e})
       /\ UNCHANGED <<bare, table>>

InsertRow ==
    /\ pcW = "insert" /\ i <= Len(batch)
    /\ EnsureOk(hour[batch[i]])
    /\ stmt' = Rotated
    /\ Step(batch[i])
    /\ i' = i + 1
    /\ UNCHANGED <<queueVars, running, pbuf, flushS, inPush, pcW, hour, pushed, locked,
                   stuck, discarded, mainVars, freed, aborted>>

\* The transaction of a leaked connection stays open.
LeaveUncommitted ==
    /\ stuck' = stuck \union Range(pend)
    /\ locked' = IF pend = <<>> THEN locked ELSE locked \union {stmt.file}
    /\ pend' = <<>> /\ txn' = FALSE
    /\ UNCHANGED <<table, rejected>>

Finalize == stmt' = NoStmt /\ i' = 0

\* The file of a later entry cannot be opened: COMMIT goes to a NULL handle,
\* the rest is discarded, count = 0 skips COMMIT and mempool_free.
MidBatchFails ==
    /\ pcW = "insert" /\ i <= Len(batch)
    /\ EnsureFails(hour[batch[i]])
    /\ Discard(Range(SubSeq(batch, i, Len(batch))))
    /\ LeaveUncommitted
    /\ Finalize
    /\ UNCHANGED <<queueVars, running, pbuf, flushS, inPush, hour, pushed, bare,
                   mainVars, freed>>

\* COMMIT on the connection of the statement; its result is ignored.  It
\* works, it fails and rolls back, it fails and leaves the transaction open,
\* or there is none.
Commit ==
    /\ UNCHANGED <<stuck, locked>>
    /\ \/ /\ txn
          /\ table' = [table EXCEPT ![stmt.file] = @ \o pend]
          /\ pend' = <<>> /\ txn' = FALSE
          /\ UNCHANGED <<rejected, faults>>
       \/ txn /\ Fault /\ RollBack({}) /\ UNCHANGED table
       \/ txn /\ Fault /\ UNCHANGED <<pend, txn, table, rejected>>
       \/ ~txn /\ UNCHANGED <<pend, txn, table, rejected, faults>>

\* Mutant: entries go back to the pool, but the transaction is not committed.
commit_forgotten ==
    /\ pcW = "insert" /\ i > Len(batch)
    /\ UNCHANGED <<table, pend, txn, rejected, stuck, locked, faults>>
    /\ Finalize
    /\ freed' = freed \union Range(batch)
    /\ pcW' = "loop"
    /\ UNCHANGED <<queueVars, running, pbuf, flushS, inPush, hour, pushed, path, db,
                   bare, discarded, mainVars, aborted>>

CommitBatch ==
    /\ pcW = "insert" /\ i > Len(batch)
    /\ IF stmt.own THEN Commit ELSE LeaveUncommitted /\ UNCHANGED faults
    /\ Finalize
    /\ freed' = freed \union Range(batch)
    /\ pcW' = "loop"
    /\ UNCHANGED <<queueVars, running, pbuf, flushS, inPush, hour, pushed, path, db,
                   bare, discarded, mainVars, aborted>>

----------------------------------------------------------------------------
(* The main thread: db_writer_stop and db_writer_wait.                     *)

\* context->running = false.
db_writer_stop ==
    /\ pcM = "run"
    /\ quiet => ~inPush /\ flushS = <<>>
    /\ running' = FALSE
    /\ pcM' = "stop"
    /\ UNCHANGED <<queueVars, pbuf, flushS, inPush, pcW, hour, pushed, fileVars,
                   discarded, flushM, drained, lastFlush, freed, faults,
                   aborted>>

\* if (producer_batch_count > 0): the buffer is read without a lock, while
\* the symbolizer's own flush of the same entries may be under way.
StopReads ==
    /\ pcM = "stop"
    /\ flushM' = pbuf
    /\ lastFlush' = Range(pbuf)
    /\ pcM' = IF pbuf = <<>> THEN "shutdown" ELSE "flush"
    /\ UNCHANGED <<queueVars, running, pbuf, flushS, inPush, pcW, hour, pushed, fileVars,
                   discarded, drained, freed, faults, aborted>>

StopFlush ==
    /\ pcM = "flush"
    /\ db_writer_flush(flushM)
    /\ flushM' = <<>>
    /\ pcM' = "shutdown"
    /\ UNCHANGED <<running, flushS, inPush, pcW, hour, pushed, fileVars, discarded,
                   drained, lastFlush, freed, faults, aborted>>

\* Mutant: the queue is not shut down.
stop_without_shutdown ==
    /\ pcM = "shutdown"
    /\ pcM' = "join"
    /\ UNCHANGED <<queueVars, running, pbuf, flushS, inPush, pcW, hour, pushed, fileVars,
                   discarded, drained, flushM, lastFlush, freed, faults, aborted>>

StopShutdown ==
    /\ pcM = "shutdown"
    /\ Q!Close
    /\ pcM' = "join"
    /\ UNCHANGED <<running, pbuf, flushS, inPush, pcW, hour, pushed, fileVars, discarded,
                   drained, flushM, lastFlush, freed, faults, aborted>>

\* pthread_join, then sqlite3_close(context->db).
db_writer_wait ==
    /\ pcM = "join" /\ pcW = "done"
    /\ db' = NoHour
    /\ RollBack({})
    /\ pcM' = "drain"
    /\ UNCHANGED <<queueVars, running, pbuf, flushS, inPush, pcW, hour, pushed, path,
                   stmt, i, bare, table, locked, stuck, discarded, drained, flushM,
                   lastFlush, freed, faults, aborted>>

\* while ((item = queue_pop(context->queue)) != NULL) {}, then the queue, the
\* pool and the context are destroyed.
WaitDrain ==
    /\ pcM = "drain"
    /\ \/ /\ Q!Take("main", 1)
          /\ drained' = drained \union {Head(fifo)}
          /\ UNCHANGED pcM
       \/ /\ Q!TakeNothing("main")
          /\ pcM' = "destroyed"
          /\ UNCHANGED drained
    /\ UNCHANGED <<running, pbuf, flushS, inPush, pcW, hour, pushed, fileVars, discarded,
                   flushM, lastFlush, freed, faults, aborted>>

----------------------------------------------------------------------------

GoOn == (\E h \in Hour : AppendEntry(h)) \/ NoEntry \/ SymbolizerFlush

Pushing == db_writer_push_stack \/ GoOn

Writer == \/ WriterLoop
          \/ WriterPop
          \/ BatchDiscarded
          \/ BeginBatch
          \/ InsertRow
          \/ MidBatchFails
          \/ CommitBatch

Main == StopReads \/ StopFlush \/ StopShutdown \/ db_writer_wait \/ WaitDrain

\* Nothing runs in an aborted process; the caller's habit does not change.
Running(A) == ~aborted /\ A /\ UNCHANGED quiet

Next == Running(Pushing \/ Writer \/ db_writer_stop \/ Main)

Spec == Init /\ [][Next]_vars

\* The writer runs; once main began to stop it goes on; a push that began goes
\* on, and a flush that has room completes.  Nobody has to push or to stop.
FairSpec == /\ Spec
            /\ WF_vars(Running(Writer))
            /\ WF_vars(Running(Main))
            /\ WF_vars(Running(GoOn))

----------------------------------------------------------------------------
(* Properties.                                                             *)

\* Besides the types: the static buffer of MAX_PRODUCER_BATCH_SIZE pointers
\* is never written past its end.
TypeOK ==
    /\ fifo \in Seq(Entry) /\ Len(fifo) <= QueueCapacity
    /\ closed \in BOOLEAN /\ running \in BOOLEAN /\ aborted \in BOOLEAN
    /\ quiet \in BOOLEAN /\ inPush \in BOOLEAN /\ txn \in BOOLEAN
    /\ got \in [{"writer", "main"} -> Seq(Entry)]
    /\ pbuf \in Seq(Entry) /\ Len(pbuf) <= MaxProducerBatch
    /\ flushS \in Seq(Entry) /\ flushM \in Seq(Entry)
    /\ pcW \in {"loop", "pop", "handle", "insert", "done"}
    /\ pcM \in {"run", "stop", "flush", "shutdown", "join", "drain", "destroyed"}
    /\ hour \in [Entry -> Hour \union {NoHour}] /\ pushed \in 0..MaxEntries
    /\ path \in Hour \union {NoHour} /\ db \in Hour \union {NoHour}
    /\ stmt \in [file : Hour \union {NoHour}, own : BOOLEAN]
    /\ i \in 0..(BatchSize + 1) /\ pend \in Seq(Entry)
    /\ table \in [Hour -> Seq(Entry)] /\ locked \subseteq Hour
    /\ bare \subseteq Entry
    /\ stuck \subseteq Entry /\ rejected \subseteq Entry /\ discarded \subseteq Entry
    /\ drained \subseteq Entry /\ dropped \subseteq Entry
    /\ lastFlush \subseteq Entry /\ freed \subseteq Entry
    /\ faults \in 0..MaxFaults

Committed == UNION { Range(table[h]) : h \in Hour }
InBatch   == IF pcW \in {"handle", "insert"} /\ ~aborted
             THEN Range(SubSeq(batch, IF pcW = "handle" THEN 1 ELSE i, Len(batch)))
             ELSE {}

\* The places an entry can be in.
Places == << Range(pbuf), Range(fifo), InBatch, Range(pend), Committed, stuck,
             rejected, discarded, drained, dropped >>

\* Exactly once: every entry that db_writer_push_stack accepted is in exactly
\* one place, through batching, rotation, failing calls of SQLite, error paths
\* and shutdown.  In particular no row is written twice and no entry vanishes
\* unnoticed.  It needs a quiet stop, else one buffer is flushed twice.
ExactlyOnePlace ==
    quiet /\ ~aborted => \A e \in 1..pushed :
        Cardinality({ k \in DOMAIN Places : e \in Places[k] }) = 1

\* Each row that a reader can see is in the file of its own hour, although a
\* batch may span several hours, the statement outlives a file switch and a
\* transaction may outlive its batch; unless it was written without one.  And
\* after a quiet stop the rows of a file are in the order in which they were
\* pushed, once each.
FilesRight ==
    \A h \in Hour :
        /\ \A e \in Range(table[h]) \ bare : hour[e] = h
        /\ quiet => \A k, l \in DOMAIN table[h] :
                       k < l => table[h][k] < table[h][l]

\* No chunk goes back to the pool while its entry can still be read.
NoUseAfterFree ==
    quiet /\ ~aborted => freed \cap (Range(pbuf) \union Range(fifo) \union InBatch) = {}

\* Stopping loses nothing that was queued before: what db_writer_wait throws
\* away was handed over by db_writer_stop's own flush.
OnlyLastFlushDrained == quiet => drained \union dropped \subseteq lastFlush

\* db_writer_stop followed by db_writer_wait terminates, also when the
\* symbolizer is caught inside db_writer_push_stack, as long as two batches
\* fit into the queue.
StopTerminates == (pcM = "stop") ~> (pcM = "destroyed" \/ aborted)

SeveralHours == \E d, e \in 1..pushed : hour[d] # hour[e]

\* Past its batch, but in a transaction that COMMIT failed to end.
Uncommitted == Range(pend) \intersect freed

\* What reached the queue while nobody stops is committed in the end.  Only
\* after a call of SQLite failed can it be discarded, rejected or left in an
\* open transaction of the writer, and only when hours change can it end up
\* in one that nobody reaches, or be kept out by it; a stop never throws it
\* away.
QueuedIsSettled ==
    \A e \in Entry : (e \in Range(fifo) /\ pcM = "run")
                        ~> (\/ e \in Committed
                            \/ aborted
                            \/ faults > 0 /\ e \in discarded \union rejected \union Uncommitted
                            \/ SeveralHours /\ e \in stuck \union rejected)

\* include/database.h on db_writer_stop: the thread exits after it processed
\* all data that is left in the queue.  It fails even when the symbolizer is
\* not inside db_writer_push_stack.
StopWritesEverything ==
    quiet /\ pcM = "destroyed" => \A e \in 1..pushed : e \in Committed

\* The comment at the second ensure_db_handle: a batch that crosses the hour
\* is handled, the transaction is committed.
RotationKeepsRows == stuck = {} /\ rejected = {}
=============================================================================
