------------------------------ MODULE Pipeline ------------------------------
(***************************************************************************)
(* The whole program (main.c): start-up, its error paths, and the threads  *)
(* that run until the process ends.                                        *)
(*                                                                         *)
(*   main loop -> symbolizer_queue -> symbolizer -> database queue -> writer *)
(*   HTTP thread -> the writer's database connection                       *)
(*                                                                         *)
(* Samples are numbered in the order in which main dispatches them.  The   *)
(* queues are BoundedFifo.  What happens to a record before it is          *)
(* dispatched, inside symbolize_sample, and to the rows of a batch, is the *)
(* subject of Capture, Symbolizer and DbWriter; here a batch that the      *)
(* writer finished is processed.  main_loop never returns, so the clean-up *)
(* that follows it in main is not an action.                               *)
(***************************************************************************)
EXTENDS Naturals, Sequences, FiniteSets

CONSTANTS SampleCapacity,   \* capacity of symbolizer_queue
          QueueCapacity,    \* QUEUE_CAPACITY, of the database queue
          ProducerBatch,    \* entries that db_writer_flush hands over
          BatchSize,        \* config->db_batch_size
          MaxSamples,       \* bound: samples dispatched
          MaxConns          \* bound: connections opened

ASSUME PipelineAssumption ==
    /\ SampleCapacity \in Nat \ {0} /\ BatchSize \in Nat \ {0}
    /\ QueueCapacity \in Nat /\ ProducerBatch \in 1..QueueCapacity
    /\ MaxSamples \in Nat /\ MaxConns \in Nat

VARIABLES
    pcM, res,             \* main, and what it has acquired
    stop_profiling,
    dispatched, hand,     \* samples so far; the one main is pushing
    sfifo, sclosed, sgot, sdropped,  \* symbolizer_queue; sgot is the
                          \* sample the symbolizer works on
    pcS, pbuf,            \* symbolizer thread, producer_batch_buffer
    fifo, closed, got, dropped,  \* the database queue
    context, running,     \* the db_writer_context: none, live or freed
    pcW, processed, lost, \* writer thread; its output; samples not accepted
    conn, open,           \* context->db (0 is NULL); the open connections
    http                  \* the HTTP thread and the handle it works with

sampleQueueVars == <<sfifo, sclosed, sgot, sdropped>>
queueVars  == <<fifo, closed, got, dropped>>
sampleVars == <<dispatched, hand, sampleQueueVars, pcS, pbuf, lost>>
writerVars == <<queueVars, context, running, pcW, processed, conn, open>>
vars == <<pcM, res, stop_profiling, sampleVars, writerVars, http>>

Sample == 1..MaxSamples
Conn   == 1..MaxConns
WILD   == MaxConns + 1       \* what a freed context holds

\* Nobody shuts symbolizer_queue down.
SQ == INSTANCE BoundedFifo
        WITH Item <- Sample, Consumer <- {"symbolizer"},
             Capacity <- SampleCapacity, fifo <- sfifo, closed <- sclosed,
             got <- sgot, dropped <- sdropped

DQ == INSTANCE BoundedFifo
        WITH Item <- Sample, Consumer <- {"writer"}, Capacity <- QueueCapacity

Init == /\ pcM = "config" /\ res = {} /\ stop_profiling = FALSE
        /\ dispatched = 0 /\ hand = <<>> /\ SQ!FInit /\ DQ!FInit
        /\ pcS = "off" /\ pbuf = <<>>
        /\ context = "none" /\ running = FALSE
        /\ pcW = "none" /\ processed = <<>> /\ lost = {}
        /\ conn = 0 /\ open = {}
        /\ http = [at |-> "off", conn |-> 0]

----------------------------------------------------------------------------
(* main: start-up.  Every step can fail.                                   *)

\* Arguments, log file, libelf, validate_config.
configure ==
    /\ pcM = "config" /\ pcM' \in {"db", "exited"}
    /\ UNCHANGED <<res, stop_profiling, sampleVars, writerVars, http>>

\* db_writer_init and db_writer_start.  A thread that cannot be created is
\* no error for main: every stack will be refused.  The thread ends at once
\* if it gets no memory for its batch.
db_writer_start ==
    /\ pcM = "db"
    /\ \/ pcM' = "exited" /\ UNCHANGED <<res, context, running, pcW>>
       \/ /\ pcM' = "http" /\ res' = {"db"} /\ context' = "live"
          /\ \/ running' = TRUE /\ pcW' \in {"loop", "done"}
             \/ running' = FALSE /\ UNCHANGED pcW
    /\ UNCHANGED <<stop_profiling, sampleVars, queueVars, processed, conn, open, http>>

http_server_start ==
    /\ pcM = "http"
    /\ \/ pcM' = "perf" /\ http' = [at |-> "idle", conn |-> 0]
          /\ res' = res \union {"http"}
       \/ pcM' = "stop" /\ UNCHANGED <<http, res>>
    /\ UNCHANGED <<stop_profiling, sampleVars, writerVars>>

\* Step at acquires r, and next follows; if it fails the perf events are
\* closed and the writer is stopped.
Acquire(at, r, next) ==
    /\ pcM = at
    /\ \/ pcM' = next /\ res' = res \union {r}
       \/ pcM' = "stop" /\ res' = res \ {"manager"}
    /\ UNCHANGED <<stop_profiling, sampleVars, writerVars, http>>

perf_event_init_with_config == Acquire("perf", "manager", "system")
initialize_system           == Acquire("system", "system", "pool")
mempool_create              == Acquire("pool", "pool", "symbolizer")

\* The queue and the thread of the symbolizer; then main_loop begins.
symbolizer_init ==
    /\ pcM = "symbolizer"
    /\ \/ pcM' = "loop" /\ pcS' = "pop" /\ UNCHANGED res
       \/ pcM' = "stop" /\ res' = res \ {"manager"} /\ UNCHANGED pcS
    /\ UNCHANGED <<stop_profiling, dispatched, hand, sampleQueueVars, pbuf, lost,
                   writerVars, http>>

----------------------------------------------------------------------------
(* main: the error paths.                                                  *)

\* Mutant: the writer is told to stop, but not woken.
stop_without_shutdown ==
    /\ pcM = "stop"
    /\ running' = FALSE
    /\ pcM' = "wait"
    /\ UNCHANGED <<res, stop_profiling, sampleVars, queueVars, context, pcW,
                   processed, conn, open, http>>

\* Nothing was pushed yet: db_writer_flush finds the buffer empty.
db_writer_stop ==
    /\ pcM = "stop"
    /\ running' = FALSE
    /\ DQ!Close
    /\ pcM' = "wait"
    /\ UNCHANGED <<res, stop_profiling, sampleVars, context, pcW, processed,
                   conn, open, http>>

\* Join, close the connection, free the context; without a thread nothing is
\* freed.  The HTTP server goes on.
db_writer_wait ==
    /\ pcM = "wait" /\ pcW \in {"done", "none"}
    /\ IF pcW = "done"
       THEN context' = "freed" /\ open' = open \ {conn} /\ res' = res \ {"db"}
       ELSE UNCHANGED <<context, open, res>>
    /\ pcM' = "release"
    /\ UNCHANGED <<stop_profiling, sampleVars, queueVars, running, pcW,
                   processed, conn, http>>

\* cleanup_system and mempool_destroy, as far as there is something; return 1.
release ==
    /\ pcM = "release"
    /\ res' = res \ {"system", "pool"}
    /\ pcM' = "exited"
    /\ UNCHANGED <<stop_profiling, sampleVars, writerVars, http>>

----------------------------------------------------------------------------
(* main: the loop, and the signal handler.                                 *)

\* A record becomes a sample, in a chunk of the sample pool.
dispatch_sample_event ==
    /\ pcM = "loop" /\ hand = <<>> /\ dispatched < MaxSamples
    /\ dispatched' = dispatched + 1
    /\ hand' = <<dispatched + 1>>
    /\ UNCHANGED <<pcM, res, stop_profiling, sampleQueueVars, pcS, pbuf, lost,
                   writerVars, http>>

\* queue_push: main waits while the queue is full.
PushSample ==
    /\ hand # <<>> /\ SQ!Put(hand)
    /\ hand' = <<>>
    /\ UNCHANGED <<pcM, res, stop_profiling, dispatched, pcS, pbuf, lost,
                   writerVars, http>>

signal_handler ==
    /\ stop_profiling' = TRUE
    /\ UNCHANGED <<pcM, res, sampleVars, writerVars, http>>

----------------------------------------------------------------------------
(* The symbolizer thread.                                                  *)

PopSample ==
    /\ pcS = "pop" /\ SQ!Take("symbolizer", 1)
    /\ pcS' = "push"
    /\ UNCHANGED <<pcM, res, stop_profiling, dispatched, hand, pbuf, lost,
                   writerVars, http>>

\* Mutant: the buffer is handed over one entry late.
flush_one_late ==
    /\ pcS = "push"
    /\ IF running
       THEN /\ pbuf' = pbuf \o sgot["symbolizer"]
            /\ pcS' = IF Len(pbuf) >= ProducerBatch THEN "flush" ELSE "free"
            /\ UNCHANGED lost
       ELSE /\ lost' = lost \union {sgot["symbolizer"][1]}
            /\ pcS' = "free"
            /\ UNCHANGED pbuf
    /\ UNCHANGED <<pcM, res, stop_profiling, dispatched, hand, sampleQueueVars,
                   writerVars, http>>

\* db_writer_push_stack, at the end of symbolize_sample.
PushStack ==
    /\ pcS = "push"
    /\ IF running
       THEN /\ pbuf' = pbuf \o sgot["symbolizer"]
            /\ pcS' = IF Len(pbuf) + 1 >= ProducerBatch THEN "flush" ELSE "free"
            /\ UNCHANGED lost
       ELSE /\ lost' = lost \union {sgot["symbolizer"][1]}
            /\ pcS' = "free"
            /\ UNCHANGED pbuf
    /\ UNCHANGED <<pcM, res, stop_profiling, dispatched, hand, sampleQueueVars,
                   writerVars, http>>

\* Mutant: the buffer is handed over backwards.
flush_reversed ==
    /\ pcS = "flush"
    /\ DQ!Put([k \in DOMAIN pbuf |-> pbuf[Len(pbuf) + 1 - k]])
    /\ pbuf' = <<>> /\ pcS' = "free"
    /\ UNCHANGED <<pcM, res, stop_profiling, dispatched, hand, sampleQueueVars, lost,
                   context, running, pcW, processed, conn, open, http>>

db_writer_flush ==
    /\ pcS = "flush"
    /\ DQ!Put(pbuf)
    /\ pbuf' = <<>> /\ pcS' = "free"
    /\ UNCHANGED <<pcM, res, stop_profiling, dispatched, hand, sampleQueueVars, lost,
                   context, running, pcW, processed, conn, open, http>>

\* mempool_free: the chunk goes back, and the next sample is popped.
FreeSample ==
    /\ pcS = "free"
    /\ sgot' = [sgot EXCEPT !["symbolizer"] = <<>>]
    /\ pcS' = "pop"
    /\ UNCHANGED <<pcM, res, stop_profiling, dispatched, hand, sfifo, sclosed, sdropped,
                   pbuf, lost, writerVars, http>>

----------------------------------------------------------------------------
(* The writer thread.                                                      *)

WriterLoop ==
    /\ pcW = "loop"
    /\ pcW' = IF running \/ fifo # <<>> THEN "pop" ELSE "done"
    /\ UNCHANGED <<pcM, res, stop_profiling, sampleVars, queueVars, context,
                   running, processed, conn, open, http>>

WriterPop ==
    /\ pcW = "pop"
    /\ \/ /\ DQ!Take("writer", IF Len(fifo) < BatchSize THEN Len(fifo) ELSE BatchSize)
          /\ pcW' = "handle"
       \/ /\ DQ!TakeNothing("writer")
          /\ pcW' = IF running THEN "loop" ELSE "done"
    /\ UNCHANGED <<pcM, res, stop_profiling, sampleVars, context, running,
                   processed, conn, open, http>>

\* ensure_db_handle in a new hour: the old connection is closed, unless a
\* statement of the HTTP thread is prepared on it (SQLITE_BUSY, ignored).
CloseOld ==
    /\ pcW = "handle" /\ conn < MaxConns
    /\ open' = IF http = [at |-> "query", conn |-> conn] THEN open ELSE open \ {conn}
    /\ pcW' = "open"
    /\ UNCHANGED <<pcM, res, stop_profiling, sampleVars, queueVars, context,
                   running, processed, conn, http>>

\* Until here context->db is the connection that was closed.
OpenNew ==
    /\ pcW = "open"
    /\ conn' = conn + 1 /\ open' = open \union {conn + 1}
    /\ pcW' = "write"
    /\ UNCHANGED <<pcM, res, stop_profiling, sampleVars, queueVars, context,
                   running, processed, http>>

SameHour ==
    /\ pcW = "handle" /\ conn # 0
    /\ pcW' = "write"
    /\ UNCHANGED <<pcM, res, stop_profiling, sampleVars, queueVars, context,
                   running, processed, conn, open, http>>

WriteBatch ==
    /\ pcW = "write"
    /\ processed' = processed \o got["writer"]
    /\ pcW' = "loop"
    /\ UNCHANGED <<pcM, res, stop_profiling, sampleVars, queueVars, context,
                   running, conn, open, http>>

----------------------------------------------------------------------------
(* The HTTP thread: request_handler.                                       *)

\* Mutant: NULL is not checked for.
null_not_checked ==
    /\ http.at = "idle"
    /\ http' = [at |-> "handle", conn |-> IF context = "freed" THEN WILD ELSE conn]
    /\ UNCHANGED <<pcM, res, stop_profiling, sampleVars, writerVars>>

\* db_writer_get_db_handle reads the context without a lock.  NULL is
\* answered at once; of a freed context anything may be read.
get_db_handle ==
    /\ http.at = "idle"
    /\ LET db == IF context = "freed" THEN WILD ELSE conn
       IN db # 0 /\ http' = [at |-> "handle", conn |-> db]
    /\ UNCHANGED <<pcM, res, stop_profiling, sampleVars, writerVars>>

\* sqlite3_prepare_v2; on a connection that is closed it reads freed memory:
\* it answers SQLITE_MISUSE or the process crashes.
PrepareQuery ==
    /\ http.at = "handle"
    /\ IF http.conn \in open
       THEN http' = [http EXCEPT !.at = "query"] /\ UNCHANGED pcM
       ELSE \/ http' = [at |-> "idle", conn |-> 0] /\ UNCHANGED pcM
            \/ pcM' = "crashed" /\ UNCHANGED http
    /\ UNCHANGED <<res, stop_profiling, sampleVars, writerVars>>

\* The rows are read, the statement is finalized, the answer is sent.
FinishQuery ==
    /\ http.at = "query"
    /\ http' = [at |-> "idle", conn |-> 0]
    /\ UNCHANGED <<pcM, res, stop_profiling, sampleVars, writerVars>>

----------------------------------------------------------------------------

Main == \/ configure \/ db_writer_start \/ http_server_start
        \/ perf_event_init_with_config \/ initialize_system \/ mempool_create
        \/ symbolizer_init \/ db_writer_stop \/ db_writer_wait \/ release
        \/ PushSample

Symbolizer == PopSample \/ PushStack \/ db_writer_flush \/ FreeSample

Writer == WriterLoop \/ WriterPop \/ CloseOld \/ OpenNew \/ SameHour \/ WriteBatch

Http == PrepareQuery \/ FinishQuery

Ended == pcM \in {"exited", "crashed"}

Next == /\ ~Ended
        /\ \/ Main \/ Symbolizer \/ Writer \/ Http
           \/ dispatch_sample_event \/ signal_handler \/ get_db_handle

Spec == Init /\ [][Next]_vars

\* Every thread that can run does.  Samples, signals and requests need not
\* come.
FairSpec == /\ Spec
            /\ WF_vars(~Ended /\ Main)
            /\ WF_vars(~Ended /\ Symbolizer)
            /\ WF_vars(~Ended /\ Writer)
            /\ WF_vars(~Ended /\ Http)

----------------------------------------------------------------------------
(* Properties.                                                             *)

HttpState == [at : {"off", "idle"}, conn : {0}]
               \union [at : {"handle", "query"}, conn : 1..WILD]

\* Besides the types: no request goes on with a NULL handle.
TypeOK ==
    /\ pcM \in {"config", "db", "http", "perf", "system", "pool", "symbolizer",
                "loop", "stop", "wait", "release", "exited", "crashed"}
    /\ res \subseteq {"db", "http", "manager", "system", "pool"}
    /\ dispatched \in 0..MaxSamples /\ hand \in Seq(Sample)
    /\ sfifo \in Seq(Sample) /\ pbuf \in Seq(Sample) /\ fifo \in Seq(Sample)
    /\ processed \in Seq(Sample)
    /\ Len(sfifo) <= SampleCapacity /\ Len(fifo) <= QueueCapacity
    /\ pcS \in {"off", "pop", "push", "flush", "free"}
    /\ pcW \in {"none", "loop", "pop", "handle", "open", "write", "done"}
    /\ context \in {"none", "live", "freed"}
    /\ running \in BOOLEAN /\ closed \in BOOLEAN /\ stop_profiling \in BOOLEAN
    /\ conn \in 0..MaxConns /\ open \subseteq Conn
    /\ http \in HttpState

\* What the symbolizer and the writer have taken out of their queues and not
\* passed on yet.
Symbolizing == IF pcS = "push" THEN sgot["symbolizer"] ELSE <<>>
Writing     == IF pcW \in {"handle", "open", "write"} THEN got["writer"] ELSE <<>>

\* End to end, each sample is at one place of the pipeline, and the stages
\* one after the other hold the samples in the order in which main
\* dispatched them, through both queues, the producer buffer and the batch.
\* If the writer did not start, the ones symbolized so far are all lost.
StagesInOrder ==
    LET rest == Symbolizing \o sfifo \o hand
        all  == processed \o Writing \o fifo \o pbuf \o rest
        k    == dispatched - Len(rest)
    IN IF lost = {} THEN all = [s \in 1..dispatched |-> s]
       ELSE lost = 1..k /\ all = [s \in 1..Len(rest) |-> k + s]

\* Raw samples that are not freed: backpressure keeps their number within
\* the queue's capacity and one in the hands of each thread, so a sample
\* pool of that size is never exhausted and no sample is dropped.
PoolSuffices == Len(hand) + Len(sfifo) + Len(sgot["symbolizer"]) <= SampleCapacity + 2

\* Samples arrive in order and once, and only by way of the bounded queues.
InOrderOnce == StagesInOrder /\ PoolSuffices

\* database.c: at worst a query fails on a handle that was just closed.  (A
\* handle that was read out of a freed context is WILD, and another matter.)
QueryAtWorstFails == pcM = "crashed" => http.conn = WILD

\* A sample followed by ProducerBatch - 1 more is processed in the end, if
\* the writer thread lives.
SampleProcessed ==
    \A s \in Sample :
        (dispatched >= s + ProducerBatch - 1 /\ s \notin lost /\ pcW # "done")
            ~> (\/ \E k \in DOMAIN processed : processed[k] = s
                \/ s \in lost \/ Ended)

\* A start-up that fails ends the process, and by then everything was
\* released that the step before had acquired, except the HTTP server, and
\* the writer if its thread was not created.
FailedStartEnds ==
    (pcM = "stop") ~>
        \/ pcM = "crashed"
        \/ pcM = "exited" /\ res \subseteq {"http"} \union (IF pcW = "none" THEN {"db"} ELSE {})

\* main.c and main_loop.c: the program runs until Ctrl+C.
StopSignalEnds == stop_profiling ~> Ended
=============================================================================
