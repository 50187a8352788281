------------------------------ MODULE Capture ------------------------------
(***************************************************************************)
(* src/perf/perf.c, and the callback dispatch_sample_event of              *)
(* src/core/main_loop.c with parse_sample_data of src/core/handler.c:      *)
(* samples leave the kernel.                                               *)
(*                                                                         *)
(* perf_event_init_with_config opens and maps one event per CPU.  From     *)
(* then on the kernel writes records into the ring buffer of the CPU, at   *)
(* any time.  The main thread visits the rings in turn, walks over the     *)
(* records between data_tail and data_head, and pushes each sample into    *)
(* the queue of the symbolizer.                                            *)
(*                                                                         *)
(* Memory is counted in words of 8 bytes: the kernel aligns records to     *)
(* them, so a header (one word) never crosses the end of the ring.  Word k *)
(* of record r is <<r, k>>; what it stands for follows from the shape of   *)
(* the record:  0 the header, 1 ip, 2 pid and tid, 3 time, 4 the number    *)
(* of frames, then the frames (one word each, or three for a branch), then *)
(* the registers (ABI word, and BP and SP unless the ABI is "none").       *)
(*                                                                         *)
(* The kernel is external.  It writes a record only into free space and    *)
(* never fills the ring completely; a record without room is lost.         *)
(***************************************************************************)
EXTENDS Naturals, Sequences, FiniteSets

CONSTANTS NumCpus,        \* num_cpus
          RingWords,      \* buf_size
          TempWords,      \* sizeof(temp_buf)
          MaxIps,         \* MAX_STACK_DEPTH_COPY
          Depth,          \* the stack depths the kernel reports
          Regs,           \* words of the registers: 1 without, 3 with BP, SP
          QueueCapacity,  \* 1024, symbolizer_init
          MaxRecords      \* bound on the records the kernel writes

ASSUME CaptureAssumption ==
    /\ NumCpus \in Nat \ {0}
    /\ RingWords \in Nat \ {0}
    /\ TempWords \in Nat
    /\ MaxIps \in Nat
    /\ Depth \subseteq Nat
    /\ Regs \subseteq {1, 3}
    /\ QueueCapacity \in Nat \ {0}
    /\ MaxRecords \in Nat

VARIABLES
    pc,                     \* the main thread
    cpu,                    \* its loop variable, here and in main_loop
    use_lbr, lbr,           \* global_config.use_lbr; the mode of the events
    manager,                \* "none", "live" or "freed"
    fds, maps,              \* open descriptors, mapped rings, by CPU
    crashed,                \* the process died of a write to freed memory
    ring, data_head, data_tail,
    written, seen,          \* by ring: records the kernel wrote, records the
                            \* consumer passed, oldest first
    shape, records,         \* shape of each record; how many there are
    head, cur,              \* locals of perf_event_consume_ring_buffer
    sample,                 \* the raw_sample that waits to be pushed
    skipped, dropped_nomem, \* too long for temp_buf; no memory
    taken,                  \* records the symbolizer took
    fifo, closed, got, dropped  \* symbolizer_queue

initVars  == <<use_lbr, lbr, manager, fds, maps>>
ringVars  == <<ring, data_head, written, shape, records>>
tailVars  == <<data_tail, seen, head, cur>>
lostVars  == <<skipped, dropped_nomem, taken>>
queueVars == <<fifo, closed, got, dropped>>
vars == <<pc, cpu, initVars, crashed, ringVars, tailVars, sample, lostVars,
          queueVars>>

Cpu    == 0..(NumCpus - 1)
Pos    == 0..(RingWords - 1)
Record == 1..MaxRecords
Zero   == <<0, 0>>                      \* a word nobody wrote
NoSample == [rec |-> 0, ips |-> <<>>]

Shape == [type : {"sample"}, nr : Depth, regs : Regs, null : BOOLEAN]
           \union [type : {"other"}, nr : {0}, regs : {0}, null : {FALSE}]

Q == INSTANCE BoundedFifo
       WITH Item <- [rec : Record, ips : Seq(Record \X Nat)],
            Consumer <- {"symbolizer"}, Capacity <- QueueCapacity

EntryWords(branches) == IF branches THEN 3 ELSE 1

\* A record that is no sample (PERF_RECORD_LOST) has three words.
Size(s) == IF s.type = "other"
           THEN 3 ELSE 5 + s.nr * EntryWords(lbr) + s.regs

Init == /\ pc = "start" /\ cpu = 0
        /\ use_lbr \in BOOLEAN /\ lbr = use_lbr
        /\ manager = "none" /\ fds = {} /\ maps = {} /\ crashed = FALSE
        /\ ring = [c \in Cpu |-> [p \in Pos |-> Zero]]
        /\ data_head = [c \in Cpu |-> 0] /\ data_tail = [c \in Cpu |-> 0]
        /\ written = [c \in Cpu |-> <<>>] /\ seen = [c \in Cpu |-> <<>>]
        /\ shape = <<>> /\ records = 0
        /\ head = 0 /\ cur = 0 /\ sample = NoSample
        /\ skipped = {} /\ dropped_nomem = {} /\ taken = {}
        /\ Q!FInit

----------------------------------------------------------------------------
(* perf_event_init_with_config.                                            *)

initialize_manager ==
    /\ pc = "start"
    /\ \/ manager' = "live" /\ pc' = "open"
       \/ pc' = "failed" /\ UNCHANGED manager
    /\ UNCHANGED <<cpu, use_lbr, lbr, fds, maps, crashed, ringVars, tailVars,
                   sample, lostVars, queueVars>>

\* Writing to a manager that was freed may or may not kill the process.
Touch == crashed' \in (IF manager = "freed" THEN BOOLEAN ELSE {FALSE})

\* The events of the first n CPUs are closed and unmapped; the manager goes.
cleanup_events(n) == /\ fds' = fds \ 0..(n - 1)
                     /\ maps' = maps \ 0..(n - 1)
                     /\ manager' = "freed"
                     /\ Touch

create_perf_event ==
    /\ pc = "open"
    /\ fds' = fds \union {cpu}
    /\ pc' = "map"
    /\ Touch
    /\ UNCHANGED <<cpu, use_lbr, lbr, manager, maps, ringVars, tailVars, sample,
                   lostVars, queueVars>>

\* EINVAL, EOPNOTSUPP or ENOTSUP while LBR is asked for: all over again
\* without LBR, with the manager that was just freed.
LbrRefused ==
    /\ pc = "open" /\ lbr
    /\ cleanup_events(cpu)
    /\ lbr' = FALSE
    /\ cpu' = 0
    /\ UNCHANGED <<pc, use_lbr, ringVars, tailVars, sample, lostVars, queueVars>>

OpenFails ==
    /\ pc = "open"
    /\ cleanup_events(cpu)
    /\ pc' = "failed"
    /\ UNCHANGED <<cpu, use_lbr, lbr, ringVars, tailVars, sample, lostVars,
                   queueVars>>

\* The kernel starts on an empty ring.
perf_add_sample_event_mmap ==
    /\ pc = "map"
    /\ maps' = maps \union {cpu}
    /\ ring' = [ring EXCEPT ![cpu] = [p \in Pos |-> Zero]]
    /\ data_head' = [data_head EXCEPT ![cpu] = 0]
    /\ data_tail' = [data_tail EXCEPT ![cpu] = 0]
    /\ written' = [written EXCEPT ![cpu] = <<>>]
    /\ seen' = [seen EXCEPT ![cpu] = <<>>]
    /\ IF cpu + 1 < NumCpus
       THEN cpu' = cpu + 1 /\ pc' = "open"
       ELSE cpu' = 0 /\ pc' = "ready"
    /\ Touch
    /\ UNCHANGED <<use_lbr, lbr, manager, fds, shape, records, head, cur, sample,
                   lostVars, queueVars>>

\* Mutant: the event whose mapping failed is not closed.
map_failure_leaks ==
    /\ pc = "map"
    /\ cleanup_events(cpu)
    /\ pc' = "failed"
    /\ UNCHANGED <<cpu, use_lbr, lbr, ringVars, tailVars, sample, lostVars,
                   queueVars>>

\* mmap fails, or the page size cannot be had.
MapFails ==
    /\ pc = "map"
    /\ cleanup_events(cpu + 1)
    /\ pc' = "failed"
    /\ UNCHANGED <<cpu, use_lbr, lbr, ringVars, tailVars, sample, lostVars,
                   queueVars>>

\* A later step of the start-up failed: main gives the manager back.
perf_event_cleanup_manager ==
    /\ pc = "ready"
    /\ cleanup_events(NumCpus)
    /\ pc' = "cleaned"
    /\ UNCHANGED <<cpu, use_lbr, lbr, ringVars, tailVars, sample, lostVars,
                   queueVars>>

----------------------------------------------------------------------------
(* The kernel.                                                             *)

KernelWrite(c, s) ==
    LET r == records + 1
        offset(p) == (p + RingWords - (data_head[c] % RingWords)) % RingWords
    IN /\ c \in maps /\ records < MaxRecords
       /\ s.null => lbr /\ s.nr > 0
       /\ data_head[c] + Size(s) - data_tail[c] < RingWords
       /\ ring' = [ring EXCEPT ![c] =
                     [p \in Pos |-> IF offset(p) < Size(s)
                                    THEN <<r, offset(p)>> ELSE @[p]]]
       /\ data_head' = [data_head EXCEPT ![c] = @ + Size(s)]
       /\ written' = [written EXCEPT ![c] = Append(@, r)]
       /\ shape' = Append(shape, s)
       /\ records' = r
       /\ UNCHANGED <<pc, cpu, initVars, crashed, tailVars, sample, lostVars,
                      queueVars>>

----------------------------------------------------------------------------
(* main_loop and perf_event_consume_ring_buffer.                           *)

StartLoop ==
    /\ pc = "ready"
    /\ pc' = "loop"
    /\ UNCHANGED <<cpu, initVars, crashed, ringVars, tailVars, sample, lostVars,
                   queueVars>>

\* Mutant: the loop leaves out the last event.
next_cpu_skips_last == cpu' = IF cpu + 2 < NumCpus THEN cpu + 1 ELSE 0

NextCpu == cpu' = (cpu + 1) % NumCpus

\* tail == head: nothing to do for this ring.
RingEmpty ==
    /\ pc = "loop"
    /\ data_tail[cpu] = data_head[cpu]
    /\ NextCpu
    /\ UNCHANGED <<pc, initVars, crashed, ringVars, tailVars, sample, lostVars,
                   queueVars>>

\* data_tail and data_head are loaded once.
perf_event_consume_ring_buffer ==
    /\ pc = "loop"
    /\ data_tail[cpu] # data_head[cpu]
    /\ head' = data_head[cpu]
    /\ cur' = data_tail[cpu] % RingWords
    /\ pc' = "consume"
    /\ UNCHANGED <<cpu, initVars, crashed, ringVars, data_tail, seen, sample,
                   lostVars, queueVars>>

\* hdr->size: zero in a word that was never written.
HdrSize == LET w == ring[cpu][cur]
           IN IF w # Zero /\ w[2] = 0 THEN Size(shape[w[1]]) ELSE 0

More    == cur # head % RingWords /\ HdrSize # 0
Crosses == cur + HdrSize > RingWords

\* Mutant: the reader stops at the end of the ring instead of wrapping.
advance_without_wrap == (cur + HdrSize) - (IF Crosses THEN RingWords ELSE 0)

\* cur after the record at cur.
Advance == (cur + HdrSize) % RingWords

Pass == /\ cur' = Advance
        /\ seen' = [seen EXCEPT ![cpu] = Append(@, ring[cpu][cur][1])]
        /\ UNCHANGED <<data_tail, head>>

\* The record wraps round the end and does not fit into temp_buf.
TooLong == Crosses /\ HdrSize > TempWords

SkipRecord ==
    /\ pc = "consume" /\ More /\ TooLong
    /\ skipped' = skipped \union {ring[cpu][cur][1]}
    /\ Pass
    /\ UNCHANGED <<pc, cpu, initVars, crashed, ringVars, sample, dropped_nomem,
                   taken, queueVars>>

\* dispatch_sample_event returns at once.
IgnoreRecord ==
    /\ pc = "consume" /\ More /\ ~TooLong
    /\ shape[ring[cpu][cur][1]].type = "other"
    /\ Pass
    /\ UNCHANGED <<pc, cpu, initVars, crashed, ringVars, sample, lostVars,
                   queueVars>>

\* The words of the record at cur.
RecordWords == [k \in 1..HdrSize |-> ring[cpu][(cur + k - 1) % RingWords]]

\* Is the value of word w zero?  It is for an empty branch, and for the ABI
\* of a thread without user registers.
IsZero(w) == LET s == shape[w[1]]
             IN \/ s.null /\ w[2] = 5
                \/ s.regs = 1 /\ w[2] = 5 + s.nr * EntryWords(lbr)

Least(a, b) == IF a < b THEN a ELSE b

\* The elements of s at the indices in I, in their order.
AtIndices(s, I) ==
    LET F[i \in 0..Len(s)] == IF i = 0 THEN <<>>
                              ELSE IF i \in I THEN Append(F[i - 1], s[i])
                              ELSE F[i - 1]
    IN F[Len(s)]

NonZero(ws) == AtIndices(ws, { j \in DOMAIN ws : ~IsZero(ws[j]) })

\* Mutant: only the size of the record limits the number of frames.
parse_ignores_nr(ws) ==
    LET n     == EntryWords(use_lbr)
        count == Least((Len(ws) - 5) \div n, MaxIps)
        first == [j \in 1..count |-> ws[6 + n * (j - 1)]]
    IN IF Len(ws) < 5 THEN <<>>
       ELSE IF use_lbr THEN NonZero(first) ELSE first

\* result->ips: at most as many frames as the record says, as fit into the
\* record and into the buffer; of branches the sources that are not zero.
\* The layout is taken from the configuration.
parse_sample_data(ws) ==
    LET n     == EntryWords(use_lbr)
        nr    == IF ws[5][2] = 4 THEN shape[ws[5][1]].nr ELSE 0
        count == Least(Least(nr, (Len(ws) - 5) \div n), MaxIps)
        first == [j \in 1..count |-> ws[6 + n * (j - 1)]]
    IN IF Len(ws) < 5 THEN <<>>
       ELSE IF use_lbr THEN NonZero(first) ELSE first

\* A sample is parsed and copied; without memory it is dropped.
dispatch_sample_event ==
    LET r == ring[cpu][cur][1]
    IN /\ pc = "consume" /\ More /\ ~TooLong
       /\ shape[r].type = "sample"
       /\ \/ /\ sample' = [rec |-> r, ips |-> parse_sample_data(RecordWords)]
             /\ pc' = "push"
             /\ UNCHANGED dropped_nomem
          \/ /\ dropped_nomem' = dropped_nomem \union {r}
             /\ UNCHANGED <<pc, sample>>
       /\ Pass
       /\ UNCHANGED <<cpu, initVars, crashed, ringVars, skipped, taken, queueVars>>

\* Mutant: a full queue makes the main thread drop the sample.
push_or_drop ==
    /\ pc = "push"
    /\ \/ Q!Put(<<sample>>)
       \/ Len(fifo) = QueueCapacity /\ UNCHANGED queueVars
    /\ sample' = NoSample
    /\ pc' = "consume"
    /\ UNCHANGED <<cpu, initVars, crashed, ringVars, tailVars, lostVars>>

\* queue_push: waits while the queue is full.
PushSample ==
    /\ pc = "push"
    /\ Q!Put(<<sample>>)
    /\ sample' = NoSample
    /\ pc' = "consume"
    /\ UNCHANGED <<cpu, initVars, crashed, ringVars, tailVars, lostVars>>

\* Mutant: data_head is loaded again for the new tail.
tail_from_new_head ==
    /\ pc = "consume" /\ ~More
    /\ data_tail' = [data_tail EXCEPT ![cpu] = data_head[cpu]]
    /\ pc' = "loop"
    /\ NextCpu
    /\ UNCHANGED <<initVars, crashed, ringVars, seen, head, cur, sample,
                   lostVars, queueVars>>

StoreTail ==
    /\ pc = "consume" /\ ~More
    /\ data_tail' = [data_tail EXCEPT ![cpu] = head]
    /\ pc' = "loop"
    /\ NextCpu
    /\ UNCHANGED <<initVars, crashed, ringVars, seen, head, cur, sample,
                   lostVars, queueVars>>

\* symbolizer_thread_func takes the next sample.
SymbolizerTakes ==
    /\ Q!Take("symbolizer", 1)
    /\ taken' = taken \union {Head(fifo).rec}
    /\ UNCHANGED <<pc, cpu, initVars, crashed, ringVars, tailVars, sample,
                   skipped, dropped_nomem>>

----------------------------------------------------------------------------

perf_event_init_with_config ==
    \/ initialize_manager
    \/ create_perf_event \/ LbrRefused \/ OpenFails
    \/ perf_add_sample_event_mmap \/ MapFails

main_loop == \/ RingEmpty \/ perf_event_consume_ring_buffer
             \/ SkipRecord \/ IgnoreRecord \/ dispatch_sample_event
             \/ PushSample \/ StoreTail

Next == /\ ~crashed
        /\ \/ perf_event_init_with_config
           \/ perf_event_cleanup_manager
           \/ StartLoop
           \/ \E c \in Cpu, s \in Shape : KernelWrite(c, s)
           \/ main_loop
           \/ SymbolizerTakes

Spec == Init /\ [][Next]_vars

\* The main thread and the symbolizer keep running; the kernel need not
\* write, and nothing makes the start-up succeed.
FairSpec == Spec /\ WF_vars(~crashed /\ main_loop)
                 /\ WF_vars(~crashed /\ SymbolizerTakes)

----------------------------------------------------------------------------
(* Properties.                                                             *)

\* Types; the reader's position stays inside the mapped buffer.
TypeOK ==
    /\ pc \in {"start", "open", "map", "ready", "failed", "cleaned", "loop",
               "consume", "push"}
    /\ cpu \in Cpu /\ use_lbr \in BOOLEAN /\ lbr \in BOOLEAN
    /\ manager \in {"none", "live", "freed"} /\ crashed \in BOOLEAN
    /\ fds \subseteq Cpu /\ maps \subseteq Cpu
    /\ ring \in [Cpu -> [Pos -> (0..MaxRecords) \X (0..RingWords)]]
    /\ data_head \in [Cpu -> Nat] /\ data_tail \in [Cpu -> Nat]
    /\ records \in 0..MaxRecords /\ shape \in Seq(Shape)
    /\ head \in Nat /\ cur \in Pos
    /\ fifo \in Seq([rec : Record, ips : Seq(Record \X (0..RingWords))])
    /\ Len(fifo) <= QueueCapacity

\* The frames of record r as the kernel wrote them, as far as ips[] reaches.
Captured(r) ==
    LET s   == shape[r]
        all == [j \in 1..Least(s.nr, MaxIps) |->
                   <<r, 5 + EntryWords(lbr) * (j - 1)>>]
    IN IF lbr THEN NonZero(all) ELSE all

\* Whatever the kernel writes meanwhile and wherever a record wraps, the
\* stack handed to the symbolizer is the stack the kernel recorded.  Unless
\* LBR was refused: then call chains are parsed as branches.
StacksFaithful ==
    use_lbr = lbr =>
        \A s \in {sample} \union { fifo[i] : i \in DOMAIN fifo } :
            s # NoSample => s.ips = Captured(s.rec)

InConsume(c) == cpu = c /\ pc \in {"consume", "push"}

\* The reader's position in the ring of c, as data_tail counts.
ReadPos(c) ==
    IF InConsume(c)
    THEN data_tail[c] + ((cur + RingWords - (data_tail[c] % RingWords)) % RingWords)
    ELSE data_tail[c]

\* Word p of all that was ever written into the ring of c, if it is still there.
Word(c, p) == ring[c][p % RingWords]

\* Where the records start that the reader has yet to pass.
Unread(c) == { p \in ReadPos(c)..(data_head[c] - 1) :
                  Word(c, p) # Zero /\ Word(c, p)[2] = 0 }

\* Every record the kernel wrote is passed exactly once and in order: the
\* reader has passed the first records, and the records between its position
\* and data_head are all the others, in the order of their numbers.
RingInOrder ==
    \A c \in maps :
        LET n == Len(seen[c])
        IN /\ n <= Len(written[c]) /\ seen[c] = SubSeq(written[c], 1, n)
           /\ { Word(c, p)[1] : p \in Unread(c) }
                 = { written[c][i] : i \in (n + 1)..Len(written[c]) }
           /\ \A p, q \in Unread(c) : p < q => Word(c, p)[1] < Word(c, q)[1]
           /\ \A i, j \in DOMAIN written[c] : i < j => written[c][i] < written[c][j]

\* A record the reader passed goes to the symbolizer, or is no sample, or
\* found no memory, or was too long for temp_buf.
Fate(r) == { f \in 1..5 :
    \/ f = 1 /\ r \in skipped
    \/ f = 2 /\ r \in dropped_nomem
    \/ f = 3 /\ r \in taken
    \/ f = 4 /\ \E i \in DOMAIN fifo : fifo[i].rec = r
    \/ f = 5 /\ sample.rec = r }

\* No sample is lost or sent twice: each one the reader passed has exactly
\* one fate, and only a record longer than temp_buf is skipped.
OneFate ==
    \A c \in maps : \A k \in DOMAIN seen[c] :
        LET r == seen[c][k]
        IN /\ shape[r].type = "sample" => Cardinality(Fate(r)) = 1
           /\ r \in skipped => Size(shape[r]) > TempWords

\* A start-up that fails closes and unmaps everything and frees the manager;
\* until then, and in the main loop, the manager is alive, unless LBR was
\* refused (then it is used after it was freed).
ManagerLifetime ==
    /\ pc \in {"failed", "cleaned"} => fds = {} /\ maps = {} /\ manager # "live"
    /\ pc \notin {"start", "failed", "cleaned"} /\ use_lbr = lbr
         => manager = "live" /\ maps \subseteq fds

Sampling == pc \in {"ready", "loop", "consume", "push"}

\* perf.c: when LBR is refused, sampling goes on as usual without it.  So the
\* main loop has a manager to work with ...
ManagerAfterFallback == Sampling /\ lbr # use_lbr => manager = "live"

\* ... and the stacks it hands over are the call chains the kernel recorded.
StacksAfterFallback ==
    lbr # use_lbr =>
        \A s \in {sample} \union { fifo[i] : i \in DOMAIN fifo } :
            s # NoSample => s.ips = Captured(s.rec)

Member(r, rec) == \E c \in Cpu : \E k \in DOMAIN rec[c] : rec[c][k] = r

\* A record that the main loop can see leaves the ring: the reader passes
\* it, although it sleeps whenever the symbolizer's queue is full.
RecordIsRead ==
    \A r \in Record :
        (pc = "loop" /\ Member(r, written)) ~> Member(r, seen)
=============================================================================
