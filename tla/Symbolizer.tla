----------------------------- MODULE Symbolizer -----------------------------
(***************************************************************************)
(* src/core/process.c, src/core/handler.c, src/elf/elf.c, src/elf/vma.c:   *)
(* a raw sample becomes a stack of names.                                  *)
(*                                                                         *)
(* The symbolizer thread keeps one cached node per pid (find_new_process)  *)
(* with what it read from /proc about that process, and every mapped file  *)
(* of a node points to a shared, counted ELF object.  The processes it     *)
(* looks at start, exit and have their pids reused while it reads.  The    *)
(* main thread frees the nodes of dead processes (cleanup_dead_processes)  *)
(* from the same list, without a lock.                                     *)
(*                                                                         *)
(* A process instance is a number: the order in which it was born, which   *)
(* is also its start time; 0 is what a failed read of /proc answers.  An   *)
(* address resolves to a kernel symbol, to a file mapping (Vma) or to      *)
(* something without a file; which names come out is left to the lookup    *)
(* operators.  One chain of the hash table stands for all of them.         *)
(*                                                                         *)
(* A step reads or writes one node of the chain, or its head.  A step that *)
(* touches a node which is freed has no defined outcome: it ends the       *)
(* behaviour, with wild set.                                               *)
(***************************************************************************)
EXTENDS Integers, Sequences, FiniteSets

CONSTANTS Pid,
          Vma,           \* file mappings of an address space
          Elf,           \* build ids of the files
          NoElf,         \* vma->elf_file = NULL
          BufferNames,   \* names that fit into flame_buffer
          MaxDepth,      \* bound on the frames of a sample
          MaxBirths,     \* bound on the processes that are born
          MaxNodes       \* bound on the nodes that are allocated

ASSUME SymbolizerAssumption ==
    /\ NoElf \notin Elf
    /\ BufferNames \in Nat /\ MaxDepth \in Nat
    /\ MaxBirths \in Nat /\ MaxNodes \in Nat
    /\ 0 \notin Pid

VARIABLES
    filter,          \* global_config.filter_mode, set before the threads start
    live, births,    \* the instance that runs under each pid; births so far
    head,            \* process_table->nodes[index]
    node, made,      \* what each node holds; nodes allocated so far
    removed, swept,  \* nodes freed by the symbolizer and by the main thread
    refs,            \* reference_count of each cached ELF object, 0: none
    pc,              \* the symbolizer's position
    at, prev,        \* its place in the chain: the node, the one before it
    again,           \* find_new_process was called for a reused pid
    pid, todo,       \* the sample: its pid, its frames that are left
    due, used,       \* its frames that pass the filter; names in flame_buffer
    proc, nameOf,    \* proc_info; the node whose string process_name is
    start,           \* the start time find_new_process read before the maps
    sweep,           \* the main thread: its position, node, prev and temp
    wild             \* freed memory was used

kernelVars == <<live, births, filter>>
tableVars  == <<head, node, made, removed, swept, refs>>
walkVars   == <<at, prev>>
frameVars  == <<pid, todo, due, used>>
procVars   == <<proc, nameOf, start>>
vars == <<kernelVars, tableVars, pc, walkVars, again, frameVars, procVars,
          sweep, wild>>

NodeId    == 1..MaxNodes
Instance  == 0..MaxBirths
Frame     == {"user", "kernel"}
Frames    == UNION { [1..d -> Frame] : d \in 0..MaxDepth }
EmptyNode == [pid |-> 0, start |-> 0, maps |-> 0, next |-> 0,
              elf |-> [v \in Vma |-> NoElf]]
Filter    == {"FILTER_ALL", "FILTER_USER", "FILTER_KERNEL"}
NoSweep   == [pc |-> "off", at |-> 0, prev |-> 0, temp |-> 0]

Init == /\ filter \in Filter
        /\ live = [p \in Pid |-> 0] /\ births = 0
        /\ head = 0 /\ made = 0
        /\ node = [n \in NodeId |-> EmptyNode]
        /\ removed = {} /\ swept = {}
        /\ refs = [b \in Elf |-> 0]
        /\ pc = "idle" /\ again = FALSE
        /\ at = 0 /\ prev = 0
        /\ pid = 0 /\ todo = <<>> /\ due = 0 /\ used = 0
        /\ proc = 0 /\ nameOf = 0
        /\ start = 0
        /\ sweep = NoSweep /\ wild = FALSE

----------------------------------------------------------------------------
(* The operating system: processes start and exit, pids are reused.        *)

Spawn(p) ==
    /\ live[p] = 0 /\ births < MaxBirths
    /\ births' = births + 1
    /\ live' = [live EXCEPT ![p] = births + 1]
    /\ UNCHANGED <<filter, tableVars, pc, walkVars, again, frameVars, procVars,
                   sweep, wild>>

Exit(p) ==
    /\ live[p] # 0
    /\ live' = [live EXCEPT ![p] = 0]
    /\ UNCHANGED <<births, filter, tableVars, pc, walkVars, again, frameVars,
                   procVars, sweep, wild>>

----------------------------------------------------------------------------
(* The frames of a sample that symbolize_sample does not skip.             *)

Kept(f) == \/ filter = "FILTER_ALL"
           \/ filter = "FILTER_USER" /\ f = "user"
           \/ filter = "FILTER_KERNEL" /\ f = "kernel"

KeptOf(frames) == { k \in DOMAIN frames : Kept(frames[k]) }

symbolizer_thread_func(p, frames) ==
    /\ pc = "idle"
    /\ pid' = p /\ todo' = frames /\ used' = 0
    /\ due' = Cardinality(KeptOf(frames))
    /\ pc' = "find"
    /\ UNCHANGED <<kernelVars, tableVars, walkVars, again, procVars, sweep, wild>>

----------------------------------------------------------------------------
(* find_new_process: reads of /proc, each at a time of its own.            *)

\* Mutant: a failed read answers -1.
start_time_or_minus_1(p) == {-1, live[p]}

\* The answers get_process_start_time(p) can give.  It is 0 when stat cannot
\* be opened, and for a process whose name holds a space: then the formats
\* of fscanf do not match.
get_process_start_time(p) == {0, live[p]}
is_process_alive(p)       == live[p] # 0

\* Mutant: after a reused pid process_name is not fetched again.
return_keeps_name(n) ==
    /\ proc' = n
    /\ nameOf' = IF again THEN nameOf ELSE n
    /\ at' = 0 /\ start' = 0 /\ again' = FALSE
    /\ IF again /\ n = 0
       THEN used' = used + 1 /\ todo' = Tail(todo) /\ pc' = "frame"
       ELSE pc' = (IF again THEN "lookup" ELSE "frame") /\ UNCHANGED <<used, todo>>

\* Mutant: the frame of a process that is gone is not written.
return_drops_frame(n) ==
    /\ proc' = n /\ nameOf' = n
    /\ at' = 0 /\ start' = 0 /\ again' = FALSE
    /\ IF again /\ n = 0
       THEN todo' = Tail(todo) /\ pc' = "frame" /\ UNCHANGED used
       ELSE pc' = (IF again THEN "lookup" ELSE "frame") /\ UNCHANGED <<used, todo>>

\* The caller goes on with node n (0: NULL).  A second lookup that finds
\* nothing writes "[process_recycled]" for the frame, whatever the room left.
Return(n) ==
    /\ proc' = n /\ nameOf' = n
    /\ at' = 0 /\ start' = 0 /\ again' = FALSE
    /\ IF again /\ n = 0
       THEN used' = used + 1 /\ todo' = Tail(todo) /\ pc' = "frame"
       ELSE pc' = (IF again THEN "lookup" ELSE "frame") /\ UNCHANGED <<used, todo>>

\* find_process walks along the chain ...
find_process ==
    /\ pc = "find"
    /\ at' = head /\ pc' = "walk"
    /\ UNCHANGED <<kernelVars, tableVars, prev, again, frameVars, procVars, sweep, wild>>

\* Mutant: the walk ends at the first node.
walk_one_node ==
    /\ pc = "walk" /\ at # 0 /\ node[at].pid # pid
    /\ at' = 0
    /\ UNCHANGED <<kernelVars, tableVars, pc, prev, again, frameVars, procVars, sweep,
                   wild>>

Walk ==
    /\ pc = "walk" /\ at # 0 /\ node[at].pid # pid
    /\ at' = node[at].next
    /\ UNCHANGED <<kernelVars, tableVars, pc, prev, again, frameVars, procVars, sweep,
                   wild>>

\* ... and finds the pid,
FindCached ==
    /\ pc = "walk" /\ at # 0 /\ node[at].pid = pid
    /\ Return(at)
    /\ UNCHANGED <<kernelVars, tableVars, prev, pid, due, sweep, wild>>

\* or does not: a new node gets the start time.  comm and cmdline are read
\* too, and no guard uses them.
ReadStart ==
    /\ pc = "walk" /\ at = 0
    /\ start' \in get_process_start_time(pid)
    /\ pc' = "alive"
    /\ UNCHANGED <<kernelVars, tableVars, walkVars, again, frameVars, proc, nameOf,
                   sweep, wild>>

CheckAlive ==
    /\ pc = "alive" /\ is_process_alive(pid)
    /\ pc' = "maps"
    /\ UNCHANGED <<kernelVars, tableVars, walkVars, again, frameVars, procVars, sweep,
                   wild>>

\* No memory for the node, the process is dead, its maps cannot be opened
\* (it is gone by now, or they are not ours to read), or no memory for one of
\* the mappings.
NoProcess ==
    /\ \/ pc = "walk" /\ at = 0
       \/ pc = "alive" /\ ~is_process_alive(pid)
       \/ pc = "maps"
    /\ Return(0)
    /\ UNCHANGED <<kernelVars, tableVars, prev, pid, due, sweep, wild>>

\* The maps are read.  They are empty (0) for a zombie and a kernel thread.
parse_process_memory_maps ==
    /\ pc = "maps" /\ is_process_alive(pid)
    /\ made < MaxNodes /\ made' = made + 1
    /\ \E m \in {0, live[pid]} :
          node' = [node EXCEPT ![made + 1] =
                     [EmptyNode EXCEPT !.pid = pid, !.start = start, !.maps = m]]
    /\ pc' = "insert"
    /\ UNCHANGED <<kernelVars, head, removed, swept, refs, walkVars, again, frameVars,
                   procVars, sweep, wild>>

\* The node becomes the first of the chain: its link is set, then the head.
InsertNode ==
    /\ pc = "insert"
    /\ node' = [node EXCEPT ![made].next = head]
    /\ pc' = "link"
    /\ UNCHANGED <<kernelVars, head, made, removed, swept, refs, walkVars, again,
                   frameVars, procVars, sweep, wild>>

LinkNode ==
    /\ pc = "link"
    /\ head' = made
    /\ Return(made)
    /\ UNCHANGED <<kernelVars, node, made, removed, swept, refs, prev, pid, due,
                   sweep, wild>>

----------------------------------------------------------------------------
(* The loop over the frames.                                               *)

\* The frame is done; its name is left out when it does not fit any more.
AddName == /\ todo' = Tail(todo)
           /\ used' = IF used < BufferNames THEN used + 1 ELSE used

SkipFrame ==
    /\ pc = "frame" /\ todo # <<>> /\ ~Kept(Head(todo))
    /\ todo' = Tail(todo)
    /\ UNCHANGED <<kernelVars, tableVars, pc, walkVars, again, pid, due, used,
                   procVars, sweep, wild>>

\* A kernel symbol, or a user address of a process nobody knows.
PlainFrame ==
    /\ pc = "frame" /\ todo # <<>> /\ Kept(Head(todo))
    /\ Head(todo) = "kernel" \/ proc = 0
    /\ AddName
    /\ UNCHANGED <<kernelVars, tableVars, pc, walkVars, again, pid, due, procVars,
                   sweep, wild>>

AtUserFrame == /\ pc = "frame" /\ todo # <<>> /\ Kept(Head(todo))
               /\ Head(todo) = "user" /\ proc # 0

\* Mutant: a reused pid is found again in the table.
reuse_not_removed ==
    /\ AtUserFrame
    /\ \E t \in get_process_start_time(node[proc].pid) :
          IF node[proc].start = t
          THEN pc' = "lookup" /\ UNCHANGED again
          ELSE pc' = "find" /\ again' = TRUE
    /\ UNCHANGED <<kernelVars, tableVars, walkVars, frameVars, procVars, sweep,
                   wild>>

\* The start time is the same, or the process is removed and looked up again.
CheckReuse ==
    /\ AtUserFrame
    /\ \E t \in get_process_start_time(node[proc].pid) :
          IF node[proc].start = t
          THEN pc' = "lookup" /\ UNCHANGED again
          ELSE pc' = "remove" /\ again' = TRUE
    /\ UNCHANGED <<kernelVars, tableVars, walkVars, frameVars, procVars, sweep,
                   wild>>

\* remove_process walks along the chain ...
remove_process ==
    /\ pc = "remove"
    /\ at' = head /\ prev' = 0 /\ pc' = "search"
    /\ UNCHANGED <<kernelVars, tableVars, again, frameVars, procVars, sweep, wild>>

SearchOn ==
    /\ pc = "search" /\ at # 0 /\ node[at].pid # pid
    /\ prev' = at /\ at' = node[at].next
    /\ UNCHANGED <<kernelVars, tableVars, pc, again, frameVars, procVars, sweep, wild>>

NotFound ==
    /\ pc = "search" /\ at = 0
    /\ prev' = 0 /\ pc' = "find"
    /\ UNCHANGED <<kernelVars, tableVars, at, again, frameVars, procVars, sweep, wild>>

\* Node n, which follows p in the chain or is its first, leaves it.
Unlink(n, p) ==
    IF p = 0 THEN head' = node[n].next /\ UNCHANGED node
             ELSE node' = [node EXCEPT ![p].next = node[n].next] /\ UNCHANGED head

\* ... takes the node out of it ...
UnlinkRemoved ==
    /\ pc = "search" /\ at # 0 /\ node[at].pid = pid
    /\ Unlink(at, prev)
    /\ prev' = 0 /\ pc' = "free"
    /\ UNCHANGED <<kernelVars, made, removed, swept, refs, at, again, frameVars,
                   procVars, sweep, wild>>

\* ... and frees it: free_vma_tree, the strings, the node.  What the memory
\* holds from now on is not looked at.  The ELF objects keep their counts.
FreeRemoved ==
    /\ pc = "free"
    /\ node' = [node EXCEPT ![at] = EmptyNode]
    /\ removed' = removed \union {at}
    /\ at' = 0 /\ pc' = "find"
    /\ UNCHANGED <<kernelVars, head, made, swept, refs, prev, again, frameVars,
                   procVars, sweep, wild>>

Write == /\ AddName
         /\ pc' = "frame"
         /\ UNCHANGED <<kernelVars, head, made, removed, swept, walkVars, again, pid,
                        due, procVars, sweep, wild>>

\* No mapping, a mapping without a file, or no mappings at all.
NamelessFrame == /\ pc = "lookup"
                 /\ Write
                 /\ UNCHANGED <<node, refs>>

\* The mapping's ELF object is known.
CachedElfFrame ==
    /\ pc = "lookup" /\ node[proc].maps # 0
    /\ \E v \in Vma : node[proc].elf[v] # NoElf
    /\ Write
    /\ UNCHANGED <<node, refs>>

\* An object of this build id is counted once more, or created with 1.
reference(v, b) ==
    /\ refs' = [refs EXCEPT ![b] = @ + 1]
    /\ node' = [node EXCEPT ![proc].elf[v] = b]

find_or_create_elf ==
    /\ pc = "lookup" /\ node[proc].maps # 0
    /\ \E v \in Vma : /\ node[proc].elf[v] = NoElf
                      /\ \/ \E b \in Elf : reference(v, b)
                         \/ UNCHANGED <<node, refs>>   \* no ELF, no build id
    /\ Write

\* process_name goes into the row, db_writer_push_stack, and the sample goes
\* back to its pool.
PushStack ==
    /\ pc = "frame" /\ todo = <<>>
    /\ pc' = "idle"
    /\ pid' = 0 /\ proc' = 0 /\ nameOf' = 0
    /\ due' = 0 /\ used' = 0
    /\ UNCHANGED <<kernelVars, tableVars, walkVars, again, start, todo, sweep, wild>>

----------------------------------------------------------------------------
(* The main thread, when its rings are empty.                              *)

cleanup_dead_processes ==
    /\ sweep.pc = "off"
    /\ sweep' = [NoSweep EXCEPT !.pc = "check", !.at = head]
    /\ UNCHANGED <<kernelVars, tableVars, pc, walkVars, again, frameVars, procVars,
                   wild>>

SweepCheck ==
    /\ sweep.pc = "check"
    /\ sweep' = IF sweep.at = 0 THEN NoSweep
                ELSE IF is_process_alive(node[sweep.at].pid)
                THEN [sweep EXCEPT !.prev = sweep.at, !.at = node[sweep.at].next]
                ELSE [sweep EXCEPT !.pc = "unlink"]
    /\ UNCHANGED <<kernelVars, tableVars, pc, walkVars, again, frameVars, procVars,
                   wild>>

SweepUnlink ==
    /\ sweep.pc = "unlink"
    /\ Unlink(sweep.at, sweep.prev)
    /\ sweep' = [sweep EXCEPT !.pc = "free", !.temp = sweep.at,
                              !.at = node[sweep.at].next]
    /\ UNCHANGED <<kernelVars, made, removed, swept, refs, pc, walkVars, again,
                   frameVars, procVars, wild>>

SweepFree ==
    /\ sweep.pc = "free"
    /\ node' = [node EXCEPT ![sweep.temp] = EmptyNode]
    /\ swept' = swept \union {sweep.temp}
    /\ sweep' = [sweep EXCEPT !.pc = "check", !.temp = 0]
    /\ UNCHANGED <<kernelVars, head, made, removed, refs, pc, walkVars, again,
                   frameVars, procVars, wild>>

----------------------------------------------------------------------------
(* Use after free.                                                         *)

Freed == removed \union swept

\* The nodes that the next step of the symbolizer reads or writes ...
SymbolizerTouches ==
    CASE pc \in {"walk", "free"} -> {at}
      [] pc = "search" -> IF at # 0 /\ node[at].pid = pid THEN {at, prev} ELSE {at}
      [] pc = "lookup" \/ AtUserFrame -> {proc}
      [] pc = "frame" /\ todo = <<>> -> {nameOf}
      [] OTHER -> {}

\* ... and that of the main thread.
SweepTouches ==
    CASE sweep.pc = "check" -> {sweep.at}
      [] sweep.pc = "unlink" -> {sweep.at, sweep.prev}
      [] sweep.pc = "free" -> {sweep.temp}
      [] OTHER -> {}

UseFreed ==
    /\ Freed \intersect (SymbolizerTouches \union SweepTouches) # {}
    /\ wild' = TRUE
    /\ UNCHANGED <<kernelVars, tableVars, pc, walkVars, again, frameVars, procVars,
                   sweep>>

----------------------------------------------------------------------------

Kernel == \E p \in Pid : Spawn(p) \/ Exit(p)

find_new_process == \/ find_process \/ Walk \/ FindCached \/ ReadStart
                    \/ CheckAlive \/ NoProcess \/ parse_process_memory_maps
                    \/ InsertNode \/ LinkNode

symbolize_sample ==
    \/ find_new_process
    \/ SkipFrame \/ PlainFrame \/ CheckReuse
    \/ remove_process \/ SearchOn \/ NotFound \/ UnlinkRemoved \/ FreeRemoved
    \/ NamelessFrame \/ CachedElfFrame \/ find_or_create_elf
    \/ PushStack

SymbolizerStep ==
    /\ Freed \intersect SymbolizerTouches = {}
    /\ \/ \E p \in Pid, s \in Frames : symbolizer_thread_func(p, s)
       \/ symbolize_sample

SweepStep ==
    /\ Freed \intersect SweepTouches = {}
    /\ cleanup_dead_processes \/ SweepCheck \/ SweepUnlink \/ SweepFree

Next == ~wild /\ (Kernel \/ SymbolizerStep \/ SweepStep \/ UseFreed)

Spec == Init /\ [][Next]_vars

----------------------------------------------------------------------------
(* Properties.                                                             *)

Node == [pid : Pid \union {0}, start : Instance, maps : Instance,
         next : NodeId \union {0}, elf : [Vma -> Elf \union {NoElf}]]
Link == NodeId \union {0}

TypeOK ==
    /\ live \in [Pid -> Instance] /\ births \in Instance
    /\ filter \in Filter
    /\ head \in Link /\ made \in 0..MaxNodes
    /\ node \in [NodeId -> Node]
    /\ removed \subseteq NodeId /\ swept \subseteq NodeId
    /\ refs \in [Elf -> Nat]
    /\ pc \in {"idle", "find", "walk", "alive", "maps", "insert", "link", "frame",
               "lookup", "remove", "search", "free"}
    /\ again \in BOOLEAN /\ wild \in BOOLEAN
    /\ at \in Link /\ prev \in Link
    /\ pid \in Pid \union {0}
    /\ todo \in Seq(Frame) /\ Len(todo) <= MaxDepth
    /\ due \in 0..MaxDepth /\ used \in 0..MaxDepth
    /\ proc \in Link /\ nameOf \in Link
    /\ start \in Instance
    /\ sweep \in [pc : {"off", "check", "unlink", "free"},
                  at : Link, prev : Link, temp : Link]

\* The nodes of the chain: they are in every set that holds the head and, with
\* a node, the next one.
Linked == { n \in NodeId : \A S \in SUBSET NodeId :
              (head \in S \union {0} /\ \A m \in S : node[m].next \in S \union {0})
                 => n \in S }

\* The cache holds one node per pid, although the lookup that misses and the
\* insertion are far apart, the pid is reused in between and the main thread
\* takes nodes out of the chain meanwhile.
OneNodePerPid ==
    \A m, n \in Linked \ Freed : node[m].pid = node[n].pid => m = n

\* Where symbolize_sample uses proc_info and process_name, it has not freed
\* the node they point into itself: in particular process_name does not
\* survive the node that was removed for a reused pid.
OwnFreesUnused == pc \in {"frame", "lookup"} => {proc, nameOf} \intersect removed = {}

\* process.c: the clean-up is called so that there are no concurrent accesses.
\* So nobody uses what it frees.
NoUseAfterFree == ~wild

\* The check of a frame finds the same process, or the lookup a cached one.
ToLookup == pc \in {"frame", "walk"} /\ pc' = "lookup"

\* The mappings in which an address is going to be looked up are those of the
\* process that runs under the pid, if one does.
OfThisProcess == live[pid] # 0 => node'[proc'].maps \in {0, live[pid]}

\* Pid reuse is detected where a start time could be read: neither the check
\* of a frame nor the lookup after it goes on with the mappings of an earlier
\* process.  The start time is read long before the maps, so this needs the
\* order of the reads.
ReuseDetected ==
    [][ToLookup => (node'[proc'].start # 0 => OfThisProcess)]_vars

\* process.c: the start time is a reliable means to tell the processes apart
\* that used one pid.
StartTimeReliable ==
    [][ToLookup => OfThisProcess]_vars

\* Every frame that passes the filter appears in the stack once, also when
\* the process exits or is replaced in the middle of it; names are left out
\* only when the buffer is full.
FramesKept ==
    (pc = "frame" /\ todo = <<>>) => used <= due /\ (used = due \/ used >= BufferNames)

\* process.c: free_vma_tree releases the references of the mappings.  So a
\* count is the number of mappings that point to the object.
ReferencesReleased ==
    \A b \in Elf :
        refs[b] = Cardinality({ x \in NodeId \X Vma : node[x[1]].elf[x[2]] = b })
=============================================================================
