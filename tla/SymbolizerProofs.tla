-------------------------- MODULE SymbolizerProofs --------------------------
(***************************************************************************)
(* What Symbolizer guarantees for every set of pids, mappings and build    *)
(* ids and any number of births and nodes, whatever the main thread's      *)
(* cleanup does to the chain meanwhile: the types, every frame that passes *)
(* the filter once in the stack, no use of what the symbolizer itself      *)
(* freed, and no frame that is looked up in the mappings of an earlier     *)
(* process if the start time could be read.                                *)
(***************************************************************************)
EXTENDS Symbolizer, SequenceTheorems, FiniteSetTheorems, TLAPS

----------------------------------------------------------------------------
(* The inductive invariant.                                                *)

\* A position in the code says which pointers are set.  Every pointer into
\* the chain is to a node that was allocated, so a new node was never freed.
Placed ==
    /\ pc # "idle" => pid \in Pid
    /\ pc = "lookup" => proc # 0
    /\ pc = "free" => at # 0
    /\ sweep.pc = "unlink" => sweep.at # 0
    /\ sweep.pc = "free" => sweep.temp # 0
    /\ head <= made /\ at <= made
    /\ \A n \in NodeId : node[n].next <= made
    /\ \A n \in removed : n <= made
    /\ pc \in {"insert", "link"} => made # 0 /\ made \notin removed

Ahead == Cardinality(KeptOf(todo))
Sums  == used + Ahead <= due /\ (used + Ahead = due \/ used >= BufferNames)

\* A frame that passes the filter is in the stack, is still to come, or found
\* the buffer full.  While a mapping is looked up, or the pid once more, the
\* frame it is done for is the next one.
Counted ==
    /\ pc = "idle" => todo = <<>>
    /\ pc \in {"idle", "frame", "lookup"} => ~again
    /\ pc = "lookup" \/ again => todo # <<>> /\ Kept(Head(todo))
    /\ Sums

\* Births are numbered: whoever runs under a pid is not older than what was
\* read about the pid before.
Ages ==
    /\ \A p \in Pid : live[p] <= births
    /\ start <= births
    /\ pc \in {"alive", "maps"} => live[pid] = 0 \/ live[pid] >= start
    /\ \A n \in NodeId : node[n].pid \in Pid =>
          /\ node[n].maps <= births
          /\ node[n].maps # 0 => node[n].start <= node[n].maps
          /\ live[node[n].pid] = 0 \/ live[node[n].pid] >= node[n].maps

\* The node in use belongs to the sample's pid, unless it is freed.
Owner ==
    /\ pc \in {"insert", "link"} /\ made \notin Freed => node[made].pid = pid
    /\ pc \in {"frame", "lookup"} /\ proc # 0 /\ proc \notin Freed
          => node[proc].pid = pid

Inv == TypeOK /\ Placed /\ Counted /\ OwnFreesUnused /\ Ages /\ Owner

----------------------------------------------------------------------------
(* Frames.                                                                 *)

LEMMA TailIs ==
    ASSUME NEW s \in Seq(Frame), s # <<>>
    PROVE  /\ Len(s) \in Nat \ {0} /\ Tail(s) \in Seq(Frame) /\ Len(Tail(s)) = Len(s) - 1
           /\ Head(s) \in Frame /\ Head(s) = s[1]
           /\ \A k \in 1..(Len(s) - 1) : Tail(s)[k] = s[k + 1]
<1>1. Len(s) \in Nat \ {0}
  BY EmptySeq
<1>2. /\ Head(s) \in Frame /\ Tail(s) \in Seq(Frame) /\ Len(Tail(s)) = Len(s) - 1
      /\ \A k \in 1..Len(Tail(s)) : Tail(s)[k] = s[k + 1]
  BY HeadTailProperties
<1>3. Head(s) = s[1]
  BY <1>1
<1> QED
  BY <1>1, <1>2, <1>3

LEMMA KeptFinite ==
    \A s \in Seq(Frame) : /\ IsFiniteSet(KeptOf(s))
                          /\ Cardinality(KeptOf(s)) \in Nat
                          /\ Cardinality(KeptOf(s)) <= Len(s)
<1> SUFFICES ASSUME NEW s \in Seq(Frame)
             PROVE  /\ IsFiniteSet(KeptOf(s))
                    /\ Cardinality(KeptOf(s)) \in Nat
                    /\ Cardinality(KeptOf(s)) <= Len(s)
  OBVIOUS
<1>1. Len(s) \in Nat /\ DOMAIN s = 1..Len(s)
  BY LenProperties
<1>2. IsFiniteSet(1..Len(s)) /\ Cardinality(1..Len(s)) = Len(s)
  <2>1. 1 \in Int /\ Len(s) \in Int
    BY <1>1
  <2>2. /\ IsFiniteSet(1..Len(s))
        /\ Cardinality(1..Len(s)) = IF 1 > Len(s) THEN 0 ELSE Len(s) - 1 + 1
    BY <2>1, FS_Interval, Zenon
  <2> QED
    BY <1>1, <2>2
<1>3. KeptOf(s) \in SUBSET (1..Len(s))
  BY <1>1 DEF KeptOf
<1>4. IsFiniteSet(KeptOf(s)) /\ Cardinality(KeptOf(s)) <= Cardinality(1..Len(s))
  BY <1>2, <1>3, FS_Subset
<1>5. Cardinality(KeptOf(s)) \in Nat
  BY <1>4, FS_CardinalityType
<1> QED
  BY <1>2, <1>4, <1>5

\* Taking the first frame off takes one frame that passes the filter off, if
\* it is one.
LEMMA KeptTail ==
    ASSUME NEW s \in Seq(Frame), s # <<>>
    PROVE  /\ Kept(Head(s)) => Cardinality(KeptOf(s)) = Cardinality(KeptOf(Tail(s))) + 1
           /\ ~Kept(Head(s)) => Cardinality(KeptOf(s)) = Cardinality(KeptOf(Tail(s)))
<1> DEFINE T == KeptOf(Tail(s))
           U == { k + 1 : k \in T }
           f == [k \in T |-> k + 1]
<1>1. /\ Len(s) \in Nat \ {0} /\ Tail(s) \in Seq(Frame) /\ Len(Tail(s)) = Len(s) - 1
      /\ Head(s) = s[1] /\ \A k \in 1..(Len(s) - 1) : Tail(s)[k] = s[k + 1]
  BY TailIs
<1>2. DOMAIN s = 1..Len(s) /\ DOMAIN Tail(s) = 1..(Len(s) - 1)
  BY <1>1, LenProperties
<1>3. T = { k \in 1..(Len(s) - 1) : Kept(s[k + 1]) }
  BY <1>1, <1>2 DEF KeptOf
<1>4. KeptOf(s) = { k \in 1..Len(s) : Kept(s[k]) }
  BY <1>2 DEF KeptOf
<1>5. T \subseteq Nat /\ IsFiniteSet(T)
  <2>1. IsFiniteSet(T)
    BY <1>1, KeptFinite
  <2> HIDE DEF T
  <2> QED
    BY <1>1, <1>3, <2>1
<1> HIDE DEF T
<1>6. f \in Bijection(T, U)
  <2>1. f \in [T -> U]
    OBVIOUS
  <2>2. \A a, b \in T : f[a] = f[b] => a = b
    BY <1>5
  <2>3. \A u \in U : \E a \in T : f[a] = u
    OBVIOUS
  <2> QED
    BY <2>1, <2>2, <2>3 DEF Bijection, Injection, Surjection, IsInjective
<1>7. ExistsBijection(T, U)
  BY <1>6 DEF ExistsBijection
<1>8. IsFiniteSet(U) /\ Cardinality(U) = Cardinality(T)
  BY <1>5, <1>7, FS_Bijection
<1>9. \A k : k \in U <=> k \in 1..Len(s) /\ k # 1 /\ Kept(s[k])
  <2>1. ASSUME NEW k \in U
        PROVE  k \in 1..Len(s) /\ k # 1 /\ Kept(s[k])
    <3>1. PICK j \in T : k = j + 1
      OBVIOUS
    <3> QED
      BY <1>1, <1>3, <3>1
  <2>2. ASSUME NEW k \in 1..Len(s), k # 1, Kept(s[k])
        PROVE  k \in U
    <3>1. k - 1 \in 1..(Len(s) - 1) /\ (k - 1) + 1 = k
      BY <1>1, <2>2
    <3>2. k - 1 \in T
      BY <1>3, <2>2, <3>1
    <3> QED
      BY <3>1, <3>2
  <2> QED
    BY <2>1, <2>2
<1>10. 1 \notin U /\ 1 \in 1..Len(s)
  BY <1>1, <1>9
<1> HIDE DEF U
<1>11. CASE Kept(Head(s))
  <2>1. KeptOf(s) = U \union {1}
    BY <1>1, <1>4, <1>9, <1>10, <1>11
  <2>2. Cardinality(U \union {1}) = Cardinality(U) + 1
    BY <1>8, <1>10, FS_AddElement
  <2> QED
    BY <1>8, <1>11, <2>1, <2>2 DEF T
<1>12. CASE ~Kept(Head(s))
  <2>1. KeptOf(s) = U
    BY <1>1, <1>4, <1>9, <1>12
  <2> QED
    BY <1>8, <1>12, <2>1 DEF T
<1> QED
  BY <1>11, <1>12

\* One frame is done: it is in the stack, or it found the buffer full, or it
\* did not pass the filter.
FrameDone ==
    /\ todo # <<>> /\ todo' = Tail(todo)
    /\ UNCHANGED <<due, filter>>
    /\ \/ Kept(Head(todo)) /\ used' = used + 1
       \/ Kept(Head(todo)) /\ used' = used /\ used >= BufferNames
       \/ ~Kept(Head(todo)) /\ used' = used

LEMMA FrameDoneCounts ==
    ASSUME TypeOK, Sums, FrameDone
    PROVE  /\ todo' \in Seq(Frame) /\ Len(todo') <= MaxDepth
           /\ used' \in 0..MaxDepth /\ Sums'
<1>1. /\ todo \in Seq(Frame) /\ Len(todo) <= MaxDepth /\ MaxDepth \in Nat /\ BufferNames \in Nat
      /\ due \in 0..MaxDepth /\ used \in 0..MaxDepth
  BY SymbolizerAssumption DEF TypeOK
<1>2. Len(todo) \in Nat \ {0} /\ Tail(todo) \in Seq(Frame) /\ Len(Tail(todo)) = Len(todo) - 1
  BY <1>1, TailIs DEF FrameDone
<1>3. Ahead \in Nat /\ Cardinality(KeptOf(Tail(todo))) \in Nat
  BY <1>1, <1>2, KeptFinite DEF Ahead
<1>4. Ahead' = Cardinality(KeptOf(Tail(todo)))
  BY DEF FrameDone, Ahead, KeptOf, Kept
<1>5. /\ Kept(Head(todo)) => Ahead = Ahead' + 1
      /\ ~Kept(Head(todo)) => Ahead = Ahead'
  BY <1>1, <1>4, KeptTail DEF FrameDone, Ahead
<1>6. used + Ahead <= due /\ (used + Ahead = due \/ used >= BufferNames)
  BY DEF Sums
<1>7. /\ used' \in 0..MaxDepth /\ used' + Ahead' <= due
      /\ used' + Ahead' = due \/ used' >= BufferNames
  <2>1. Ahead' \in Nat
    BY <1>3, <1>4
  <2>2. \/ Ahead = Ahead' + 1 /\ used' = used + 1
        \/ Ahead = Ahead' + 1 /\ used' = used /\ used >= BufferNames
        \/ Ahead = Ahead' /\ used' = used
    <3> HIDE DEF Ahead, Kept
    <3> QED
      BY <1>5 DEF FrameDone
  <2>3. ASSUME NEW a \in Nat, NEW b \in Nat, NEW d \in 0..MaxDepth, NEW u \in 0..MaxDepth,
               NEW v, u + a <= d, u + a = d \/ u >= BufferNames,
               \/ a = b + 1 /\ v = u + 1
               \/ a = b + 1 /\ v = u /\ u >= BufferNames
               \/ a = b /\ v = u
        PROVE  v \in 0..MaxDepth /\ v + b <= d /\ (v + b = d \/ v >= BufferNames)
    BY <1>1, <2>3
  <2> QED
    BY <1>1, <1>3, <1>6, <2>1, <2>2, <2>3
<1>8. todo' \in Seq(Frame) /\ Len(todo') <= MaxDepth
  BY <1>1, <1>2 DEF FrameDone
<1> QED
  BY <1>7, <1>8 DEF Sums, FrameDone

LEMMA SameFrames ==
    ASSUME UNCHANGED <<todo, used, due, filter>>, Sums
    PROVE  Sums'
  BY DEF Sums, Ahead, KeptOf, Kept

----------------------------------------------------------------------------
(* Steps.                                                                  *)

\* The symbolizer's steps that only move it on.
Moves == \/ find_process \/ Walk \/ ReadStart \/ CheckAlive \/ CheckReuse
         \/ remove_process \/ SearchOn \/ NotFound

\* Those with which find_new_process returns.
Returns == FindCached \/ NoProcess \/ LinkNode

\* Those that write a name and look at the process for it, and all that are
\* done with a frame.
Looks == NamelessFrame \/ CachedElfFrame \/ find_or_create_elf
TakesFrame == SkipFrame \/ PlainFrame \/ Looks

\* Those that change the chain, other than at a return.
Changes == \/ parse_process_memory_maps \/ InsertNode \/ UnlinkRemoved
           \/ FreeRemoved

\* The symbolizer touches no freed node.
Sound == Freed \intersect SymbolizerTouches = {}

LEMMA Steps ==
    ASSUME [Next]_vars
    PROVE  \/ UNCHANGED vars
           \/ \E p \in Pid : Spawn(p) \/ Exit(p)
           \/ \E p \in Pid, s \in Frames : symbolizer_thread_func(p, s)
           \/ Sound /\ (Moves \/ Returns)
           \/ TakesFrame \/ Changes \/ PushStack
           \/ cleanup_dead_processes \/ SweepCheck \/ SweepUnlink \/ SweepFree
           \/ UseFreed
  BY DEF Next, Kernel, SymbolizerStep, SweepStep, symbolize_sample, find_new_process,
         Moves, Returns, Looks, TakesFrame, Changes, Sound

LEMMA TouchesCached ==
    ASSUME Sound
    PROVE  /\ FindCached => at \notin Freed
           /\ CheckReuse => proc \notin Freed
<1>1. FindCached => at \in SymbolizerTouches
  BY DEF SymbolizerTouches, FindCached, AtUserFrame
<1>2. CheckReuse => proc \in SymbolizerTouches
  BY DEF SymbolizerTouches, CheckReuse, AtUserFrame
<1> QED
  BY <1>1, <1>2 DEF Sound

LEMMA FramesAreSeq == \A s \in Frames : s \in Seq(Frame) /\ Len(s) <= MaxDepth
<1> SUFFICES ASSUME NEW s \in Frames
             PROVE  s \in Seq(Frame) /\ Len(s) <= MaxDepth
  OBVIOUS
<1>1. PICK d \in 0..MaxDepth : s \in [1..d -> Frame]
  BY DEF Frames
<1>2. d \in Nat /\ d <= MaxDepth
  BY <1>1, SymbolizerAssumption
<1> QED
  BY <1>1, <1>2

LEMMA EmptyNodeType == EmptyNode \in Node
  BY SymbolizerAssumption DEF EmptyNode, Node, Instance, NodeId

\* How find_new_process returns to its caller.
LEMMA ReturnEffect ==
    ASSUME TypeOK, Counted, pc \in {"walk", "alive", "maps", "link"},
           NEW n \in Link, Return(n), UNCHANGED <<due, filter>>
    PROVE  /\ proc' = n /\ nameOf' = n /\ at' = 0 /\ start' = 0 /\ again' = FALSE
           /\ pc' \in {"frame", "lookup"} /\ (pc' = "lookup" => again /\ n # 0)
           /\ todo' \in Seq(Frame) /\ Len(todo') <= MaxDepth
           /\ used' \in 0..MaxDepth /\ Counted'
<1>1. proc' = n /\ nameOf' = n /\ at' = 0 /\ start' = 0 /\ again' = FALSE
  BY DEF Return
<1>2. CASE again /\ n = 0
  <2>1. FrameDone /\ pc' = "frame"
    BY <1>2 DEF Return, Counted, FrameDone
  <2>2. /\ todo' \in Seq(Frame) /\ Len(todo') <= MaxDepth
        /\ used' \in 0..MaxDepth /\ Sums'
    BY <2>1, FrameDoneCounts DEF Counted
  <2>3. Counted'
    BY <1>1, <2>1, <2>2 DEF Counted
  <2> QED
    BY <1>1, <2>1, <2>2, <2>3
<1>3. CASE ~(again /\ n = 0)
  <2>1. /\ UNCHANGED <<used, todo>> /\ pc' \in {"frame", "lookup"}
        /\ pc' = "lookup" => again /\ n # 0
    BY <1>3 DEF Return
  <2>2. Sums'
    BY <2>1, SameFrames DEF Counted
  <2>3. again => todo # <<>> /\ Kept(Head(todo))
    BY DEF Counted
  <2>4. Kept(Head(todo)) => Kept(Head(todo))'
    BY <2>1 DEF Kept
  <2>5. todo' \in Seq(Frame) /\ Len(todo') <= MaxDepth /\ used' \in 0..MaxDepth
    BY <2>1 DEF TypeOK
  <2>6. Counted'
    BY <1>1, <2>1, <2>2, <2>3, <2>4 DEF Counted
  <2> QED
    BY <1>1, <2>1, <2>5, <2>6
<1> QED
  BY <1>2, <1>3

LEMMA ReturnsEffect ==
    ASSUME TypeOK, Counted, Returns
    PROVE  /\ pc \in {"walk", "alive", "maps", "link"}
           /\ UNCHANGED <<kernelVars, node, made, removed, swept, refs, prev, pid, due,
                          sweep, wild>>
           /\ \/ FindCached /\ at \in NodeId /\ node[at].pid = pid /\ Return(at) /\ head' = head
              \/ NoProcess /\ Return(0) /\ head' = head
              \/ LinkNode /\ pc = "link" /\ Return(made) /\ head' = made
           /\ proc' \in {0, at, made} /\ nameOf' = proc' /\ at' = 0 /\ start' = 0
           /\ again' = FALSE
           /\ pc' \in {"frame", "lookup"} /\ (pc' = "lookup" => again /\ proc' # 0)
           /\ todo' \in Seq(Frame) /\ Len(todo') <= MaxDepth
           /\ used' \in 0..MaxDepth /\ Counted'
<1>0. at \in Link /\ made \in Link /\ 0 \in Link
  BY DEF TypeOK, Link, NodeId
<1>1. CASE FindCached
  <2>1. /\ pc = "walk" /\ at \in NodeId /\ node[at].pid = pid /\ Return(at) /\ head' = head
        /\ UNCHANGED <<kernelVars, node, made, removed, swept, refs, prev, pid, due,
                       sweep, wild>>
    BY <1>0, <1>1 DEF FindCached, tableVars, Link
  <2>2. UNCHANGED <<due, filter>>
    BY <2>1 DEF kernelVars
  <2> QED
    BY <1>0, <1>1, <2>1, <2>2, ReturnEffect
<1>2. CASE NoProcess
  <2>1. /\ pc \in {"walk", "alive", "maps"} /\ Return(0) /\ head' = head
        /\ UNCHANGED <<kernelVars, node, made, removed, swept, refs, prev, pid, due,
                       sweep, wild>>
    BY <1>2 DEF NoProcess, tableVars
  <2>2. UNCHANGED <<due, filter>>
    BY <2>1 DEF kernelVars
  <2> QED
    BY <1>0, <1>2, <2>1, <2>2, ReturnEffect
<1>3. CASE LinkNode
  <2>1. /\ pc = "link" /\ Return(made) /\ head' = made
        /\ UNCHANGED <<kernelVars, node, made, removed, swept, refs, prev, pid, due,
                       sweep, wild>>
    BY <1>3 DEF LinkNode
  <2>2. UNCHANGED <<due, filter>>
    BY <2>1 DEF kernelVars
  <2> QED
    BY <1>0, <1>3, <2>1, <2>2, ReturnEffect
<1> QED
  BY <1>1, <1>2, <1>3 DEF Returns

\* What a node says about its process.
About(n) == <<node[n].pid, node[n].start, node[n].maps>>

\* A frame that is done: its name is written, and a mapping may have got its
\* ELF object.
LEMMA FrameEffect ==
    ASSUME TypeOK, Placed, Counted, TakesFrame
    PROVE  /\ FrameDone /\ pc' = "frame" /\ ~again
           /\ pc \in {"frame", "lookup"}
           /\ UNCHANGED <<kernelVars, head, made, removed, swept, walkVars, again, pid,
                          due, procVars, sweep, wild>>
           /\ node' \in [NodeId -> Node] /\ refs' \in [Elf -> Nat]
           /\ \A n \in NodeId : About(n)' = About(n) /\ node'[n].next = node[n].next
<1>1. CASE SkipFrame
  <2>1. FrameDone
    BY <1>1 DEF SkipFrame, FrameDone, kernelVars
  <2>2. UNCHANGED <<node, refs>> /\ pc = "frame" /\ pc' = "frame"
    BY <1>1 DEF SkipFrame, tableVars
  <2>3. UNCHANGED <<kernelVars, head, made, removed, swept, walkVars, again, pid,
                    due, procVars, sweep, wild>>
    BY <1>1 DEF SkipFrame, tableVars
  <2> QED
    BY <2>1, <2>2, <2>3 DEF TypeOK, About, Counted
<1>2. CASE PlainFrame
  <2>1. FrameDone
    BY <1>2, SymbolizerAssumption DEF PlainFrame, AddName, FrameDone, kernelVars, TypeOK
  <2>2. UNCHANGED <<node, refs>> /\ pc = "frame" /\ pc' = "frame"
    BY <1>2 DEF PlainFrame, tableVars
  <2>3. UNCHANGED <<kernelVars, head, made, removed, swept, walkVars, again, pid,
                    due, procVars, sweep, wild>>
    BY <1>2 DEF PlainFrame, tableVars
  <2> QED
    BY <2>1, <2>2, <2>3 DEF TypeOK, About, Counted
<1>3. CASE Looks
  <2>1. pc = "lookup" /\ Write
    BY <1>3 DEF Looks, NamelessFrame, CachedElfFrame, find_or_create_elf
  <2>2. FrameDone
    BY <2>1, SymbolizerAssumption DEF Write, AddName, FrameDone, kernelVars, TypeOK, Counted
  <2>3. /\ pc' = "frame"
        /\ UNCHANGED <<kernelVars, head, made, removed, swept, walkVars, again, pid,
                       due, procVars, sweep, wild>>
    BY <2>1 DEF Write
  <2>4. /\ node' \in [NodeId -> Node] /\ refs' \in [Elf -> Nat]
        /\ \A n \in NodeId : About(n)' = About(n) /\ node'[n].next = node[n].next
    <3>1. CASE UNCHANGED <<node, refs>>
      BY <3>1 DEF TypeOK, About
    <3>2. CASE \E v \in Vma, b \in Elf : reference(v, b)
      <4>1. PICK v \in Vma, b \in Elf : reference(v, b)
        BY <3>2
      <4>2. refs' \in [Elf -> Nat]
        BY <4>1 DEF reference, TypeOK
      <4>3. proc \in NodeId
        BY <2>1 DEF TypeOK, Placed, Link
      <4>4. node[proc] \in Node /\ node[proc].elf \in [Vma -> Elf \union {NoElf}]
        BY <4>3 DEF TypeOK, Node
      <4>5. node' = [node EXCEPT ![proc] = [node[proc] EXCEPT !.elf =
                        [node[proc].elf EXCEPT ![v] = b]]]
        BY <4>1 DEF reference
      <4>6. [node[proc].elf EXCEPT ![v] = b] \in [Vma -> Elf \union {NoElf}]
        BY <4>4
      <4>7. [node[proc] EXCEPT !.elf = [node[proc].elf EXCEPT ![v] = b]] \in Node
        BY <4>4, <4>6 DEF Node
      <4>8. node' \in [NodeId -> Node]
        BY <4>3, <4>5, <4>7 DEF TypeOK
      <4>9. \A n \in NodeId : About(n)' = About(n) /\ node'[n].next = node[n].next
        <5> SUFFICES ASSUME NEW n \in NodeId
                     PROVE  About(n)' = About(n) /\ node'[n].next = node[n].next
          OBVIOUS
        <5>1. node \in [NodeId -> Node]
          BY DEF TypeOK
        <5>2. CASE n = proc
          BY <4>4, <4>5, <5>1, <5>2 DEF About, Node
        <5>3. CASE n # proc
          BY <4>5, <5>1, <5>3 DEF About
        <5> QED
          BY <5>2, <5>3
      <4> QED
        BY <4>2, <4>8, <4>9
    <3> QED
      BY <1>3, <3>1, <3>2 DEF Looks, NamelessFrame, CachedElfFrame, find_or_create_elf
  <2> QED
    BY <2>1, <2>2, <2>3, <2>4 DEF Counted
<1> QED
  BY <1>1, <1>2, <1>3 DEF TakesFrame

\* A node loses its successor, or the head moves on.
LEMMA UnlinkEffect ==
    ASSUME TypeOK, NEW n \in NodeId, NEW p \in Link, Unlink(n, p),
           \A m \in NodeId : node[m].next <= made, head <= made
    PROVE  /\ head' \in Link /\ head' <= made /\ node' \in [NodeId -> Node]
           /\ \A m \in NodeId : About(m)' = About(m) /\ node'[m].next <= made
<1>1. node \in [NodeId -> Node] /\ node[n] \in Node /\ node[n].next \in Link
  BY DEF TypeOK, Node, Link
<1>2. CASE p = 0
  BY <1>1, <1>2 DEF Unlink, TypeOK, About
<1>3. CASE p # 0
  <2>1. p \in NodeId /\ head' = head /\ node' = [node EXCEPT ![p].next = node[n].next]
    BY <1>3 DEF Unlink, Link
  <2>2. node[p] \in Node
    BY <1>1, <2>1
  <2>3. [node[p] EXCEPT !.next = node[n].next] \in Node
    BY <1>1, <2>2 DEF Node, Link
  <2>4. node' \in [NodeId -> Node]
    BY <1>1, <2>1, <2>3
  <2>5. ASSUME NEW m \in NodeId
        PROVE  About(m)' = About(m) /\ node'[m].next <= made
    <3>1. CASE m = p
      BY <1>1, <2>1, <2>2, <3>1 DEF About, Node
    <3>2. CASE m # p
      BY <1>1, <2>1, <3>2 DEF About
    <3> QED
      BY <3>1, <3>2
  <2> QED
    BY <2>1, <2>4, <2>5 DEF TypeOK
<1> QED
  BY <1>2, <1>3

\* A node is freed.
LEMMA FreeEffect ==
    ASSUME TypeOK, NEW n \in NodeId, node' = [node EXCEPT ![n] = EmptyNode],
           \A m \in NodeId : node[m].next <= made
    PROVE  /\ node' \in [NodeId -> Node]
           /\ node'[n] = EmptyNode /\ node'[n].pid \notin Pid
           /\ \A m \in NodeId \ {n} : node'[m] = node[m]
           /\ \A m \in NodeId : node'[m].next <= made
<1>1. node \in [NodeId -> Node] /\ made \in Nat
  BY SymbolizerAssumption DEF TypeOK
<1>2. node'[n] = EmptyNode /\ \A m \in NodeId \ {n} : node'[m] = node[m]
  BY <1>1
<1>3. node' \in [NodeId -> Node]
  BY <1>1, EmptyNodeType
<1>4. EmptyNode.next = 0 /\ EmptyNode.pid = 0
  BY DEF EmptyNode
<1>5. ASSUME NEW m \in NodeId
      PROVE  node'[m].next <= made
  <2>1. CASE m = n
    BY <1>1, <1>2, <1>4, <2>1
  <2>2. CASE m # n
    BY <1>2, <2>2
  <2> QED
    BY <2>1, <2>2
<1> QED
  BY <1>2, <1>3, <1>4, <1>5, SymbolizerAssumption

\* A node is allocated and filled with what was read.
LEMMA MakeEffect ==
    ASSUME TypeOK, Placed, parse_process_memory_maps
    PROVE  /\ pc = "maps" /\ pid \in Pid /\ live[pid] # 0
           /\ made' = made + 1 /\ made' \in NodeId /\ node' \in [NodeId -> Node]
           /\ node'[made'].pid = pid /\ node'[made'].start = start
           /\ node'[made'].maps \in {0, live[pid]} /\ node'[made'].next = 0
           /\ \A n \in NodeId \ {made'} : node'[n] = node[n]
<1>1. /\ pc = "maps" /\ pid \in Pid /\ live[pid] # 0 /\ live[pid] \in Instance
      /\ made' = made + 1 /\ made' \in NodeId /\ start \in Instance
  BY SymbolizerAssumption DEF parse_process_memory_maps, is_process_alive, Placed, TypeOK, NodeId
<1>2. PICK m \in {0, live[pid]} : node' = [node EXCEPT ![made + 1] =
         [EmptyNode EXCEPT !.pid = pid, !.start = start, !.maps = m]]
  BY DEF parse_process_memory_maps
<1> DEFINE new == [EmptyNode EXCEPT !.pid = pid, !.start = start, !.maps = m]
<1>3. m \in Instance
  BY <1>1, <1>2, SymbolizerAssumption DEF Instance
<1>4. new \in Node /\ new.pid = pid /\ new.start = start /\ new.maps = m /\ new.next = 0
  BY <1>1, <1>3, EmptyNodeType DEF EmptyNode, Node
<1>5. node \in [NodeId -> Node]
  BY DEF TypeOK
<1> HIDE DEF new
<1>6. node' = [node EXCEPT ![made'] = new]
  BY <1>1, <1>2 DEF new
<1>7. node' \in [NodeId -> Node] /\ node'[made'] = new /\ \A n \in NodeId \ {made'} : node'[n] = node[n]
  BY <1>1, <1>4, <1>5, <1>6
<1> QED
  BY <1>1, <1>2, <1>4, <1>7

LEMMA InsertEffect ==
    ASSUME TypeOK, Placed, InsertNode
    PROVE  /\ made \in NodeId /\ node' \in [NodeId -> Node]
           /\ \A m \in NodeId : About(m)' = About(m) /\ node'[m].next <= made
<1>1. /\ made \in NodeId /\ node \in [NodeId -> Node] /\ node[made] \in Node
      /\ head \in Link /\ head <= made
      /\ node' = [node EXCEPT ![made] = [node[made] EXCEPT !.next = head]]
  BY SymbolizerAssumption DEF InsertNode, TypeOK, Placed, NodeId
<1>2. [node[made] EXCEPT !.next = head] \in Node
  BY <1>1 DEF Node, Link
<1>3. ASSUME NEW m \in NodeId
      PROVE  About(m)' = About(m) /\ node'[m].next <= made
  <2>1. CASE m = made
    BY <1>1, <2>1 DEF About, Node
  <2>2. CASE m # made
    BY <1>1, <2>2 DEF About, Placed
  <2> QED
    BY <2>1, <2>2
<1> QED
  BY <1>1, <1>2, <1>3

----------------------------------------------------------------------------
(* The invariant holds.                                                    *)

LEMMA InvInit == ASSUME Init PROVE Inv
<1>1. KeptOf(<<>>) = {} /\ Cardinality({}) = 0
  BY FS_EmptySet DEF KeptOf
<1>2. 0 \in Instance /\ 0 \in 0..MaxDepth /\ 0 \in 0..MaxNodes /\ 0 <= MaxDepth
  BY SymbolizerAssumption DEF Instance
<1>3. TypeOK
  <2>1. todo \in Seq(Frame) /\ Len(todo) = 0
    BY DEF Init
  <2>2. refs \in [Elf -> Nat] /\ node \in [NodeId -> Node] /\ live \in [Pid -> Instance]
    BY <1>2, EmptyNodeType DEF Init
  <2>3. sweep \in [pc : {"off", "check", "unlink", "free"},
                  at : Link, prev : Link, temp : Link]
    BY DEF Init, NoSweep, Link
  <2> QED
    BY <1>2, <2>1, <2>2, <2>3 DEF Init, TypeOK, Link
<1>4. Placed
  BY SymbolizerAssumption DEF Init, Placed, NodeId, NoSweep, EmptyNode
<1>5. Ahead = 0
  BY <1>1 DEF Init, Ahead
<1>6. Sums
  BY <1>5 DEF Init, Sums
<1>7. Counted
  BY <1>6 DEF Init, Counted
<1>8. OwnFreesUnused
  BY DEF Init, OwnFreesUnused
<1>9. Ages
  <2>1. \A n \in NodeId : node[n].pid = 0
    BY DEF Init, EmptyNode
  <2> QED
    BY <2>1, SymbolizerAssumption DEF Init, Ages
<1>10. Owner
  BY DEF Init, Owner
<1> QED
  BY <1>3, <1>4, <1>7, <1>8, <1>9, <1>10 DEF Inv

LEMMA TypeNext ==
    ASSUME TypeOK, Placed, Counted, [Next]_vars
    PROVE  TypeOK'
<1>0. /\ node \in [NodeId -> Node] /\ 0 \in Link /\ made \in Link
      /\ \A n \in NodeId : node[n].next \in Link
      /\ 0 \in Instance /\ MaxNodes \in Nat /\ MaxBirths \in Nat
  BY SymbolizerAssumption DEF TypeOK, Link, Node, NodeId, Instance
<1>1. CASE UNCHANGED vars
  BY <1>1 DEF TypeOK, vars, kernelVars, tableVars, walkVars, frameVars, procVars
<1>2. ASSUME NEW p \in Pid, Spawn(p) \/ Exit(p)
      PROVE  TypeOK'
  <2>1. births' \in Instance /\ live' \in [Pid -> Instance]
    BY <1>0, <1>2 DEF Spawn, Exit, TypeOK, Instance
  <2>2. UNCHANGED <<filter, tableVars, pc, walkVars, again, frameVars, procVars, sweep, wild>>
    BY <1>2 DEF Spawn, Exit
  <2> QED
    BY <2>1, <2>2 DEF TypeOK, tableVars, walkVars, frameVars, procVars
<1>3. ASSUME NEW p \in Pid, NEW s \in Frames, symbolizer_thread_func(p, s)
      PROVE  TypeOK'
  <2>1. s \in Seq(Frame) /\ Len(s) <= MaxDepth /\ Len(s) \in Nat
    BY FramesAreSeq, LenProperties
  <2>2. Cardinality(KeptOf(s)) \in Nat /\ Cardinality(KeptOf(s)) <= Len(s)
    BY <2>1, KeptFinite
  <2>3. /\ due' \in 0..MaxDepth /\ used' \in 0..MaxDepth
        /\ todo' \in Seq(Frame) /\ Len(todo') <= MaxDepth
        /\ pid' \in Pid \union {0} /\ pc' = "find"
        /\ UNCHANGED <<kernelVars, tableVars, walkVars, again, procVars, sweep, wild>>
    BY <1>3, <2>1, <2>2, SymbolizerAssumption DEF symbolizer_thread_func
  <2> QED
    BY <2>3 DEF TypeOK, kernelVars, tableVars, walkVars, procVars
<1>4. CASE Moves
  <2>1. /\ at' \in Link /\ prev' \in Link /\ start' \in Instance /\ again' \in BOOLEAN
        /\ pc' \in {"walk", "alive", "maps", "lookup", "remove", "search", "find"}
    <3>1. CASE find_process \/ remove_process \/ NotFound
      BY <1>0, <3>1 DEF find_process, remove_process, NotFound, TypeOK, procVars
    <3>2. CASE Walk \/ SearchOn
      BY <1>0, <3>2 DEF Walk, SearchOn, TypeOK, Link, procVars
    <3>3. CASE ReadStart
      <4>1. live[pid] \in Instance
        BY <3>3 DEF ReadStart, TypeOK, Placed
      <4> QED
        BY <1>0, <3>3, <4>1 DEF ReadStart, get_process_start_time, TypeOK, walkVars
    <3>4. CASE CheckAlive \/ CheckReuse
      BY <3>4 DEF CheckAlive, CheckReuse, TypeOK, walkVars, procVars
    <3> QED
      BY <1>4, <3>1, <3>2, <3>3, <3>4 DEF Moves
  <2>2. UNCHANGED <<kernelVars, tableVars, frameVars, proc, nameOf, sweep, wild>>
    BY <1>4 DEF Moves, find_process, Walk, ReadStart, CheckAlive, CheckReuse,
                remove_process, SearchOn, NotFound, procVars
  <2> QED
    BY <2>1, <2>2 DEF TypeOK, kernelVars, tableVars, frameVars
<1>5. CASE Returns
  <2>1. /\ UNCHANGED <<kernelVars, node, made, removed, swept, refs, prev, pid, due,
                       sweep, wild>>
        /\ head' \in {head, made}
        /\ proc' \in {0, at, made} /\ nameOf' = proc' /\ at' = 0 /\ start' = 0
        /\ again' = FALSE /\ pc' \in {"frame", "lookup"}
        /\ todo' \in Seq(Frame) /\ Len(todo') <= MaxDepth /\ used' \in 0..MaxDepth
    BY <1>5, ReturnsEffect
  <2> QED
    BY <1>0, <2>1 DEF TypeOK, kernelVars
<1>6. CASE TakesFrame
  <2>1. /\ FrameDone /\ pc' = "frame"
        /\ UNCHANGED <<kernelVars, head, made, removed, swept, walkVars, again, pid,
                       due, procVars, sweep, wild>>
        /\ node' \in [NodeId -> Node] /\ refs' \in [Elf -> Nat]
    BY <1>6, FrameEffect
  <2>2. todo' \in Seq(Frame) /\ Len(todo') <= MaxDepth /\ used' \in 0..MaxDepth
    BY <2>1, FrameDoneCounts DEF Counted
  <2> QED
    BY <2>1, <2>2 DEF TypeOK, kernelVars, walkVars, procVars
<1>7. CASE Changes
  <2>1. /\ node' \in [NodeId -> Node] /\ made' \in 0..MaxNodes /\ head' \in Link
        /\ removed' \subseteq NodeId /\ at' \in Link /\ prev' \in Link
        /\ pc' \in {"insert", "link", "free", "find"}
        /\ UNCHANGED <<kernelVars, swept, refs, again, frameVars, procVars, sweep, wild>>
    <3>1. CASE parse_process_memory_maps
      <4>1. node' \in [NodeId -> Node] /\ made' \in 0..MaxNodes
        BY <1>0, <3>1, MakeEffect DEF NodeId
      <4> QED
        BY <3>1, <4>1 DEF parse_process_memory_maps, TypeOK, walkVars
    <3>2. CASE InsertNode
      <4>1. node' \in [NodeId -> Node]
        BY <3>2, InsertEffect
      <4> QED
        BY <3>2, <4>1 DEF InsertNode, TypeOK, walkVars
    <3>3. CASE UnlinkRemoved
      <4>1. at \in NodeId /\ prev \in Link /\ Unlink(at, prev)
        BY <3>3 DEF UnlinkRemoved, TypeOK, Link
      <4>2. node' \in [NodeId -> Node] /\ head' \in Link
        BY <4>1, UnlinkEffect DEF Placed
      <4> QED
        BY <1>0, <3>3, <4>2 DEF UnlinkRemoved, TypeOK
    <3>4. CASE FreeRemoved
      <4>1. at \in NodeId /\ node' = [node EXCEPT ![at] = EmptyNode]
        BY <3>4 DEF FreeRemoved, TypeOK, Link, Placed
      <4>2. node' \in [NodeId -> Node]
        BY <4>1, FreeEffect DEF Placed
      <4> QED
        BY <1>0, <3>4, <4>1, <4>2 DEF FreeRemoved, TypeOK
    <3> QED
      BY <1>7, <3>1, <3>2, <3>3, <3>4 DEF Changes
  <2> QED
    BY <2>1 DEF TypeOK, kernelVars, frameVars, procVars
<1>8. CASE PushStack
  BY <1>0, <1>8, SymbolizerAssumption
  DEF PushStack, TypeOK, kernelVars, tableVars, walkVars
<1>9. CASE cleanup_dead_processes \/ SweepCheck
  <2>1. sweep' \in [pc : {"off", "check", "unlink", "free"},
                    at : Link, prev : Link, temp : Link]
    <3>1. sweep \in [pc : {"off", "check", "unlink", "free"},
                     at : Link, prev : Link, temp : Link] /\ head \in Link
      BY DEF TypeOK
    <3>2. CASE cleanup_dead_processes
      BY <1>0, <3>1, <3>2 DEF cleanup_dead_processes, NoSweep
    <3>3. CASE SweepCheck
      <4>1. sweep.at # 0 => node[sweep.at].next \in Link
        BY <1>0, <3>1 DEF Link
      <4> QED
        BY <1>0, <3>1, <3>3, <4>1 DEF SweepCheck, NoSweep
    <3> QED
      BY <1>9, <3>2, <3>3
  <2>2. UNCHANGED <<kernelVars, tableVars, pc, walkVars, again, frameVars, procVars, wild>>
    BY <1>9 DEF cleanup_dead_processes, SweepCheck
  <2> QED
    BY <2>1, <2>2 DEF TypeOK, kernelVars, tableVars, walkVars, frameVars, procVars
<1>10. CASE SweepUnlink
  <2>1. /\ sweep \in [pc : {"off", "check", "unlink", "free"},
                      at : Link, prev : Link, temp : Link]
        /\ sweep.at \in NodeId /\ sweep.prev \in Link /\ Unlink(sweep.at, sweep.prev)
    BY <1>10 DEF SweepUnlink, TypeOK, Link, Placed
  <2>2. node' \in [NodeId -> Node] /\ head' \in Link
    BY <2>1, UnlinkEffect DEF Placed
  <2>3. sweep' \in [pc : {"off", "check", "unlink", "free"},
                    at : Link, prev : Link, temp : Link]
    BY <1>0, <1>10, <2>1 DEF SweepUnlink, Link
  <2> QED
    BY <1>10, <2>2, <2>3
    DEF SweepUnlink, TypeOK, kernelVars, walkVars, frameVars, procVars
<1>11. CASE SweepFree
  <2>1. /\ sweep \in [pc : {"off", "check", "unlink", "free"},
                      at : Link, prev : Link, temp : Link]
        /\ sweep.temp \in NodeId /\ node' = [node EXCEPT ![sweep.temp] = EmptyNode]
    BY <1>11 DEF SweepFree, TypeOK, Link, Placed
  <2>2. node' \in [NodeId -> Node]
    BY <2>1, FreeEffect DEF Placed
  <2>3. /\ swept' \subseteq NodeId
        /\ sweep' \in [pc : {"off", "check", "unlink", "free"},
                       at : Link, prev : Link, temp : Link]
    BY <1>0, <1>11, <2>1 DEF SweepFree, TypeOK
  <2> QED
    BY <1>11, <2>2, <2>3
    DEF SweepFree, TypeOK, kernelVars, walkVars, frameVars, procVars
<1>12. CASE UseFreed
  BY <1>12 DEF UseFreed, TypeOK, kernelVars, tableVars, walkVars, frameVars, procVars
<1> QED
  BY <1>1, <1>2, <1>3, <1>4, <1>5, <1>6, <1>7, <1>8, <1>9, <1>10, <1>11, <1>12, Steps

LEMMA PlacedNext ==
    ASSUME TypeOK, Placed, Counted, [Next]_vars
    PROVE  Placed'
<1>0. /\ head \in Nat /\ at \in Nat /\ made \in Nat /\ MaxNodes \in Nat
      /\ \A n \in NodeId : node[n].next \in Nat /\ n \in Nat
      /\ removed \subseteq Nat
  BY SymbolizerAssumption DEF TypeOK, Link, Node, NodeId
<1>1. CASE UNCHANGED vars
  BY <1>1 DEF Placed, vars, kernelVars, tableVars, walkVars, frameVars, procVars
<1>2. ASSUME NEW p \in Pid, Spawn(p) \/ Exit(p)
      PROVE  Placed'
  BY <1>2 DEF Spawn, Exit, Placed, tableVars, walkVars, frameVars, procVars
<1>3. ASSUME NEW p \in Pid, NEW s \in Frames, symbolizer_thread_func(p, s)
      PROVE  Placed'
  BY <1>3 DEF symbolizer_thread_func, Placed, tableVars, walkVars, procVars
<1>4. CASE Moves
  <2>1. UNCHANGED <<tableVars, pid, proc, sweep>>
    BY <1>4 DEF Moves, find_process, Walk, ReadStart, CheckAlive, CheckReuse,
                remove_process, SearchOn, NotFound, procVars, frameVars
  <2>2. /\ pc # "idle" /\ at' <= made
        /\ pc' \notin {"free", "insert", "link"} /\ (pc' = "lookup" => proc # 0)
    <3>1. CASE find_process \/ remove_process \/ NotFound
      BY <1>0, <3>1 DEF find_process, remove_process, NotFound, Placed
    <3>2. CASE Walk \/ SearchOn
      BY <1>0, <3>2 DEF Walk, SearchOn, Placed, TypeOK, Link
    <3>3. CASE ReadStart \/ CheckAlive
      BY <1>0, <3>3 DEF ReadStart, CheckAlive, Placed, walkVars
    <3>4. CASE CheckReuse
      BY <1>0, <3>4 DEF CheckReuse, AtUserFrame, Placed, walkVars
    <3> QED
      BY <1>4, <3>1, <3>2, <3>3, <3>4 DEF Moves
  <2> QED
    BY <2>1, <2>2 DEF Placed, tableVars
<1>5. CASE Returns
  <2>1. /\ UNCHANGED <<node, made, removed, pid, sweep>> /\ pc # "idle"
        /\ head' \in {head, made} /\ at' = 0
        /\ pc' \in {"frame", "lookup"} /\ (pc' = "lookup" => proc' # 0)
    BY <1>5, ReturnsEffect
  <2> QED
    BY <1>0, <2>1 DEF Placed
<1>6. CASE TakesFrame
  <2>1. /\ pc' = "frame" /\ pc \in {"frame", "lookup"}
        /\ UNCHANGED <<head, made, removed, at, pid, sweep>>
        /\ \A n \in NodeId : node'[n].next = node[n].next
    BY <1>6, FrameEffect DEF walkVars
  <2> QED
    BY <2>1 DEF Placed
<1>7. CASE parse_process_memory_maps
  <2>1. /\ made' = made + 1 /\ made' \in NodeId
        /\ node'[made'].next = 0 /\ \A n \in NodeId \ {made'} : node'[n] = node[n]
    BY <1>7, MakeEffect
  <2>2. \A n \in NodeId : node'[n].next <= made'
    BY <1>0, <2>1 DEF Placed
  <2>3. UNCHANGED <<head, removed, at, pid, sweep>> /\ pc = "maps" /\ pc' = "insert"
    BY <1>7 DEF parse_process_memory_maps, walkVars, frameVars
  <2>4. made' \notin removed
    BY <1>0, <2>1 DEF Placed
  <2> QED
    BY <1>0, <2>1, <2>2, <2>3, <2>4 DEF Placed
<1>8. CASE InsertNode
  <2>1. \A n \in NodeId : node'[n].next <= made
    BY <1>8, InsertEffect
  <2> QED
    BY <1>8, <2>1 DEF InsertNode, Placed, walkVars, frameVars
<1>9. CASE UnlinkRemoved
  <2>1. at \in NodeId /\ prev \in Link /\ Unlink(at, prev)
    BY <1>9 DEF UnlinkRemoved, TypeOK, Link
  <2>2. head' <= made /\ \A n \in NodeId : node'[n].next <= made
    BY <2>1, UnlinkEffect DEF Placed
  <2> QED
    BY <1>9, <2>2 DEF UnlinkRemoved, Placed, frameVars
<1>10. CASE FreeRemoved
  <2>1. at \in NodeId /\ node' = [node EXCEPT ![at] = EmptyNode]
    BY <1>10 DEF FreeRemoved, TypeOK, Link, Placed
  <2>2. \A n \in NodeId : node'[n].next <= made
    BY <2>1, FreeEffect DEF Placed
  <2> QED
    BY <1>0, <1>10, <2>2 DEF FreeRemoved, Placed, frameVars
<1>11. CASE PushStack
  BY <1>11 DEF PushStack, Placed, tableVars, walkVars
<1>12. CASE cleanup_dead_processes \/ SweepCheck
  <2>1. sweep'.pc \in {"off", "check", "unlink"} /\ (sweep'.pc = "unlink" => sweep'.at # 0)
    <3>1. sweep \in [pc : {"off", "check", "unlink", "free"},
                     at : Link, prev : Link, temp : Link]
      BY DEF TypeOK
    <3>2. CASE cleanup_dead_processes
      BY <3>2 DEF cleanup_dead_processes, NoSweep
    <3>3. CASE SweepCheck /\ sweep.at = 0
      BY <3>3 DEF SweepCheck, NoSweep
    <3>4. CASE SweepCheck /\ sweep.at # 0
      BY <3>1, <3>4 DEF SweepCheck
    <3> QED
      BY <1>12, <3>2, <3>3, <3>4
  <2> QED
    BY <1>12, <2>1
    DEF cleanup_dead_processes, SweepCheck, Placed, tableVars, walkVars, frameVars, procVars
<1>13. CASE SweepUnlink
  <2>1. /\ sweep \in [pc : {"off", "check", "unlink", "free"},
                      at : Link, prev : Link, temp : Link]
        /\ sweep.at \in NodeId /\ sweep.prev \in Link /\ Unlink(sweep.at, sweep.prev)
    BY <1>13 DEF SweepUnlink, TypeOK, Link, Placed
  <2>2. head' <= made /\ \A n \in NodeId : node'[n].next <= made
    BY <2>1, UnlinkEffect DEF Placed
  <2>3. sweep'.pc = "free" /\ sweep'.temp # 0
    BY <1>13, <2>1 DEF SweepUnlink, NodeId
  <2> QED
    BY <1>13, <2>2, <2>3 DEF SweepUnlink, Placed, walkVars, frameVars, procVars
<1>14. CASE SweepFree
  <2>1. /\ sweep \in [pc : {"off", "check", "unlink", "free"},
                      at : Link, prev : Link, temp : Link]
        /\ sweep.temp \in NodeId /\ node' = [node EXCEPT ![sweep.temp] = EmptyNode]
    BY <1>14 DEF SweepFree, TypeOK, Link, Placed
  <2>2. \A n \in NodeId : node'[n].next <= made
    BY <2>1, FreeEffect DEF Placed
  <2>3. sweep'.pc = "check"
    BY <1>14, <2>1 DEF SweepFree
  <2> QED
    BY <1>14, <2>2, <2>3 DEF SweepFree, Placed, walkVars, frameVars, procVars
<1>15. CASE UseFreed
  BY <1>15 DEF UseFreed, Placed, kernelVars, tableVars, walkVars, frameVars, procVars
<1> QED
  BY <1>1, <1>2, <1>3, <1>4, <1>5, <1>6, <1>7, <1>8, <1>9, <1>10, <1>11, <1>12, <1>13,
     <1>14, <1>15, Steps DEF Changes

LEMMA CountedNext ==
    ASSUME TypeOK, Placed, Counted, [Next]_vars
    PROVE  Counted'
<1>1. ASSUME UNCHANGED <<todo, used, due, filter>>,
             again' => again \/ (todo # <<>> /\ Kept(Head(todo))),
             pc' = "lookup" => pc = "lookup" \/ (todo # <<>> /\ Kept(Head(todo))),
             pc' = "idle" => pc = "idle",
             pc' \in {"idle", "frame", "lookup"} => ~again'
      PROVE  Counted'
  <2>1. Sums'
    BY <1>1, SameFrames DEF Counted
  <2>2. Kept(Head(todo)) => Kept(Head(todo))'
    BY <1>1 DEF Kept
  <2> QED
    BY <1>1, <2>1, <2>2 DEF Counted
<1>2. CASE UNCHANGED <<pc, again, frameVars, filter>>
  BY <1>1, <1>2 DEF frameVars, Counted
<1>3. ASSUME NEW p \in Pid, NEW s \in Frames, symbolizer_thread_func(p, s)
      PROVE  Counted'
  <2>1. s \in Seq(Frame)
    BY FramesAreSeq
  <2>2. Cardinality(KeptOf(s)) \in Nat
    BY <2>1, KeptFinite
  <2>3. Ahead' = Cardinality(KeptOf(s)) /\ due' = Cardinality(KeptOf(s)) /\ used' = 0
    BY <1>3 DEF symbolizer_thread_func, Ahead, KeptOf, Kept, kernelVars
  <2>4. Sums'
    BY <2>2, <2>3 DEF Sums
  <2>5. pc = "idle" /\ pc' = "find" /\ again' = again
    BY <1>3 DEF symbolizer_thread_func
  <2> QED
    BY <2>4, <2>5 DEF Counted
<1>4. CASE Moves
  <2>1. UNCHANGED <<todo, used, due, filter>>
    BY <1>4 DEF Moves, find_process, Walk, ReadStart, CheckAlive, CheckReuse,
                remove_process, SearchOn, NotFound, frameVars, kernelVars
  <2>2. CASE CheckReuse
    <3>1. ~again /\ todo # <<>> /\ Kept(Head(todo)) /\ pc' \in {"lookup", "remove"}
          /\ (pc' = "lookup" => again' = again)
      BY <2>2 DEF CheckReuse, AtUserFrame, Counted
    <3> QED
      BY <1>1, <2>1, <3>1
  <2>3. CASE ~CheckReuse
    <3>1. (again' => again) /\ pc' # "idle" /\ pc' # "frame" /\ pc' # "lookup"
      BY <1>4, <2>3 DEF Moves, find_process, Walk, ReadStart, CheckAlive,
                        remove_process, SearchOn, NotFound
    <3>2. pc' \notin {"idle", "frame", "lookup"}
      BY <3>1
    <3> QED
      BY <1>1, <2>1, <3>1, <3>2, Zenon
  <2> QED
    BY <2>2, <2>3
<1>5. CASE Returns
  BY <1>5, ReturnsEffect
<1>6. CASE TakesFrame
  <2>1. FrameDone /\ pc' = "frame" /\ ~again /\ again' = again
    BY <1>6, FrameEffect
  <2>2. Sums'
    BY <2>1, FrameDoneCounts DEF Counted
  <2> QED
    BY <2>1, <2>2 DEF Counted
<1>7. CASE Changes
  <2>1. /\ UNCHANGED <<todo, used, due, filter>> /\ (again' => again)
        /\ pc' \in {"insert", "link", "free", "find"}
    BY <1>7 DEF Changes, parse_process_memory_maps, InsertNode, UnlinkRemoved, FreeRemoved,
                frameVars, kernelVars
  <2>2. /\ pc' # "idle" /\ pc' # "frame" /\ pc' # "lookup"
        /\ pc' \notin {"idle", "frame", "lookup"}
    BY <2>1
  <2> QED
    BY <1>1, <2>1, <2>2, Zenon
<1>8. CASE PushStack
  <2>1. /\ todo = <<>> /\ todo' = <<>> /\ used' = 0 /\ due' = 0 /\ pc' = "idle"
        /\ ~again /\ again' = again
    BY <1>8 DEF PushStack, Counted
  <2>2. KeptOf(<<>>)' = {} /\ Cardinality({}) = 0
    BY FS_EmptySet DEF KeptOf
  <2>3. Ahead' = 0
    BY <2>1, <2>2 DEF Ahead, KeptOf
  <2>4. Sums'
    BY <2>1, <2>3 DEF Sums
  <2> QED
    BY <2>1, <2>4 DEF Counted
<1>9. CASE \/ UNCHANGED vars \/ (\E p \in Pid : Spawn(p) \/ Exit(p))
           \/ cleanup_dead_processes \/ SweepCheck \/ SweepUnlink \/ SweepFree \/ UseFreed
  BY <1>2, <1>9 DEF vars, Spawn, Exit, cleanup_dead_processes, SweepCheck, SweepUnlink,
                    SweepFree, UseFreed, kernelVars
<1> QED
  BY <1>3, <1>4, <1>5, <1>6, <1>7, <1>8, <1>9, Steps

LEMMA OwnFreesNext ==
    ASSUME TypeOK, Placed, Counted, OwnFreesUnused, [Next]_vars
    PROVE  OwnFreesUnused'
<1>0. 0 \notin removed
  BY DEF TypeOK, NodeId
<1>1. CASE Sound /\ Returns
  <2>1. UNCHANGED removed /\ proc' \in {0, at, made} /\ nameOf' = proc'
    BY <1>1, ReturnsEffect
  <2>2. proc' \notin removed
    <3>1. CASE FindCached
      <4>1. at \notin removed /\ proc' = at
        BY <1>1, <3>1, TouchesCached DEF Freed, FindCached, Return
      <4> QED
        BY <4>1
    <3>2. CASE NoProcess
      BY <1>0, <3>2 DEF NoProcess, Return
    <3>3. CASE LinkNode
      BY <3>3 DEF LinkNode, Return, Placed
    <3> QED
      BY <1>1, <3>1, <3>2, <3>3 DEF Returns
  <2> QED
    BY <2>1, <2>2 DEF OwnFreesUnused
<1>2. CASE \/ UNCHANGED vars \/ (\E p \in Pid : Spawn(p) \/ Exit(p))
           \/ cleanup_dead_processes \/ SweepCheck \/ SweepUnlink \/ SweepFree \/ UseFreed
  <2>1. UNCHANGED <<pc, proc, nameOf, removed>>
    BY <1>2 DEF vars, Spawn, Exit, cleanup_dead_processes, SweepCheck, SweepUnlink,
                SweepFree, UseFreed, kernelVars, tableVars, procVars
  <2> QED
    BY <2>1 DEF OwnFreesUnused
<1>3. CASE (\E p \in Pid, s \in Frames : symbolizer_thread_func(p, s)) \/ Changes \/ PushStack
  <2>1. pc' \notin {"frame", "lookup"}
    BY <1>3 DEF symbolizer_thread_func, Changes, parse_process_memory_maps, InsertNode,
                UnlinkRemoved, FreeRemoved, PushStack
  <2> QED
    BY <2>1 DEF OwnFreesUnused
<1>4. CASE Moves
  <2>1. UNCHANGED <<proc, nameOf, removed>>
    BY <1>4 DEF Moves, find_process, Walk, ReadStart, CheckAlive, CheckReuse,
                remove_process, SearchOn, NotFound, tableVars, procVars
  <2>2. pc' = "lookup" => pc = "frame"
    BY <1>4 DEF Moves, find_process, Walk, ReadStart, CheckAlive, CheckReuse, AtUserFrame,
                remove_process, SearchOn, NotFound
  <2>3. pc' # "frame"
    BY <1>4 DEF Moves, find_process, Walk, ReadStart, CheckAlive, CheckReuse, AtUserFrame,
                remove_process, SearchOn, NotFound
  <2> QED
    BY <2>1, <2>2, <2>3 DEF OwnFreesUnused
<1>5. CASE TakesFrame
  <2>1. UNCHANGED <<proc, nameOf, removed>> /\ pc \in {"frame", "lookup"}
    BY <1>5, FrameEffect DEF procVars
  <2> QED
    BY <2>1 DEF OwnFreesUnused
<1> QED
  BY <1>1, <1>2, <1>3, <1>4, <1>5, Steps

\* Only the nodes' links, ELF objects or nothing of them changes.
LEMMA SameAges ==
    ASSUME TypeOK, Ages, UNCHANGED <<live, births>>, start' \in {0, start},
           pc' \in {"alive", "maps"} => pc \in {"alive", "maps"} /\ UNCHANGED <<pid, start>>,
           \A n \in NodeId : node'[n].pid \in Pid => About(n)' = About(n)
    PROVE  Ages'
<1>1. births \in Nat
  BY SymbolizerAssumption DEF TypeOK, Instance
<1>2. ASSUME NEW n \in NodeId, node'[n].pid \in Pid
      PROVE  /\ node'[n].maps <= births
             /\ node'[n].maps # 0 => node'[n].start <= node'[n].maps
             /\ live[node'[n].pid] = 0 \/ live[node'[n].pid] >= node'[n].maps
  BY <1>2 DEF Ages, About
<1> QED
  BY <1>1, <1>2 DEF Ages

LEMMA AgesNext ==
    ASSUME TypeOK, Placed, Counted, Ages, [Next]_vars
    PROVE  Ages'
<1>0. /\ births \in Nat /\ live \in [Pid -> Nat] /\ start \in Nat
      /\ \A n \in NodeId : node[n].maps \in Nat /\ node[n].start \in Nat
  BY SymbolizerAssumption DEF TypeOK, Instance, Node
<1>1. ASSUME NEW p \in Pid, Spawn(p) \/ Exit(p)
      PROVE  Ages'
  <2>1. UNCHANGED <<node, pc, pid, start>>
    BY <1>1 DEF Spawn, Exit, tableVars, frameVars, procVars
  <2>2. /\ births' \in Nat /\ births <= births'
        /\ \A q \in Pid : live'[q] \in Nat /\ live'[q] <= births'
                          /\ (live'[q] = 0 \/ live'[q] = live[q] \/ live'[q] > births)
    BY <1>0, <1>1 DEF Spawn, Exit, Ages
  <2>3. pc \in {"alive", "maps"} => live'[pid] = 0 \/ live'[pid] >= start
    BY <1>0, <2>2 DEF Ages, Placed
  <2>4. ASSUME NEW n \in NodeId, node[n].pid \in Pid
        PROVE  /\ node[n].maps <= births'
               /\ node[n].maps # 0 => node[n].start <= node[n].maps
               /\ live'[node[n].pid] = 0 \/ live'[node[n].pid] >= node[n].maps
    BY <1>0, <2>2, <2>4 DEF Ages
  <2> QED
    BY <1>0, <2>1, <2>2, <2>3, <2>4 DEF Ages
<1>2. ASSUME UNCHANGED <<live, births, node>>, start' \in {0, start},
             pc' \in {"alive", "maps"} => pc \in {"alive", "maps"} /\ UNCHANGED <<pid, start>>
      PROVE  Ages'
  <2>1. \A n \in NodeId : About(n)' = About(n)
    BY <1>2 DEF About
  <2> QED
    BY <1>2, <2>1, SameAges
<1>3. CASE \/ UNCHANGED vars \/ cleanup_dead_processes \/ SweepCheck \/ UseFreed
           \/ PushStack \/ \E p \in Pid, s \in Frames : symbolizer_thread_func(p, s)
  <2>1. /\ UNCHANGED <<live, births, node, start>>
        /\ pc' \in {"alive", "maps"} => pc \in {"alive", "maps"} /\ pid' = pid
    BY <1>3 DEF vars, cleanup_dead_processes, SweepCheck, UseFreed, PushStack,
                symbolizer_thread_func, kernelVars, tableVars, procVars, frameVars
  <2> QED
    BY <1>2, <2>1
<1>4. CASE Moves
  <2>1. UNCHANGED <<live, births, node, pid>>
    BY <1>4 DEF Moves, find_process, Walk, ReadStart, CheckAlive, CheckReuse,
                remove_process, SearchOn, NotFound, kernelVars, tableVars, frameVars
  <2>2. CASE ReadStart
    <3>1. start' \in {0, live[pid]} /\ pid \in Pid
      BY <2>2 DEF ReadStart, get_process_start_time, Placed
    <3>2. start' <= births /\ (live[pid] = 0 \/ live[pid] >= start')
      BY <1>0, <3>1 DEF Ages
    <3> QED
      BY <2>1, <3>2 DEF Ages
  <2>3. CASE ~ReadStart
    <3>1. /\ start' = start
          /\ pc' \in {"alive", "maps"} => pc \in {"alive", "maps"}
      BY <1>4, <2>3 DEF Moves, find_process, Walk, CheckAlive, CheckReuse,
                        remove_process, SearchOn, NotFound, procVars
    <3> QED
      BY <1>2, <2>1, <3>1
  <2> QED
    BY <2>2, <2>3
<1>5. CASE Returns
  <2>1. /\ UNCHANGED <<live, births, node>> /\ start' = 0
        /\ pc' \in {"frame", "lookup"}
    BY <1>5, ReturnsEffect DEF kernelVars
  <2> QED
    BY <1>2, <2>1
<1>6. CASE TakesFrame
  <2>1. /\ UNCHANGED <<live, births, start>> /\ pc' = "frame"
        /\ \A n \in NodeId : About(n)' = About(n)
    BY <1>6, FrameEffect DEF kernelVars, procVars
  <2> QED
    BY <2>1, SameAges
<1>7. CASE parse_process_memory_maps
  <2>1. /\ pc = "maps" /\ pid \in Pid /\ live[pid] # 0
        /\ made' \in NodeId /\ node' \in [NodeId -> Node]
        /\ node'[made'].pid = pid /\ node'[made'].start = start
        /\ node'[made'].maps \in {0, live[pid]}
        /\ \A n \in NodeId \ {made'} : node'[n] = node[n]
    BY <1>7, MakeEffect
  <2>2. UNCHANGED <<live, births, start>> /\ pc' = "insert"
    BY <1>7 DEF parse_process_memory_maps, kernelVars, procVars
  <2>3. live[pid] \in Nat /\ live[pid] <= births /\ live[pid] >= start
    BY <1>0, <2>1 DEF Ages
  <2>4. ASSUME NEW n \in NodeId, node'[n].pid \in Pid
        PROVE  /\ node'[n].maps <= births
               /\ node'[n].maps # 0 => node'[n].start <= node'[n].maps
               /\ live[node'[n].pid] = 0 \/ live[node'[n].pid] >= node'[n].maps
    <3>1. CASE n = made'
      BY <1>0, <2>1, <2>3, <3>1
    <3>2. CASE n # made'
      BY <2>1, <2>4, <3>2 DEF Ages
    <3> QED
      BY <3>1, <3>2
  <2> QED
    BY <2>2, <2>4 DEF Ages
<1>8. CASE InsertNode
  <2>1. \A n \in NodeId : About(n)' = About(n)
    BY <1>8, InsertEffect
  <2>2. UNCHANGED <<live, births, start>> /\ pc' = "link"
    BY <1>8 DEF InsertNode, kernelVars, procVars
  <2> QED
    BY <2>1, <2>2, SameAges
<1>9. CASE UnlinkRemoved
  <2>1. at \in NodeId /\ prev \in Link /\ Unlink(at, prev)
    BY <1>9 DEF UnlinkRemoved, TypeOK, Link
  <2>2. \A n \in NodeId : About(n)' = About(n)
    BY <2>1, UnlinkEffect DEF Placed
  <2>3. UNCHANGED <<live, births, start>> /\ pc' = "free"
    BY <1>9 DEF UnlinkRemoved, kernelVars, procVars
  <2> QED
    BY <2>2, <2>3, SameAges
<1>10. CASE FreeRemoved
  <2>1. at \in NodeId /\ node' = [node EXCEPT ![at] = EmptyNode]
    BY <1>10 DEF FreeRemoved, TypeOK, Link, Placed
  <2>2. node'[at].pid \notin Pid /\ \A n \in NodeId \ {at} : node'[n] = node[n]
    BY <2>1, FreeEffect DEF Placed
  <2>3. \A n \in NodeId : node'[n].pid \in Pid => About(n)' = About(n)
    BY <2>2 DEF About
  <2>4. UNCHANGED <<live, births, start>> /\ pc' = "find"
    BY <1>10 DEF FreeRemoved, kernelVars, procVars
  <2> QED
    BY <2>3, <2>4, SameAges
<1>11. CASE SweepUnlink
  <2>1. sweep.at \in NodeId /\ sweep.prev \in Link /\ Unlink(sweep.at, sweep.prev)
    BY <1>11 DEF SweepUnlink, TypeOK, Link, Placed
  <2>2. \A n \in NodeId : About(n)' = About(n)
    BY <2>1, UnlinkEffect DEF Placed
  <2>3. UNCHANGED <<live, births, start, pc, pid>>
    BY <1>11 DEF SweepUnlink, kernelVars, procVars, frameVars
  <2> QED
    BY <2>2, <2>3, SameAges
<1>12. CASE SweepFree
  <2>1. sweep.temp \in NodeId /\ node' = [node EXCEPT ![sweep.temp] = EmptyNode]
    BY <1>12 DEF SweepFree, TypeOK, Link, Placed
  <2>2. /\ node'[sweep.temp].pid \notin Pid
        /\ \A n \in NodeId \ {sweep.temp} : node'[n] = node[n]
    BY <2>1, FreeEffect DEF Placed
  <2>3. \A n \in NodeId : node'[n].pid \in Pid => About(n)' = About(n)
    BY <2>2 DEF About
  <2>4. UNCHANGED <<live, births, start, pc, pid>>
    BY <1>12 DEF SweepFree, kernelVars, procVars, frameVars
  <2> QED
    BY <2>3, <2>4, SameAges
<1> QED
  BY <1>1, <1>3, <1>4, <1>5, <1>6, <1>7, <1>8, <1>9, <1>10, <1>11, <1>12, Steps DEF Changes

LEMMA OwnerNext ==
    ASSUME TypeOK, Placed, Counted, Owner, [Next]_vars
    PROVE  Owner'
<1>1. ASSUME UNCHANGED <<made, proc, pid>>, Freed \subseteq Freed',
             pc' \in {"insert", "link"} => pc \in {"insert", "link"},
             pc' \in {"frame", "lookup"} => pc \in {"frame", "lookup"},
             \A n \in NodeId \ Freed' : About(n)' = About(n)
      PROVE  Owner'
  <2>1. made \in Link /\ proc \in Link
    BY DEF TypeOK, Link, NodeId
  <2>2. pc \in {"insert", "link"} => made \in NodeId
    BY <2>1 DEF Placed, Link
  <2>3. \A n \in NodeId \ Freed' : node'[n].pid = node[n].pid
    BY <1>1 DEF About
  <2>4. pc' \in {"insert", "link"} /\ made' \notin Freed' => node'[made'].pid = pid'
    BY <1>1, <2>2, <2>3 DEF Owner
  <2>5. pc' \in {"frame", "lookup"} /\ proc' # 0 /\ proc' \notin Freed' => node'[proc'].pid = pid'
    BY <1>1, <2>1, <2>3 DEF Owner, Link
  <2> QED
    BY <2>4, <2>5 DEF Owner
<1>2. CASE \/ UNCHANGED vars \/ (\E p \in Pid : Spawn(p) \/ Exit(p))
           \/ cleanup_dead_processes \/ SweepCheck \/ UseFreed
  <2>1. UNCHANGED <<made, proc, pid, pc, node, removed, swept>>
    BY <1>2 DEF vars, Spawn, Exit, cleanup_dead_processes, SweepCheck, UseFreed,
                kernelVars, tableVars, procVars, frameVars
  <2> QED
    BY <1>1, <2>1 DEF About, Freed
<1>3. CASE (\E p \in Pid, s \in Frames : symbolizer_thread_func(p, s)) \/ PushStack
  BY <1>3 DEF symbolizer_thread_func, PushStack, Owner
<1>4. CASE Moves
  <2>1. UNCHANGED <<made, proc, pid, node, removed, swept>>
    BY <1>4 DEF Moves, find_process, Walk, ReadStart, CheckAlive, CheckReuse,
                remove_process, SearchOn, NotFound, tableVars, procVars, frameVars
  <2>2. /\ pc' \notin {"insert", "link"}
        /\ pc' \in {"frame", "lookup"} => pc \in {"frame", "lookup"}
    BY <1>4 DEF Moves, find_process, Walk, ReadStart, CheckAlive, CheckReuse, AtUserFrame,
                remove_process, SearchOn, NotFound
  <2> QED
    BY <1>1, <2>1, <2>2 DEF About, Freed
<1>5. CASE Returns
  <2>1. /\ UNCHANGED <<node, made, removed, swept, pid>> /\ pc' \in {"frame", "lookup"}
        /\ \/ FindCached /\ node[at].pid = pid /\ Return(at)
           \/ NoProcess /\ Return(0)
           \/ LinkNode /\ pc = "link" /\ Return(made)
    BY <1>5, ReturnsEffect
  <2>2. proc' # 0 /\ proc' \notin Freed => node[proc'].pid = pid
    BY <2>1 DEF Return, Owner
  <2> QED
    BY <2>1, <2>2 DEF Owner, Freed
<1>6. CASE TakesFrame
  <2>1. /\ UNCHANGED <<made, proc, pid, removed, swept>> /\ pc' = "frame"
        /\ pc \in {"frame", "lookup"}
        /\ \A n \in NodeId : About(n)' = About(n)
    BY <1>6, FrameEffect DEF procVars
  <2> QED
    BY <1>1, <2>1 DEF Freed
<1>7. CASE parse_process_memory_maps
  <2>1. node'[made'].pid = pid /\ pc' = "insert" /\ pid' = pid
    BY <1>7, MakeEffect DEF parse_process_memory_maps, frameVars
  <2> QED
    BY <2>1 DEF Owner
<1>8. CASE InsertNode
  <2>1. \A n \in NodeId : About(n)' = About(n)
    BY <1>8, InsertEffect
  <2> QED
    BY <1>1, <1>8, <2>1 DEF InsertNode, procVars, frameVars, Freed
<1>9. CASE UnlinkRemoved \/ FreeRemoved
  BY <1>9 DEF UnlinkRemoved, FreeRemoved, Owner
<1>10. CASE SweepUnlink
  <2>1. sweep.at \in NodeId /\ sweep.prev \in Link /\ Unlink(sweep.at, sweep.prev)
    BY <1>10 DEF SweepUnlink, TypeOK, Link, Placed
  <2>2. \A n \in NodeId : About(n)' = About(n)
    BY <2>1, UnlinkEffect DEF Placed
  <2> QED
    BY <1>1, <1>10, <2>2 DEF SweepUnlink, procVars, frameVars, Freed
<1>11. CASE SweepFree
  <2>1. sweep.temp \in NodeId /\ node' = [node EXCEPT ![sweep.temp] = EmptyNode]
    BY <1>11 DEF SweepFree, TypeOK, Link, Placed
  <2>2. \A n \in NodeId \ {sweep.temp} : node'[n] = node[n]
    BY <2>1, FreeEffect DEF Placed
  <2>3. /\ UNCHANGED <<made, proc, pid, pc>>
        /\ Freed \subseteq Freed' /\ sweep.temp \in Freed'
    BY <1>11 DEF SweepFree, procVars, frameVars, Freed
  <2>4. \A n \in NodeId \ Freed' : About(n)' = About(n)
    BY <2>2, <2>3 DEF About
  <2> QED
    BY <1>1, <2>3, <2>4
<1> QED
  BY <1>2, <1>3, <1>4, <1>5, <1>6, <1>7, <1>8, <1>9, <1>10, <1>11, Steps DEF Changes

----------------------------------------------------------------------------
(* Theorems.                                                               *)

\* The inductive invariant, the cleanup of dead processes included: positions
\* and pointers, frame counts, ages and the owner of the node in use.
THEOREM InvHolds == Spec => []Inv
<1>1. Init => Inv
  BY InvInit
<1>2. Inv /\ [Next]_vars => Inv'
  BY TypeNext, PlacedNext, CountedNext, OwnFreesNext, AgesNext, OwnerNext DEF Inv
<1> QED
  BY <1>1, <1>2, PTL DEF Spec

\* The symbolizer's state keeps its types, through exits and pid reuse at any
\* moment and with cleanup_dead_processes at work on the same chain: every
\* pointer that is followed is set (process.c, handler.c).
THEOREM TypeCorrect == Spec => []TypeOK
<1>1. Inv => TypeOK
  BY DEF Inv
<1> QED
  BY <1>1, InvHolds, PTL

\* symbolize_sample does not use a node that remove_process freed for a
\* reused pid: proc_info and process_name are both fetched again.
THEOREM OwnFreesNeverUsed == Spec => []OwnFreesUnused
<1>1. Inv => OwnFreesUnused
  BY DEF Inv
<1> QED
  BY <1>1, InvHolds, PTL

\* Every frame that passes the filter is in the stack once when the stack is
\* pushed, or found the buffer full, on every path of symbolize_sample.
THEOREM EveryFrameOnce == Spec => []FramesKept
<1>1. Inv => FramesKept
  <2> SUFFICES ASSUME Inv, pc = "frame", todo = <<>>
               PROVE  used <= due /\ (used = due \/ used >= BufferNames)
    BY DEF FramesKept
  <2>1. KeptOf(<<>>) = {} /\ Cardinality({}) = 0
    BY FS_EmptySet DEF KeptOf
  <2>2. Ahead = 0
    BY <2>1 DEF Ahead
  <2>3. used \in Nat /\ due \in Nat
    BY SymbolizerAssumption DEF Inv, TypeOK
  <2> QED
    BY <2>2, <2>3 DEF Inv, Counted, Sums
<1> QED
  BY <1>1, InvHolds, PTL

\* The check before each user frame: a node whose start time could be read is
\* used only with the mappings of the process that runs under the pid.
FrameChecked ==
    [][pc = "frame" /\ pc' = "lookup" => (node'[proc'].start # 0 => OfThisProcess)]_vars

\* The comparison of start times in symbolize_sample notices every reuse of a
\* pid, for every number of births, although start time and maps are read at
\* different moments and the main thread frees nodes meanwhile; except where
\* get_process_start_time answered 0 when the node was made.
THEOREM ReuseNoticed == Spec => FrameChecked
<1>1. ASSUME Inv, [Next]_vars, pc = "frame", pc' = "lookup", node'[proc'].start # 0,
             live[pid] # 0
      PROVE  node'[proc'].maps \in {0, live[pid]}
  <2>1. Sound /\ CheckReuse
    <3>1. ~(\E p \in Pid : Spawn(p) \/ Exit(p))
      BY <1>1 DEF Spawn, Exit
    <3>2. ~ UNCHANGED vars
      BY <1>1 DEF vars
    <3>3. ~(\E p \in Pid, s \in Frames : symbolizer_thread_func(p, s))
      BY <1>1 DEF symbolizer_thread_func
    <3>4. ~Returns /\ ~TakesFrame
      BY <1>1, ReturnsEffect, FrameEffect DEF Inv
    <3>5. ~Changes /\ ~PushStack
      BY <1>1 DEF Changes, parse_process_memory_maps, InsertNode, UnlinkRemoved,
                  FreeRemoved, PushStack
    <3>6. ~(cleanup_dead_processes \/ SweepCheck \/ SweepUnlink \/ SweepFree \/ UseFreed)
      BY <1>1 DEF cleanup_dead_processes, SweepCheck, SweepUnlink, SweepFree, UseFreed
    <3>7. Sound /\ Moves
      BY <1>1, <3>1, <3>2, <3>3, <3>4, <3>5, <3>6, Steps
    <3> QED
      BY <1>1, <3>7 DEF Moves, find_process, Walk, ReadStart, CheckAlive,
                        remove_process, SearchOn, NotFound
  <2>2. /\ UNCHANGED <<node, proc>> /\ proc \in NodeId
        /\ node[proc].start \in get_process_start_time(node[proc].pid)
    <3>1. UNCHANGED <<node, proc>> /\ proc \in NodeId
      BY <1>1, <2>1 DEF CheckReuse, AtUserFrame, tableVars, procVars, Inv, TypeOK, Link
    <3>2. PICK t \in get_process_start_time(node[proc].pid) :
             IF node[proc].start = t THEN pc' = "lookup" /\ UNCHANGED again
                                     ELSE pc' = "remove" /\ again' = TRUE
      BY <2>1 DEF CheckReuse
    <3> QED
      BY <1>1, <3>1, <3>2
  <2>3. node[proc].pid = pid /\ pid \in Pid
    <3>1. proc \notin Freed /\ proc # 0
      BY <2>1, TouchesCached DEF CheckReuse, AtUserFrame
    <3> QED
      BY <1>1, <3>1 DEF Inv, Owner, Placed
  <2>4. node[proc].start = live[pid]
    BY <1>1, <2>2, <2>3 DEF get_process_start_time
  <2>5. /\ node[proc].maps # 0 => node[proc].start <= node[proc].maps
        /\ live[pid] >= node[proc].maps
    BY <1>1, <2>2, <2>3 DEF Inv, Ages
  <2>6. live[pid] \in Nat /\ node[proc].maps \in Nat
    BY <1>1, <2>2, <2>3, SymbolizerAssumption DEF Inv, TypeOK, Instance, Node
  <2> QED
    BY <2>2, <2>4, <2>5, <2>6
<1>2. Inv /\ [Next]_vars
         => [pc = "frame" /\ pc' = "lookup" => (node'[proc'].start # 0 => OfThisProcess)]_vars
  BY <1>1 DEF OfThisProcess
<1> QED
  BY <1>2, InvHolds, PTL DEF Spec, FrameChecked


=============================================================================
