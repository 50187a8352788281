--------------------------- MODULE PipelineProofs ---------------------------
(***************************************************************************)
(* What Pipeline guarantees for every queue capacity and batch size and    *)
(* any number of samples and connections: each sample is at one place, the *)
(* stages hold the samples in the order of their dispatch, the sample pool *)
(* is never exhausted, and a query keeps its connection.                   *)
(***************************************************************************)
EXTENDS Pipeline, SequenceTheorems, TLAPS

----------------------------------------------------------------------------
(* The inductive invariant.                                                *)

\* The variables that TypeOK leaves out.
Typed ==
    /\ TypeOK
    /\ sgot \in [{"symbolizer"} -> Seq(Sample)]
    /\ got \in [{"writer"} -> Seq(Sample)]
    /\ lost \subseteq Sample
    /\ pcW = "open" => conn < MaxConns

\* While the symbolizer thread does not exist, nothing was dispatched, no
\* connection was opened, and the writer can only wait or end.  Main is in
\* its loop if and only if the thread exists.
Starting ==
    /\ pcS = "off" =>
         /\ dispatched = 0 /\ lost = {} /\ conn = 0 /\ open = {}
         /\ hand = <<>> /\ sfifo = <<>> /\ pbuf = <<>> /\ fifo = <<>>
         /\ processed = <<>>
         /\ pcW \in {"none", "loop", "pop", "done"}
    /\ pcM = "loop" => pcS # "off"
    /\ pcM \notin {"loop", "crashed"} => pcS = "off"
    /\ pcM \in {"config", "db"} => ~running

\* A writer thread that was not created is the only reason for which running
\* is FALSE before main stops, and then nothing gets past the symbolizer.
NoWriter ==
    /\ pcM \notin {"stop", "wait", "release", "exited", "crashed"} /\ ~running
         => pcW = "none"
    /\ ~running /\ pcS # "off" =>
         pcW = "none" /\ fifo = <<>> /\ pbuf = <<>> /\ processed = <<>>
    /\ lost # {} => ~running /\ pcS # "off"

\* Each thread has at most one sample in its hands.
InHand ==
    /\ Len(hand) <= 1
    /\ Len(sgot["symbolizer"]) <= 1
    /\ pcS = "push" => Len(sgot["symbolizer"]) = 1

PipeInv == /\ Typed /\ Starting /\ NoWriter /\ InHand
           /\ StagesInOrder

----------------------------------------------------------------------------
(* Sequences of samples: the library's facts, for one set of elements.     *)

LEMMA Concat ==
    \A s, t \in Seq(Sample) : s \o t \in Seq(Sample) /\ Len(s \o t) = Len(s) + Len(t)
  BY ConcatProperties

LEMMA ConcatAt ==
    \A s, t \in Seq(Sample) : \A i \in 1..(Len(s) + Len(t)) :
        (s \o t)[i] = IF i <= Len(s) THEN s[i] ELSE t[i - Len(s)]
  BY ConcatProperties

LEMMA ConcatRight ==
    \A s, t \in Seq(Sample) : \A i \in 1..Len(t) : (s \o t)[Len(s) + i] = t[i]
<1> TAKE s, t \in Seq(Sample)
<1> TAKE i \in 1..Len(t)
<1>1. /\ Len(s) + i \in 1..(Len(s) + Len(t))
      /\ ~(Len(s) + i <= Len(s)) /\ (Len(s) + i) - Len(s) = i
  OBVIOUS
<1> QED
  BY <1>1, ConcatAt

LEMMA Assoc == \A s, t, u \in Seq(Sample) : (s \o t) \o u = s \o (t \o u)
  BY ConcatAssociative

LEMMA ConcatEmpty == \A s \in Seq(Sample) : s \o <<>> = s /\ <<>> \o s = s
  BY ConcatEmptySeq

\* What a queue hands out and what it keeps are together what it held.
LEMMA SplitSeq ==
    ASSUME NEW s \in Seq(Sample), NEW n \in 1..Len(s)
    PROVE  /\ SubSeq(s, 1, n) \in Seq(Sample) /\ Len(SubSeq(s, 1, n)) = n
           /\ SubSeq(s, n + 1, Len(s)) \in Seq(Sample)
           /\ Len(SubSeq(s, n + 1, Len(s))) = Len(s) - n
           /\ SubSeq(s, 1, n) \o SubSeq(s, n + 1, Len(s)) = s
<1>1. \A k \in 1..Len(s) : s[k] \in Sample
  BY ElementOfSeq
<1>2. SubSeq(s, 1, n) \in Seq(Sample) /\ Len(SubSeq(s, 1, n)) = n
  BY <1>1, SubSeqProperties
<1>3. /\ SubSeq(s, n + 1, Len(s)) \in Seq(Sample)
      /\ Len(SubSeq(s, n + 1, Len(s))) = Len(s) - n
  <2>1. n + 1 \in Int /\ Len(s) \in Int /\ \A k \in (n + 1)..Len(s) : s[k] \in Sample
    BY <1>1, LenProperties
  <2> QED
    BY <2>1, SubSeqProperties
<1>4. SubSeq(s, 1, n) \o SubSeq(s, n + 1, Len(s)) = SubSeq(s, 1, Len(s))
  BY LenProperties, ConcatAdjacentSubSeq
<1> QED
  BY <1>2, <1>3, <1>4, SubSeqFull

----------------------------------------------------------------------------
(* Everything but the order of the samples.                                *)

Shape == Typed /\ Starting /\ NoWriter /\ InHand

LEMMA InitShape == Init => Shape
<1> SUFFICES ASSUME Init
             PROVE  Shape
  OBVIOUS
<1> USE PipelineAssumption
    DEF Init, SQ!FInit, DQ!FInit, Sample, Conn, WILD
<1>1. Typed
  <2>1. sgot \in [{"symbolizer"} -> Seq(Sample)] /\ got \in [{"writer"} -> Seq(Sample)]
    OBVIOUS
  <2>2. http \in [at : {"off", "idle"}, conn : {0}]
    OBVIOUS
  <2>3. /\ sfifo \in Seq(Sample) /\ pbuf \in Seq(Sample) /\ fifo \in Seq(Sample)
        /\ processed \in Seq(Sample) /\ hand \in Seq(Sample)
        /\ Len(sfifo) <= SampleCapacity /\ Len(fifo) <= QueueCapacity
    OBVIOUS
  <2>4. running \in BOOLEAN /\ closed \in BOOLEAN /\ stop_profiling \in BOOLEAN
    OBVIOUS
  <2>5. dispatched \in 0..MaxSamples /\ conn \in 0..MaxConns
    OBVIOUS
  <2>6. open \subseteq Conn /\ lost \subseteq Sample
    OBVIOUS
  <2>7. TypeOK
    BY <2>2, <2>3, <2>4, <2>5, <2>6 DEF TypeOK, HttpState
  <2> QED
    BY <2>1, <2>6, <2>7 DEF Typed
<1>2. Starting /\ NoWriter /\ InHand
  BY DEF Starting, NoWriter, InHand
<1> QED
  BY <1>1, <1>2 DEF Shape

LEMMA MainShape == Shape /\ Main /\ ~Ended => Shape'
<1> SUFFICES ASSUME Shape, Main, ~Ended
             PROVE  Shape'
  OBVIOUS
<1> USE PipelineAssumption
    DEF Shape, Typed, TypeOK, Starting, NoWriter, InHand,
        sampleQueueVars, queueVars, sampleVars, writerVars, Ended
<1>1. CASE configure
  BY <1>1 DEF configure
<1>2. CASE db_writer_start
  <2>1. running' \in BOOLEAN /\ pcW' \in {"none", "loop", "done"}
    BY <1>2 DEF db_writer_start
  <2> QED
    BY <1>2, <2>1 DEF db_writer_start
<1>3. CASE http_server_start
  <2>1. http' \in HttpState
    BY <1>3 DEF http_server_start, HttpState
  <2>2. res' \subseteq {"db", "http", "manager", "system", "pool"}
    BY <1>3 DEF http_server_start, HttpState
  <2> QED
    BY <1>3, <2>1, <2>2 DEF http_server_start
<1>4. CASE perf_event_init_with_config
  BY <1>4 DEF perf_event_init_with_config, Acquire
<1>5. CASE initialize_system
  BY <1>5 DEF initialize_system, Acquire
<1>6. CASE mempool_create
  BY <1>6 DEF mempool_create, Acquire
<1>7. CASE symbolizer_init
  BY <1>7 DEF symbolizer_init
<1>8. CASE db_writer_stop
  BY <1>8 DEF db_writer_stop, DQ!Close
<1>9. CASE db_writer_wait
  BY <1>9 DEF db_writer_wait
<1>10. CASE release
  BY <1>10 DEF release
<1>11. CASE PushSample
  BY <1>11 DEF PushSample, SQ!Put
<1> QED
  BY <1>1, <1>2, <1>3, <1>4, <1>5, <1>6, <1>7, <1>8, <1>9, <1>10, <1>11 DEF Main

LEMMA ThreadShape ==
    Shape /\ ~Ended /\ (Symbolizer \/ Writer) => Shape'
<1> SUFFICES ASSUME Shape, ~Ended, Symbolizer \/ Writer
             PROVE  Shape'
  OBVIOUS
<1> USE PipelineAssumption
    DEF Shape, Typed, TypeOK, Starting, NoWriter, InHand,
        sampleQueueVars, queueVars, sampleVars, writerVars, Ended
<1>1. CASE PopSample
  <2>1. /\ sfifo' \in Seq(Sample) /\ Len(sfifo') = Len(sfifo) - 1
        /\ SubSeq(sfifo, 1, 1) \in Seq(Sample) /\ Len(SubSeq(sfifo, 1, 1)) = 1
    BY <1>1, SplitSeq DEF PopSample, SQ!Take
  <2>2. sgot' = [sgot EXCEPT !["symbolizer"] = SubSeq(sfifo, 1, 1)]
    BY <1>1 DEF PopSample, SQ!Take
  <2> QED
    BY <1>1, <2>1, <2>2 DEF PopSample, SQ!Take
<1>2. CASE PushStack
  <2>1. sgot["symbolizer"] \in Seq(Sample) /\ sgot["symbolizer"][1] \in Sample
    BY <1>2 DEF PushStack
  <2>2. pbuf \o sgot["symbolizer"] \in Seq(Sample)
    BY <2>1, Concat
  <2> QED
    BY <1>2, <2>1, <2>2 DEF PushStack
<1>3. CASE db_writer_flush
  BY <1>3 DEF db_writer_flush, DQ!Put
<1>4. CASE FreeSample
  BY <1>4 DEF FreeSample
<1>5. CASE WriterLoop
  BY <1>5 DEF WriterLoop
<1>6. CASE WriterPop
  <2>1. CASE DQ!TakeNothing("writer")
    BY <1>6, <2>1 DEF WriterPop, DQ!TakeNothing, DQ!Take
  <2>2. ASSUME NEW n \in 1..Len(fifo), DQ!Take("writer", n), pcW' = "handle"
        PROVE  Shape'
    <3>1. /\ SubSeq(fifo, 1, n) \in Seq(Sample)
          /\ SubSeq(fifo, n + 1, Len(fifo)) \in Seq(Sample)
          /\ Len(SubSeq(fifo, n + 1, Len(fifo))) = Len(fifo) - n
      BY SplitSeq
    <3>2. fifo # <<>>
      OBVIOUS
    <3> QED
      BY <1>6, <2>2, <3>1, <3>2 DEF WriterPop, DQ!Take
  <2> QED
    BY <1>6, <2>1, <2>2 DEF WriterPop, DQ!Take
<1>7. CASE CloseOld
  BY <1>7 DEF CloseOld, HttpState, Conn
<1>8. CASE OpenNew
  BY <1>8 DEF OpenNew, Conn
<1>9. CASE SameHour
  BY <1>9 DEF SameHour
<1>10. CASE WriteBatch
  BY <1>10 DEF WriteBatch
<1> QED
  BY <1>1, <1>2, <1>3, <1>4, <1>5, <1>6, <1>7, <1>8, <1>9, <1>10
  DEF Symbolizer, Writer

LEMMA OtherShape ==
    Shape /\ ~Ended /\ (Http \/ dispatch_sample_event \/ signal_handler \/ get_db_handle)
        => Shape'
<1> SUFFICES ASSUME Shape, ~Ended,
                    Http \/ dispatch_sample_event \/ signal_handler \/ get_db_handle
             PROVE  Shape'
  OBVIOUS
<1> USE PipelineAssumption
    DEF Shape, Typed, TypeOK, Starting, NoWriter, InHand,
        sampleQueueVars, queueVars, sampleVars, writerVars, Ended
<1>1. CASE PrepareQuery
  <2>1. http.conn \in 1..WILD
    BY <1>1 DEF PrepareQuery, HttpState
  <2>2. http' \in HttpState
    BY <1>1, <2>1 DEF PrepareQuery, HttpState
  <2> QED
    BY <1>1, <2>2 DEF PrepareQuery
<1>2. CASE FinishQuery
  BY <1>2 DEF FinishQuery, HttpState
<1>3. CASE dispatch_sample_event
  BY <1>3 DEF dispatch_sample_event, Sample
<1>4. CASE signal_handler
  BY <1>4 DEF signal_handler
<1>5. CASE get_db_handle
  BY <1>5 DEF get_db_handle, HttpState, WILD
<1> QED
  BY <1>1, <1>2, <1>3, <1>4, <1>5 DEF Http

LEMMA NextShape == Shape /\ [Next]_vars => Shape'
<1> SUFFICES ASSUME Shape, [Next]_vars
             PROVE  Shape'
  OBVIOUS
<1>1. CASE UNCHANGED vars
  BY <1>1 DEF vars, sampleQueueVars, queueVars, sampleVars, writerVars, Shape,
              Typed, TypeOK, Starting, NoWriter, InHand
<1> QED
  BY <1>1, MainShape, ThreadShape, OtherShape DEF Next

----------------------------------------------------------------------------
(* The order of the samples.                                               *)

\* Past the symbolizer, and before its call of db_writer_push_stack.
Past == processed \o Writing \o fifo \o pbuf
Rest == Symbolizing \o sfifo \o hand

\* StagesInOrder in terms of these two: what is past the symbolizer comes
\* first, and if stacks are refused nothing gets there.
From(k, n) == [s \in 1..n |-> k + s]

InOrder(past, rest, gone, n) ==
    /\ gone = {} => past \o rest = [s \in 1..n |-> s]
    /\ gone # {} => /\ gone = 1..(n - Len(rest))
                    /\ past \o rest = From(n - Len(rest), Len(rest))

LEMMA StagesAsTwo == StagesInOrder <=> InOrder(Past, Rest, lost, dispatched)
  BY DEF StagesInOrder, InOrder, Past, Rest, From

LEMMA StagesAsTwoNext ==
    StagesInOrder' <=> InOrder(Past', Rest', lost', dispatched')
  BY DEF StagesInOrder, InOrder, Past, Rest, Symbolizing, Writing, From

LEMMA PlacesTyped ==
    ASSUME Typed
    PROVE  /\ Writing \in Seq(Sample) /\ Symbolizing \in Seq(Sample)
           /\ Past \in Seq(Sample) /\ Rest \in Seq(Sample)
<1>1. Writing \in Seq(Sample) /\ Symbolizing \in Seq(Sample)
  BY DEF Typed, TypeOK, Writing, Symbolizing
<1>2. processed \o Writing \in Seq(Sample)
  BY <1>1, Concat DEF Typed, TypeOK
<1>3. (processed \o Writing) \o fifo \in Seq(Sample)
  BY <1>2, Concat DEF Typed, TypeOK
<1>4. Symbolizing \o sfifo \in Seq(Sample)
  BY <1>1, Concat DEF Typed, TypeOK
<1> QED
  BY <1>1, <1>3, <1>4, Concat DEF Typed, TypeOK, Past, Rest

\* The steps that pass no sample on, or pass it on inside one of the two.
Stays == UNCHANGED <<Past, Rest, lost, dispatched>>

LEMMA MainStays == Shape /\ ~Ended /\ Main => Stays
<1> SUFFICES ASSUME Shape, ~Ended, Main
             PROVE  Stays
  OBVIOUS
<1> USE DEF Stays, Past, Rest, Writing, Symbolizing, sampleVars, sampleQueueVars,
            writerVars, queueVars
<1>1. CASE PushSample
  <2>1. /\ Symbolizing \in Seq(Sample) /\ sfifo \in Seq(Sample) /\ hand \in Seq(Sample)
        /\ sfifo \o hand \in Seq(Sample)
    BY PlacesTyped, Concat DEF Shape, Typed, TypeOK
  <2>2. (Symbolizing \o sfifo) \o hand = (Symbolizing \o (sfifo \o hand)) \o <<>>
    <3> HIDE DEF Symbolizing
    <3>1. (Symbolizing \o sfifo) \o hand = Symbolizing \o (sfifo \o hand)
      BY <2>1, Assoc
    <3>2. Symbolizing \o (sfifo \o hand) \in Seq(Sample)
      BY <2>1, Concat
    <3> QED
      BY <3>1, <3>2, ConcatEmpty
  <2> QED
    BY <1>1, <2>2 DEF PushSample, SQ!Put
<1>2. CASE db_writer_start
  BY <1>2 DEF db_writer_start, Shape, Starting
<1>3. CASE symbolizer_init
  BY <1>3 DEF symbolizer_init, Shape, Starting
<1>4. CASE \/ configure \/ http_server_start \/ perf_event_init_with_config
           \/ initialize_system \/ mempool_create
  BY <1>4 DEF configure, http_server_start, perf_event_init_with_config,
              initialize_system, mempool_create, Acquire
<1>5. CASE db_writer_stop \/ db_writer_wait \/ release
  BY <1>5 DEF db_writer_stop, DQ!Close, db_writer_wait, release
<1> QED
  BY <1>1, <1>2, <1>3, <1>4, <1>5 DEF Main

\* A pop of n of the items of f moves them behind the items of a.
LEMMA PopBetween ==
    ASSUME NEW a \in Seq(Sample), NEW f \in Seq(Sample), NEW n \in 1..Len(f)
    PROVE  (a \o <<>>) \o f = (a \o SubSeq(f, 1, n)) \o SubSeq(f, n + 1, Len(f))
<1> DEFINE x == SubSeq(f, 1, n)
           y == SubSeq(f, n + 1, Len(f))
<1>1. x \in Seq(Sample) /\ y \in Seq(Sample)
  BY SplitSeq
<1>2. x \o y = f
  BY SplitSeq
<1> HIDE DEF x, y
<1>3. (a \o x) \o y = a \o (x \o y)
  BY <1>1, Assoc
<1>4. a \o <<>> = a
  BY ConcatEmpty
<1> QED
  BY <1>2, <1>3, <1>4 DEF x, y

\* The items of t move behind those of s.
LEMMA Moved ==
    \A a, s, t \in Seq(Sample) : (a \o (s \o t)) \o <<>> = (a \o s) \o t
<1> TAKE a, s, t \in Seq(Sample)
<1>1. (a \o s) \o t = a \o (s \o t)
  BY Assoc
<1>2. a \o (s \o t) \in Seq(Sample)
  <2>1. s \o t \in Seq(Sample)
    BY Concat
  <2> QED
    BY <2>1, Concat
<1> QED
  BY <1>1, <1>2, ConcatEmpty

LEMMA WriterStays == Shape /\ ~Ended /\ Writer => Stays
<1> SUFFICES ASSUME Shape, ~Ended, Writer
             PROVE  Stays
  OBVIOUS
<1> USE DEF Stays, Past, Rest, Symbolizing, sampleVars, sampleQueueVars, queueVars
<1>0. /\ processed \in Seq(Sample) /\ fifo \in Seq(Sample) /\ pbuf \in Seq(Sample)
      /\ got["writer"] \in Seq(Sample)
  BY DEF Shape, Typed, TypeOK
<1>1. CASE WriterPop
  <2>1. Writing = <<>>
    BY <1>1 DEF WriterPop, Writing
  <2>2. CASE DQ!TakeNothing("writer")
    <3>1. Writing' = <<>>
      BY <1>1, <2>2 DEF WriterPop, DQ!TakeNothing, DQ!Take, Writing
    <3> QED
      BY <1>1, <2>1, <2>2, <3>1 DEF WriterPop, DQ!TakeNothing
  <2>3. ASSUME NEW n \in 1..Len(fifo), DQ!Take("writer", n), pcW' = "handle"
        PROVE  Stays
    <3>1. Writing' = SubSeq(fifo, 1, n)
      BY <2>3 DEF DQ!Take, Writing, Shape, Typed
    <3>2. (processed \o Writing) \o fifo = (processed \o Writing') \o fifo'
      BY <1>0, <2>1, <2>3, <3>1, PopBetween DEF DQ!Take
    <3> QED
      BY <1>1, <3>2 DEF WriterPop
  <2> QED
    BY <1>1, <2>2, <2>3 DEF WriterPop, DQ!Take
<1>2. CASE WriteBatch
  <2>1. Writing = got["writer"] /\ Writing' = <<>>
    BY <1>2 DEF WriteBatch, Writing
  <2>2. processed' = processed \o Writing /\ processed' \in Seq(Sample)
    BY <1>0, <1>2, <2>1, Concat DEF WriteBatch
  <2>3. processed' \o Writing' = processed \o Writing
    BY <2>1, <2>2, ConcatEmpty
  <2> QED
    BY <1>2, <2>3 DEF WriteBatch
<1>3. CASE WriterLoop
  BY <1>3 DEF WriterLoop, Writing
<1>4. CASE CloseOld \/ OpenNew \/ SameHour
  BY <1>4 DEF CloseOld, OpenNew, SameHour, Writing
<1> QED
  BY <1>1, <1>2, <1>3, <1>4 DEF Writer

LEMMA OtherStays ==
    Shape /\ ~Ended /\ (Http \/ signal_handler \/ get_db_handle) => Stays
  BY DEF Stays, Past, Rest, Writing, Symbolizing, sampleVars, sampleQueueVars,
         writerVars, queueVars, Http, PrepareQuery, FinishQuery, signal_handler,
         get_db_handle

\* A new sample is the last one.
LEMMA DispatchInOrder ==
    ASSUME Shape, StagesInOrder, dispatch_sample_event
    PROVE  StagesInOrder'
<1> DEFINE d == dispatched
<1>1. /\ hand = <<>> /\ hand' = <<d + 1>> /\ dispatched' = d + 1
      /\ lost' = lost /\ Past' = Past /\ Symbolizing' = Symbolizing /\ sfifo' = sfifo
      /\ d \in Nat /\ d + 1 \in Sample
  BY PipelineAssumption
  DEF dispatch_sample_event, Past, Writing, Symbolizing, sampleQueueVars,
         writerVars, queueVars, Shape, Typed, TypeOK, Sample
<1>2. /\ Past \in Seq(Sample) /\ Rest \in Seq(Sample)
      /\ Symbolizing \o sfifo \in Seq(Sample)
  BY PlacesTyped, Concat DEF Shape, Typed, TypeOK
<1>3. Rest = Symbolizing \o sfifo
  BY <1>1, <1>2, ConcatEmpty DEF Rest
<1>4. Rest' = Rest \o <<d + 1>>
  BY <1>1, <1>3 DEF Rest
<1>5. <<d + 1>> \in Seq(Sample) /\ Len(<<d + 1>>) = 1 /\ <<d + 1>>[1] = d + 1
  BY <1>1
<1>6. Past' \o Rest' = (Past \o Rest) \o <<d + 1>> /\ Len(Rest') = Len(Rest) + 1
  BY <1>1, <1>2, <1>4, <1>5, Assoc, Concat
<1> DEFINE all == Past \o Rest
<1>7. all \in Seq(Sample)
  BY <1>2, Concat
<1>8. InOrder(Past, Rest, lost, d)
  BY StagesAsTwo
<1>9. Len(Rest) \in Nat
  BY <1>2, LenProperties
<1> HIDE DEF all
<1>10. CASE lost = {}
  <2>1. all = [s \in 1..d |-> s] /\ Len(all) = d
    BY <1>1, <1>7, <1>8, <1>10, LenProperties DEF InOrder, all
  <2>2. all \o <<d + 1>> = [s \in 1..(d + 1) |-> s]
    BY <1>1, <1>5, <1>7, <2>1, Concat
  <2> QED
    BY <1>1, <1>6, <1>10, <2>2, StagesAsTwoNext DEF InOrder, all
<1>11. CASE lost # {}
  <2> DEFINE k == d - Len(Rest)
  <2>1. all = From(k, Len(Rest)) /\ lost = 1..k
    BY <1>8, <1>11 DEF InOrder, all
  <2>2. Len(all) = Len(Rest)
    BY <1>1, <1>7, <1>9, <2>1, LenProperties DEF From
  <2>3. all \o <<d + 1>> = From(k, Len(Rest) + 1)
    BY <1>1, <1>5, <1>7, <1>9, <2>1, <2>2, Concat DEF From
  <2>4. d + 1 - Len(Rest') = k
    BY <1>1, <1>6, <1>9
  <2>5. Past' \o Rest' = From(d + 1 - Len(Rest'), Len(Rest'))
    BY <1>6, <2>3, <2>4 DEF all
  <2>6. lost' = 1..(d + 1 - Len(Rest')) /\ lost' # {}
    BY <1>1, <1>11, <2>1, <2>4
  <2>7. InOrder(Past', Rest', lost', dispatched')
    BY <1>1, <2>5, <2>6 DEF InOrder
  <2> QED
    BY <2>7, StagesAsTwoNext
<1> QED
  BY <1>10, <1>11

\* The symbolizer: a pop, a flush and a free leave Past and Rest alone.
LEMMA SymbolizerStays ==
    Shape /\ ~Ended /\ (PopSample \/ db_writer_flush \/ FreeSample) => Stays
<1> SUFFICES ASSUME Shape, ~Ended, PopSample \/ db_writer_flush \/ FreeSample
             PROVE  Stays
  OBVIOUS
<1> USE DEF Stays, Past, Rest, sampleQueueVars, queueVars, writerVars
<1>0. /\ sfifo \in Seq(Sample) /\ fifo \in Seq(Sample) /\ pbuf \in Seq(Sample)
      /\ processed \o Writing \in Seq(Sample)
  BY PlacesTyped, Concat DEF Shape, Typed, TypeOK
<1>1. CASE PopSample
  <2>1. 1 \in 1..Len(sfifo) /\ sfifo' = SubSeq(sfifo, 1 + 1, Len(sfifo))
    BY <1>1 DEF PopSample, SQ!Take
  <2>2. Symbolizing = <<>> /\ Symbolizing' = SubSeq(sfifo, 1, 1)
    BY <1>1 DEF PopSample, SQ!Take, Symbolizing, Shape, Typed
  <2>3. Symbolizing' \o sfifo' = Symbolizing \o sfifo
    BY <1>0, <2>1, <2>2, SplitSeq, ConcatEmpty
  <2>4. Writing' = Writing
    BY <1>1 DEF PopSample, Writing
  <2> QED
    BY <1>1, <2>3, <2>4 DEF PopSample
<1>2. CASE db_writer_flush
  <2>1. Symbolizing' = Symbolizing /\ Writing' = Writing
    BY <1>2 DEF db_writer_flush, DQ!Put, Symbolizing, Writing
  <2>2. ((processed \o Writing) \o (fifo \o pbuf)) \o <<>>
            = ((processed \o Writing) \o fifo) \o pbuf
    <3> DEFINE w == processed \o Writing
    <3> HIDE DEF w
    <3>1. (w \o (fifo \o pbuf)) \o <<>> = (w \o fifo) \o pbuf
      BY <1>0, Moved DEF w
    <3> QED
      BY <3>1 DEF w
  <2> QED
    BY <1>2, <2>1, <2>2 DEF db_writer_flush, DQ!Put
<1>3. CASE FreeSample
  BY <1>3 DEF FreeSample, Symbolizing, Writing
<1> QED
  BY <1>1, <1>2, <1>3

LEMMA ConcatFirst ==
    ASSUME NEW g \in Seq(Sample), NEW r \in Seq(Sample), Len(g) = 1
    PROVE  /\ g \o r \in Seq(Sample) /\ Len(g \o r) = Len(r) + 1
           /\ (g \o r)[1] = g[1]
           /\ \A i \in 1..Len(r) : (g \o r)[i + 1] = r[i]
<1>1. g \o r \in Seq(Sample) /\ Len(g \o r) = Len(g) + Len(r)
  BY Concat
<1>2. (g \o r)[1] = g[1]
  BY ConcatAt
<1>3. ASSUME NEW i \in 1..Len(r)
      PROVE  (g \o r)[i + 1] = r[i]
  <2>1. (g \o r)[Len(g) + i] = r[i]
    BY ConcatRight
  <2>2. Len(g) + i = i + 1
    OBVIOUS
  <2> QED
    BY <2>1, <2>2
<1> QED
  BY <1>1, <1>2, <1>3

\* Removing the first element of the numbers from k + 1 on.
LEMMA DropFirst ==
    ASSUME NEW n \in Nat, NEW k \in Nat, NEW g \in Seq(Sample), NEW r \in Seq(Sample),
           Len(g) = 1, g \o r = From(k, n)
    PROVE  Len(r) = n - 1 /\ g[1] = k + 1 /\ r = From(k + 1, n - 1)
<1> DEFINE all == g \o r
<1>1. /\ all \in Seq(Sample) /\ Len(all) = Len(r) + 1 /\ all[1] = g[1]
      /\ \A i \in 1..Len(r) : all[i + 1] = r[i]
  BY ConcatFirst
<1>2. all = [s \in 1..n |-> k + s]
  BY DEF From
<1> HIDE DEF all
<1>3. Len(all) = n
  BY <1>1, <1>2
<1>4. Len(r) = n - 1
  BY <1>1, <1>3
<1>5. ASSUME NEW i \in 1..(n - 1)
      PROVE  r[i] = (k + 1) + i
  <2>1. i \in 1..Len(r) /\ i + 1 \in 1..n
    BY <1>4
  <2>2. all[i + 1] = r[i]
    BY <1>1, <2>1
  <2>3. all[i + 1] = k + (i + 1)
    BY <1>2, <2>1
  <2> QED
    BY <2>2, <2>3
<1>6. r \in [1..(n - 1) -> Sample]
  BY <1>4, LenProperties
<1>7. r = From(k + 1, n - 1)
  BY <1>5, <1>6 DEF From
<1>8. g[1] = k + 1
  <2>1. 1 \in 1..n
    BY <1>4
  <2> QED
    BY <1>1, <1>2, <2>1
<1> QED
  BY <1>4, <1>7, <1>8

\* db_writer_push_stack passes the oldest sample on, or refuses it.
LEMMA PushStackInOrder ==
    ASSUME Shape, StagesInOrder, PushStack
    PROVE  StagesInOrder'
<1> DEFINE g == sgot["symbolizer"]
           a == processed \o Writing \o fifo
           t == sfifo \o hand
<1>0. Len(g) = 1 /\ Past = a \o pbuf
  BY DEF Shape, InHand, PushStack, Past
<1>1. /\ g \in Seq(Sample) /\ pbuf \in Seq(Sample)
      /\ sfifo \in Seq(Sample) /\ hand \in Seq(Sample) /\ t \in Seq(Sample)
  BY Concat DEF Shape, Typed, TypeOK
<1>2. a \in Seq(Sample) /\ Past \in Seq(Sample)
  <2>1. processed \o Writing \in Seq(Sample)
    BY PlacesTyped, Concat DEF Shape, Typed, TypeOK
  <2> QED
    BY <2>1, PlacesTyped, Concat DEF Shape, Typed, TypeOK
<1>3. Rest = g \o t /\ Rest' = t
  <2>1. Symbolizing = g /\ Symbolizing' = <<>> /\ UNCHANGED <<sfifo, hand>>
    BY DEF PushStack, Symbolizing, sampleQueueVars
  <2> HIDE DEF g
  <2>2. (g \o sfifo) \o hand = g \o (sfifo \o hand)
    BY <1>1, Assoc
  <2>3. <<>> \o sfifo = sfifo
    BY <1>1, ConcatEmpty
  <2> QED
    BY <2>1, <2>2, <2>3 DEF Rest
<1>4. InOrder(Past, Rest, lost, dispatched)
  BY StagesAsTwo
<1>5. dispatched' = dispatched /\ dispatched \in Nat
  BY DEF PushStack, Shape, Typed, TypeOK
<1> HIDE DEF g, a, t
<1>6. CASE running
  <2>1. lost = {} /\ lost' = {} /\ Past' = a \o (pbuf \o g)
    BY <1>6 DEF PushStack, Shape, NoWriter, Past, Writing, writerVars, queueVars, g, a
  <2>2. Past' \o Rest' = Past \o Rest
    <3>1. a \o (pbuf \o g) = (a \o pbuf) \o g
      <4>1. a \in Seq(Sample) /\ pbuf \in Seq(Sample) /\ g \in Seq(Sample)
        BY <1>1, <1>2
      <4> QED
        BY <4>1, Assoc
    <3>2. (Past \o g) \o t = Past \o (g \o t)
      <4>1. Past \in Seq(Sample) /\ g \in Seq(Sample) /\ t \in Seq(Sample)
        BY <1>1, <1>2
      <4> QED
        BY <4>1, Assoc
    <3> QED
      BY <1>0, <1>3, <2>1, <3>1, <3>2
  <2> QED
    BY <1>4, <1>5, <2>1, <2>2, StagesAsTwoNext DEF InOrder
<1>7. CASE ~running
  <2>1. Past = <<>> /\ Past' = <<>>
    <3>1. pcW = "none" /\ processed = <<>> /\ fifo = <<>> /\ pbuf = <<>>
      BY <1>7 DEF Shape, NoWriter, PushStack
    <3>2. UNCHANGED <<pcW, processed, fifo, pbuf>>
      BY <1>7 DEF PushStack, writerVars, queueVars
    <3>3. <<>> \o <<>> = <<>>
      BY EmptySeq, ConcatEmptySeq
    <3> QED
      BY <3>1, <3>2, <3>3 DEF Past, Writing
  <2>2. Past \o Rest = g \o t /\ Past' \o Rest' = t
    <3>1. g \o t \in Seq(Sample)
      BY <1>1, Concat
    <3> QED
      BY <1>1, <1>3, <2>1, <3>1, ConcatEmpty
  <2>3. lost' = lost \union {g[1]}
    BY <1>7 DEF PushStack, g
  <2>4. PICK m \in Nat : m = Len(t) /\ Len(Rest) = 1 + m
    <3>1. Len(g \o t) = Len(g) + Len(t)
      BY <1>1, Concat
    <3>2. Len(t) \in Nat
      BY <1>1, LenProperties
    <3> QED
      BY <1>0, <1>3, <3>1, <3>2
  <2>5. PICK k, n \in Nat : /\ dispatched = n + k /\ lost = 1..k
                            /\ g \o t = From(k, n)
    <3>1. CASE lost = {}
      <4>1. g \o t = From(0, dispatched)
        BY <1>4, <1>5, <2>2, <3>1 DEF InOrder, From
      <4> QED
        BY <1>5, <3>1, <4>1
    <3>2. CASE lost # {}
      <4>1. lost = 1..(dispatched - (1 + m)) /\ g \o t = From(dispatched - (1 + m), 1 + m)
        BY <1>4, <2>2, <2>4, <3>2 DEF InOrder
      <4>2. dispatched - (1 + m) \in Nat
        BY <1>5, <3>2, <4>1
      <4> QED
        BY <1>5, <4>1, <4>2
    <3> QED
      BY <3>1, <3>2
  <2>6. Len(t) = n - 1 /\ g[1] = k + 1 /\ t = From(k + 1, n - 1)
    BY <1>0, <1>1, <2>5, DropFirst
  <2>7. dispatched - Len(t) = k + 1
    BY <2>5, <2>6
  <2>8. lost' = 1..(k + 1) /\ lost' # {}
    BY <2>3, <2>5, <2>6
  <2>9. InOrder(Past', Rest', lost', dispatched')
    BY <1>3, <1>5, <2>2, <2>6, <2>7, <2>8 DEF InOrder
  <2> QED
    BY <2>9, StagesAsTwoNext
<1> QED
  BY <1>6, <1>7

LEMMA NextInOrder == PipeInv /\ [Next]_vars => StagesInOrder'
<1> SUFFICES ASSUME PipeInv, [Next]_vars
             PROVE  StagesInOrder'
  OBVIOUS
<1>1. Shape /\ StagesInOrder
  BY DEF PipeInv, Shape
<1>2. CASE UNCHANGED vars
  <2>1. Stays
    BY <1>2 DEF Stays, Past, Rest, Writing, Symbolizing, vars, sampleVars,
                sampleQueueVars, writerVars, queueVars
  <2> QED
    BY <1>1, <2>1, StagesAsTwo, StagesAsTwoNext DEF Stays
<1>3. CASE Stays
  BY <1>1, <1>3, StagesAsTwo, StagesAsTwoNext DEF Stays
<1> QED
  BY <1>1, <1>2, <1>3, MainStays, WriterStays, OtherStays, SymbolizerStays,
     DispatchInOrder, PushStackInOrder DEF Next, Symbolizer

----------------------------------------------------------------------------

\* PipeInv is an invariant of the whole program.
LEMMA PipeInvariant == Spec => []PipeInv
<1>1. Init => PipeInv
  <2> SUFFICES ASSUME Init
               PROVE  PipeInv
    OBVIOUS
  <2>1. StagesInOrder
    <3>1. Past = <<>> /\ Rest = <<>> /\ lost = {} /\ dispatched = 0
      <4>1. <<>> \o <<>> = <<>>
        BY EmptySeq, ConcatEmptySeq
      <4> QED
        BY <4>1 DEF Init, SQ!FInit, DQ!FInit, Past, Rest, Writing, Symbolizing
    <3>2. <<>> \o <<>> = [s \in 1..0 |-> s]
      BY EmptySeq, ConcatEmptySeq
    <3> QED
      BY <3>1, <3>2, StagesAsTwo DEF InOrder
  <2> QED
    BY <2>1, InitShape DEF PipeInv, Shape
<1>2. PipeInv /\ [Next]_vars => PipeInv'
  BY NextShape, NextInOrder DEF PipeInv, Shape
<1> QED
  BY <1>1, <1>2, PTL DEF Spec

\* Types; in particular the queues stay within their capacities and no
\* request goes on with a NULL handle.
THEOREM TypeCorrect == Spec => []TypeOK
<1>1. PipeInv => TypeOK
  BY DEF PipeInv, Typed
<1> QED
  BY <1>1, PipeInvariant, PTL

\* From the dispatch in main_loop to the writer, every sample is at one place
\* and in the order of dispatch, and SampleCapacity + 2 chunks are enough for
\* the samples under way: dispatch_sample_event never finds the pool empty.
THEOREM SamplesInOrderOnce == Spec => []InOrderOnce
<1>1. PipeInv => InOrderOnce
  <2> SUFFICES ASSUME PipeInv
               PROVE  InOrderOnce
    OBVIOUS
  <2> DEFINE g == sgot["symbolizer"]
  <2>1. /\ sfifo \in Seq(Sample) /\ hand \in Seq(Sample) /\ g \in Seq(Sample)
        /\ Len(sfifo) <= SampleCapacity /\ Len(hand) <= 1 /\ Len(g) <= 1
    BY DEF PipeInv, Typed, TypeOK, InHand
  <2> HIDE DEF g
  <2>2. PICK x, y, z \in Nat : x = Len(sfifo) /\ y = Len(hand) /\ z = Len(g)
    BY <2>1, LenProperties
  <2>3. y + x + z <= SampleCapacity + 2
    BY <2>1, <2>2, PipelineAssumption
  <2>4. PoolSuffices
    BY <2>2, <2>3 DEF PoolSuffices, g
  <2> QED
    BY <2>4 DEF PipeInv, InOrderOnce
<1> QED
  BY <1>1, PipeInvariant, PTL
=============================================================================
