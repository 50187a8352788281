--------------------------- MODULE DbWriterProofs ---------------------------
(***************************************************************************)
(* What DbWriter guarantees for every batch size, queue capacity and set   *)
(* of hours, any number of entries and any number of failing calls of      *)
(* SQLite.                                                                 *)
(***************************************************************************)
EXTENDS DbWriter, SequenceTheorems, FiniteSetTheorems, TLAPS

----------------------------------------------------------------------------
(* The inductive invariant.                                                *)

Inserting == pcW = "insert" /\ ~aborted

\* The entries that any part of the writer still knows.
Seen == Range(pbuf) \union Range(fifo) \union Range(flushS) \union Range(flushM)
          \union Range(batch) \union Range(pend) \union Committed
          \union stuck \union rejected \union discarded \union drained
          \union dropped \union lastFlush \union freed

\* Entries are numbered as they are pushed, and get their hour then; the
\* producer buffer is handed over when it reaches the threshold, before the
\* next push; a batch that is inserted has a statement, and rows are pending
\* only in a transaction.
Sane ==
    /\ Seen \subseteq 1..pushed
    /\ \A e \in 1..pushed : hour[e] \in Hour
    /\ Len(pbuf) <= flush_threshold
    /\ flushS = <<>> => Len(pbuf) < flush_threshold
    /\ pcW \in {"handle", "insert"} => Len(batch) \in 1..BatchSize
    /\ Inserting => stmt.file \in Hour /\ i \in 1..(Len(batch) + 1)
    /\ inPush => flushS = <<>> /\ pushed < MaxEntries
    /\ ~txn => pend = <<>>

\* A handle that is open belongs to current_db_path.  A statement that writes
\* through it writes to that file.  The rows of a transaction are of that
\* hour, unless it is one of a connection that the writer has lost.
FileInv ==
    /\ db \in {path, NoHour}
    /\ pcW = "insert" /\ stmt.own => stmt.file = path
    /\ (pcW = "insert" => stmt.own) => \A e \in Range(pend) : hour[e] = path
    /\ \A h \in Hour : \A e \in Range(table[h]) \ bare : hour[e] = h

\* Where main and the writer are when the queue is closed; and, after a quiet
\* stop, what the last flush handed over is all that the writer leaves behind.
StopInv ==
    /\ running <=> pcM = "run"
    /\ closed <=> pcM \in {"join", "drain", "destroyed"}
    /\ pcM \in {"drain", "destroyed"} => pcW = "done"
    /\ pcW = "done" => ~running
    /\ pcM \in {"run", "stop"} => lastFlush = {}
    /\ quiet =>
         /\ inPush => pcM = "run"
         /\ flushS # <<>> => pcM = "run" /\ flushS = pbuf
         /\ pcM = "flush" => flushM = pbuf /\ lastFlush = Range(pbuf)
         /\ pcW = "done" => Range(fifo) \subseteq lastFlush
         /\ drained \subseteq lastFlush /\ dropped = {}

Inc(s)       == \A k, l \in DOMAIN s : k < l => s[k] < s[l]
Before(A, B) == \A x \in A, y \in B : x < y

\* The entries of the batch that are not inserted yet.
Left == IF ~aborted /\ pcW = "handle" THEN Range(batch)
        ELSE IF Inserting THEN Range(SubSeq(batch, i, Len(batch))) ELSE {}

\* Past the batch, in whatever way.
Done == Committed \union stuck \union rejected \union discarded
          \union drained \union freed

Waiting == Range(fifo) \union Range(pbuf)

\* Entries do not overtake each other on their way to the files.  What a
\* transaction holds may be older than the batch: an earlier COMMIT failed.
Lined ==
    /\ Inc(fifo) /\ Inc(pbuf) /\ Inc(pend)
    /\ Before(Range(fifo), Range(pbuf))
    /\ pcW \in {"handle", "insert"} => Inc(batch) /\ Before(Range(batch), Waiting)
    /\ Before(Range(pend), Left \union Waiting)
    /\ Before(Done, Left \union Waiting)
    /\ Before(Committed, Range(pend))

\* They do not while a stop is quiet; after an abort only the files remain.
OrderInv ==
    quiet => /\ \A h \in Hour : Inc(table[h])
             /\ ~aborted => Lined

DbInv == TypeOK /\ Sane /\ FileInv /\ StopInv /\ OrderInv /\ ExactlyOnePlace

----------------------------------------------------------------------------
(* Sequences of entries: the library's facts, for one set of elements.     *)

LEMMA Threshold == flush_threshold \in 1..MaxProducerBatch
  BY DbAssumption DEF flush_threshold

LEMMA RangeIs == \A s \in Seq(Entry) : Range(s) = { s[k] : k \in 1..Len(s) }
  BY RangeEquality

LEMMA RangeIn == \A s \in Seq(Entry) : Range(s) \subseteq Entry
  BY RangeOfSeq

LEMMA RangeEmpty == Range(<<>>) = {}
  BY DEF Range

LEMMA DomainIs == \A s \in Seq(Entry) : DOMAIN s = 1..Len(s)
  BY LenProperties

LEMMA Concat ==
    \A s, t \in Seq(Entry) :
        /\ s \o t \in Seq(Entry) /\ Len(s \o t) = Len(s) + Len(t)
        /\ Range(s \o t) = Range(s) \union Range(t)
  BY ConcatProperties, RangeConcatenation

LEMMA ConcatAt ==
    \A s, t \in Seq(Entry) : \A k \in 1..(Len(s) + Len(t)) :
        (s \o t)[k] = IF k <= Len(s) THEN s[k] ELSE t[k - Len(s)]
  BY ConcatProperties

LEMMA Appended ==
    \A s \in Seq(Entry) : \A e \in Entry :
        /\ Append(s, e) \in Seq(Entry) /\ Len(Append(s, e)) = Len(s) + 1
        /\ Append(s, e) # <<>>
        /\ Range(Append(s, e)) = Range(s) \union {e}
<1> SUFFICES ASSUME NEW s \in Seq(Entry), NEW e \in Entry
             PROVE  /\ Append(s, e) \in Seq(Entry) /\ Len(Append(s, e)) = Len(s) + 1
                    /\ Append(s, e) # <<>>
                    /\ Range(Append(s, e)) = Range(s) \union {e}
  OBVIOUS
<1>1. /\ Append(s, e) \in Seq(Entry) /\ Len(Append(s, e)) = Len(s) + 1
      /\ Append(s, e) # <<>>
  BY AppendProperties
<1>2. Append(s, e) = s \o <<e>>
  BY AppendIsConcat
<1>3. <<e>> \in Seq(Entry) /\ Range(<<e>>) = {e}
  BY DEF Range
<1> QED
  BY <1>1, <1>2, <1>3, Concat

\* Cutting a sequence in two.
LEMMA SplitSeq ==
    ASSUME NEW s \in Seq(Entry), NEW n \in 0..Len(s)
    PROVE  /\ SubSeq(s, 1, n) \in Seq(Entry) /\ Len(SubSeq(s, 1, n)) = n
           /\ SubSeq(s, n + 1, Len(s)) \in Seq(Entry)
           /\ Len(SubSeq(s, n + 1, Len(s))) = Len(s) - n
           /\ SubSeq(s, 1, n) \o SubSeq(s, n + 1, Len(s)) = s
<1>1. Len(s) \in Nat /\ \A k \in 1..Len(s) : s[k] \in Entry
  BY ElementOfSeq, LenProperties
<1>2. SubSeq(s, 1, n) \in Seq(Entry) /\ Len(SubSeq(s, 1, n)) = n
  BY <1>1, SubSeqProperties
<1>3. /\ SubSeq(s, n + 1, Len(s)) \in Seq(Entry)
      /\ Len(SubSeq(s, n + 1, Len(s))) = Len(s) - n
  <2>1. n + 1 \in Int /\ Len(s) \in Int /\ \A k \in (n + 1)..Len(s) : s[k] \in Entry
    BY <1>1
  <2> QED
    BY <2>1, SubSeqProperties
<1>4. SubSeq(s, 1, n) \o SubSeq(s, n + 1, Len(s)) = SubSeq(s, 1, Len(s))
  <2>1. 1 \in 1..(Len(s) + 1) /\ n \in (1 - 1)..Len(s) /\ Len(s) \in n..Len(s)
    BY <1>1
  <2> QED
    BY <2>1, ConcatAdjacentSubSeq
<1> QED
  BY <1>2, <1>3, <1>4, SubSeqFull

\* The rest of a sequence from position n on.
LEMMA RestIs ==
    \A s \in Seq(Entry) : \A n \in 1..(Len(s) + 1) :
        /\ SubSeq(s, n, Len(s)) \in Seq(Entry)
        /\ Range(SubSeq(s, n, Len(s))) = { s[k] : k \in n..Len(s) }
<1> SUFFICES ASSUME NEW s \in Seq(Entry), NEW n \in 1..(Len(s) + 1)
             PROVE  /\ SubSeq(s, n, Len(s)) \in Seq(Entry)
                    /\ Range(SubSeq(s, n, Len(s))) = { s[k] : k \in n..Len(s) }
  OBVIOUS
<1> DEFINE t == SubSeq(s, n, Len(s))
<1>1. Len(s) \in Nat /\ \A k \in 1..Len(s) : s[k] \in Entry
  BY ElementOfSeq, LenProperties
<1>2. /\ t \in Seq(Entry)
      /\ Len(t) = IF n <= Len(s) THEN Len(s) - n + 1 ELSE 0
      /\ \A k \in 1..(Len(s) - n + 1) : t[k] = s[n + k - 1]
  BY <1>1, SubSeqProperties
<1>3. Range(t) = { t[k] : k \in 1..Len(t) }
  BY <1>2, RangeIs
<1>4. Len(t) = Len(s) - n + 1
  BY <1>1, <1>2
<1> HIDE DEF t
<1>5. ASSUME NEW x \in Range(t)
      PROVE  \E k \in n..Len(s) : x = s[k]
  <2>1. PICK k \in 1..Len(t) : x = t[k]
    BY <1>3
  <2>2. n + k - 1 \in n..Len(s) /\ x = s[n + k - 1]
    BY <1>1, <1>2, <1>4, <2>1
  <2> QED
    BY <2>2
<1>6. ASSUME NEW k \in n..Len(s)
      PROVE  s[k] \in Range(t)
  <2>1. k - n + 1 \in 1..Len(t) /\ n + (k - n + 1) - 1 = k
    BY <1>1, <1>4
  <2>2. t[k - n + 1] = s[k]
    BY <1>1, <1>2, <1>4, <2>1
  <2> QED
    BY <1>3, <2>1, <2>2
<1>7. Range(t) = { s[k] : k \in n..Len(s) }
  BY <1>5, <1>6
<1> QED
  BY <1>2, <1>7 DEF t

LEMMA RestSplit ==
    ASSUME NEW s \in Seq(Entry), NEW n \in 1..Len(s)
    PROVE  /\ Range(SubSeq(s, n, Len(s))) = {s[n]} \union Range(SubSeq(s, n + 1, Len(s)))
           /\ Range(SubSeq(s, n, Len(s))) \subseteq Range(s)
           /\ s[n] \in Range(s)
<1>1. Len(s) \in Nat
  BY LenProperties
<1>2. n \in 1..(Len(s) + 1) /\ n + 1 \in 1..(Len(s) + 1)
  BY <1>1
<1>3. /\ Range(SubSeq(s, n, Len(s))) = { s[k] : k \in n..Len(s) }
      /\ Range(SubSeq(s, n + 1, Len(s))) = { s[k] : k \in (n + 1)..Len(s) }
      /\ Range(s) = { s[k] : k \in 1..Len(s) }
  BY <1>2, RestIs, RangeIs
<1>4. n..Len(s) = {n} \union ((n + 1)..Len(s)) /\ n..Len(s) \subseteq 1..Len(s)
  BY <1>1
<1> QED
  BY <1>3, <1>4

LEMMA RestEmpty ==
    ASSUME NEW s \in Seq(Entry), NEW n \in Nat, n > Len(s)
    PROVE  SubSeq(s, n, Len(s)) = <<>>
  BY LenProperties, SubSeqEmpty

\* Growing sequences.
LEMMA IncConcat ==
    ASSUME NEW s \in Seq(Entry), NEW t \in Seq(Entry),
           Inc(s), Inc(t), Before(Range(s), Range(t))
    PROVE  Inc(s \o t)
<1>1. Len(s) \in Nat /\ Len(t) \in Nat
  BY LenProperties
<1>2. DOMAIN s = 1..Len(s) /\ DOMAIN t = 1..Len(t) /\ DOMAIN (s \o t) = 1..(Len(s) + Len(t))
  BY DomainIs, Concat
<1>3. \A k \in 1..(Len(s) + Len(t)) :
         (s \o t)[k] = IF k <= Len(s) THEN s[k] ELSE t[k - Len(s)]
  BY ConcatAt
<1>4. /\ \A k \in 1..Len(s) : s[k] \in Range(s)
      /\ \A k \in 1..Len(t) : t[k] \in Range(t)
  BY RangeIs
<1>5. ASSUME NEW k \in 1..(Len(s) + Len(t)), NEW l \in 1..(Len(s) + Len(t)), k < l
      PROVE  (s \o t)[k] < (s \o t)[l]
  <2>1. CASE l <= Len(s)
    BY <1>1, <1>2, <1>3, <1>5, <2>1 DEF Inc
  <2>2. CASE k <= Len(s) /\ l > Len(s)
    <3>1. k \in 1..Len(s) /\ l - Len(s) \in 1..Len(t) /\ ~(l <= Len(s))
      BY <1>1, <2>2
    <3> QED
      BY <1>3, <1>4, <2>2, <3>1 DEF Before
  <2>3. CASE k > Len(s)
    <3>1. /\ k - Len(s) \in 1..Len(t) /\ l - Len(s) \in 1..Len(t)
          /\ k - Len(s) < l - Len(s) /\ ~(l <= Len(s)) /\ ~(k <= Len(s))
      BY <1>1, <1>5, <2>3
    <3> QED
      BY <1>2, <1>3, <3>1 DEF Inc
  <2> QED
    BY <1>1, <1>5, <2>1, <2>2, <2>3
<1> QED
  BY <1>2, <1>5 DEF Inc

LEMMA IncOne == \A e \in Entry : <<e>> \in Seq(Entry) /\ Range(<<e>>) = {e} /\ Inc(<<e>>)
  BY DEF Inc, Range, Entry

LEMMA IncAppend ==
    ASSUME NEW s \in Seq(Entry), NEW e \in Entry, Inc(s), Before(Range(s), {e})
    PROVE  Inc(Append(s, e))
<1>1. Append(s, e) = s \o <<e>>
  BY AppendIsConcat
<1> QED
  BY <1>1, IncOne, IncConcat

LEMMA IncEmpty == Inc(<<>>)
  BY DEF Inc

\* The parts of a growing sequence grow, and the first comes first.
LEMMA IncSplit ==
    ASSUME NEW s \in Seq(Entry), NEW n \in 0..Len(s), Inc(s)
    PROVE  /\ Inc(SubSeq(s, 1, n)) /\ Inc(SubSeq(s, n + 1, Len(s)))
           /\ Before(Range(SubSeq(s, 1, n)), Range(SubSeq(s, n + 1, Len(s))))
<1> DEFINE a == SubSeq(s, 1, n)
           b == SubSeq(s, n + 1, Len(s))
<1>1. a \in Seq(Entry) /\ b \in Seq(Entry) /\ Len(a) = n /\ Len(b) = Len(s) - n /\ a \o b = s
  BY SplitSeq
<1>2. Len(s) \in Nat /\ DOMAIN a = 1..n /\ DOMAIN b = 1..(Len(s) - n) /\ DOMAIN s = 1..Len(s)
  BY <1>1, DomainIs, LenProperties
<1>3. /\ \A k \in 1..n : s[k] = a[k]
      /\ \A k \in (n + 1)..Len(s) : s[k] = b[k - n]
  <2>1. \A k \in 1..(Len(a) + Len(b)) :
           (a \o b)[k] = IF k <= Len(a) THEN a[k] ELSE b[k - Len(a)]
    BY <1>1, ConcatAt
  <2> HIDE DEF a, b
  <2>2. Len(a) + Len(b) = Len(s)
    BY <1>1, <1>2
  <2> QED
    BY <1>1, <1>2, <2>1, <2>2
<1> HIDE DEF a, b
<1>4. \A k \in 1..(Len(s) - n) : b[k] = s[n + k] /\ n + k \in 1..Len(s)
  <2> TAKE k \in 1..(Len(s) - n)
  <2>1. n + k \in (n + 1)..Len(s) /\ (n + k) - n = k /\ n + k \in 1..Len(s)
    BY <1>2
  <2> QED
    BY <1>3, <2>1
<1>5. Inc(a)
  BY <1>2, <1>3 DEF Inc
<1>6. Inc(b)
  <2>1. \A k, l \in 1..(Len(s) - n) : k < l => n + k < n + l
    BY <1>2
  <2>2. \A k, l \in 1..(Len(s) - n) : k < l => s[n + k] < s[n + l]
    BY <1>2, <1>4, <2>1 DEF Inc
  <2> QED
    BY <1>2, <1>4, <2>2 DEF Inc
<1>7. Before(Range(a), Range(b))
  <2>1. Range(a) = { a[k] : k \in 1..n } /\ Range(b) = { b[k] : k \in 1..(Len(s) - n) }
    BY <1>1, RangeIs
  <2>2. \A k \in 1..n : \A l \in 1..(Len(s) - n) : a[k] < b[l]
    BY <1>2, <1>3, <1>4 DEF Inc
  <2> QED
    BY <2>1, <2>2 DEF Before
<1> QED
  BY <1>5, <1>6, <1>7 DEF a, b

LEMMA IncRest ==
    ASSUME NEW s \in Seq(Entry), NEW n \in 1..Len(s), Inc(s)
    PROVE  Before({s[n]}, Range(SubSeq(s, n + 1, Len(s))))
<1>1. Len(s) \in Nat /\ n + 1 \in 1..(Len(s) + 1) /\ DOMAIN s = 1..Len(s)
  BY LenProperties
<1>2. Range(SubSeq(s, n + 1, Len(s))) = { s[k] : k \in (n + 1)..Len(s) }
  BY <1>1, RestIs
<1>3. \A k \in (n + 1)..Len(s) : s[n] < s[k]
  BY <1>1 DEF Inc
<1> QED
  BY <1>2, <1>3 DEF Before

----------------------------------------------------------------------------
(* Types, and the bounds of the producer buffer and of the batch.          *)

\* One step of the writer and of its clients, as the proofs take it apart.
LEMMA Steps ==
    ASSUME [Next]_vars
    PROVE  \/ UNCHANGED vars
           \/ /\ ~aborted /\ UNCHANGED quiet
              /\ \/ db_writer_push_stack \/ \E h \in Hour : AppendEntry(h)
                 \/ NoEntry \/ SymbolizerFlush \/ WriterLoop \/ WriterPop \/ BatchDiscarded
                 \/ BeginBatch \/ InsertRow \/ MidBatchFails \/ CommitBatch
                 \/ db_writer_stop \/ StopReads \/ StopFlush \/ StopShutdown
                 \/ db_writer_wait \/ WaitDrain
  BY DEF Next, Running, Pushing, GoOn, Writer, Main

LEMMA InitTypes == Init => TypeOK
<1> SUFFICES ASSUME Init
             PROVE  TypeOK
  OBVIOUS
<1> USE DbAssumption DEF Init, Q!FInit
<1>1. /\ fifo \in Seq(Entry) /\ Len(fifo) <= QueueCapacity
      /\ pbuf \in Seq(Entry) /\ Len(pbuf) <= MaxProducerBatch
      /\ flushS \in Seq(Entry) /\ flushM \in Seq(Entry) /\ pend \in Seq(Entry)
  OBVIOUS
<1>2. got \in [{"writer", "main"} -> Seq(Entry)] /\ table \in [Hour -> Seq(Entry)]
  OBVIOUS
<1>3. stmt \in [file : Hour \union {NoHour}, own : BOOLEAN]
  BY DEF NoStmt
<1>4. i \in 0..(BatchSize + 1) /\ pushed \in 0..MaxEntries /\ faults \in 0..MaxFaults
  OBVIOUS
<1> QED
  BY <1>1, <1>2, <1>3, <1>4 DEF TypeOK

\* What pushing does to the buffer and to the flush that may follow.
LEMMA PushTypes ==
    ASSUME TypeOK, Sane, NEW h \in Hour, AppendEntry(h)
    PROVE  /\ pushed' \in Entry /\ pushed' = pushed + 1
           /\ pbuf' \in Seq(Entry) /\ Len(pbuf') = Len(pbuf) + 1
           /\ Len(pbuf') <= flush_threshold
           /\ Range(pbuf') = Range(pbuf) \union {pushed'}
           /\ flushS' \in {pbuf', <<>>}
           /\ flushS' = <<>> => Len(pbuf') < flush_threshold
<1>1. /\ flushS = <<>> /\ pushed < MaxEntries /\ pushed' = pushed + 1
      /\ pbuf' = Append(pbuf, pushed + 1)
      /\ flushS' = IF Len(pbuf) + 1 >= flush_threshold THEN pbuf' ELSE <<>>
  BY DEF AppendEntry, Sane
<1>2. pushed \in 0..MaxEntries /\ pbuf \in Seq(Entry)
  BY DEF TypeOK
<1>3. pushed + 1 \in Entry
  BY <1>1, <1>2, DbAssumption DEF Entry
<1>4. /\ pbuf' \in Seq(Entry) /\ Len(pbuf') = Len(pbuf) + 1 /\ pbuf' # <<>>
      /\ Range(pbuf') = Range(pbuf) \union {pushed'}
  BY <1>1, <1>2, <1>3, Appended
<1>5. Len(pbuf) < flush_threshold /\ Len(pbuf) \in Nat /\ flush_threshold \in Nat
  BY <1>1, <1>2, Threshold, LenProperties, DbAssumption DEF Sane
<1>6. Len(pbuf') <= flush_threshold
  BY <1>4, <1>5
<1>7. flushS' = <<>> => Len(pbuf') < flush_threshold
  BY <1>1, <1>4, <1>5
<1> QED
  BY <1>1, <1>3, <1>4, <1>6, <1>7

\* What flushing does, whoever flushes.
LEMMA FlushTypes ==
    ASSUME TypeOK, NEW s \in Seq(Entry), db_writer_flush(s)
    PROVE  /\ fifo' \in Seq(Entry) /\ Len(fifo') <= QueueCapacity
           /\ dropped' \subseteq Entry
           /\ got' = got /\ closed' = closed /\ pbuf' = <<>>
           /\ \/ ~closed /\ Range(fifo') = Range(fifo) \union Range(s)
                 /\ fifo' = fifo \o s /\ dropped' = dropped
              \/ closed /\ fifo' = fifo /\ dropped' = dropped \union Range(s)
<1>1. fifo \in Seq(Entry) /\ Len(fifo) <= QueueCapacity /\ dropped \subseteq Entry
  BY DEF TypeOK
<1>2. Range(s) \subseteq Entry
  BY RangeIn
<1>3. /\ fifo \o s \in Seq(Entry) /\ Len(fifo \o s) = Len(fifo) + Len(s)
      /\ Range(fifo \o s) = Range(fifo) \union Range(s)
  BY <1>1, Concat
<1>4. CASE Q!Put(s)
  BY <1>1, <1>3, <1>4 DEF db_writer_flush, Q!Put
<1>5. CASE Q!Refuse(Range(s))
  BY <1>1, <1>2, <1>5 DEF db_writer_flush, Q!Refuse
<1> QED
  BY <1>4, <1>5 DEF db_writer_flush

\* What taking from the queue does, whoever takes.
LEMMA TakeTypes ==
    ASSUME TypeOK, NEW c \in {"writer", "main"}, NEW n \in 1..Len(fifo), Q!Take(c, n)
    PROVE  /\ fifo' \in Seq(Entry) /\ Len(fifo') <= QueueCapacity
           /\ fifo' = SubSeq(fifo, n + 1, Len(fifo))
           /\ got' \in [{"writer", "main"} -> Seq(Entry)]
           /\ got'[c] = SubSeq(fifo, 1, n) /\ Len(got'[c]) = n
           /\ Range(fifo) = Range(SubSeq(fifo, 1, n)) \union Range(fifo')
           /\ c = "main" => got'["writer"] = got["writer"]
           /\ closed' = closed /\ dropped' = dropped
<1>1. fifo \in Seq(Entry) /\ Len(fifo) <= QueueCapacity /\ n \in 0..Len(fifo)
  BY DEF TypeOK
<1>2. got \in [{"writer", "main"} -> Seq(Entry)]
  BY DEF TypeOK
<1>3. /\ got' = [got EXCEPT ![c] = SubSeq(fifo, 1, n)]
      /\ fifo' = SubSeq(fifo, n + 1, Len(fifo))
      /\ closed' = closed /\ dropped' = dropped
  BY DEF Q!Take
<1>4. /\ SubSeq(fifo, 1, n) \in Seq(Entry) /\ Len(SubSeq(fifo, 1, n)) = n
      /\ SubSeq(fifo, n + 1, Len(fifo)) \in Seq(Entry)
      /\ Len(SubSeq(fifo, n + 1, Len(fifo))) = Len(fifo) - n
      /\ SubSeq(fifo, 1, n) \o SubSeq(fifo, n + 1, Len(fifo)) = fifo
  BY <1>1, SplitSeq
<1>5. Range(fifo) = Range(SubSeq(fifo, 1, n)) \union Range(fifo')
  BY <1>3, <1>4, Concat
<1>6. Len(fifo') <= QueueCapacity
  BY <1>1, <1>3, <1>4, LenProperties, DbAssumption
<1>7. /\ got' \in [{"writer", "main"} -> Seq(Entry)] /\ got'[c] = SubSeq(fifo, 1, n)
      /\ c = "main" => got'["writer"] = got["writer"]
  BY <1>2, <1>3, <1>4
<1> QED
  BY <1>3, <1>4, <1>5, <1>6, <1>7

\* ensure_db_handle keeps to the hours; if it succeeds, the open file is h's.
LEMMA EnsureTypes ==
    ASSUME TypeOK, FileInv, NEW h \in Hour
    PROVE  /\ EnsureOk(h) => path' = h /\ db' = h
           /\ EnsureFails(h) => path' = h /\ db' = NoHour /\ faults' \in 0..MaxFaults
<1>1. /\ path \in Hour \union {NoHour} /\ db \in Hour \union {NoHour}
      /\ faults \in 0..MaxFaults /\ db \in {path, NoHour} /\ MaxFaults \in Nat
  BY DbAssumption DEF TypeOK, FileInv
<1>2. EnsureOk(h) => path' = h /\ db' = h
  BY <1>1 DEF EnsureOk
<1>3. EnsureFails(h) => path' = h /\ db' = NoHour /\ faults' \in 0..MaxFaults
  BY <1>1 DEF EnsureFails
<1> QED
  BY <1>2, <1>3

\* The entries of a batch have an hour.
LEMMA BatchHour ==
    ASSUME TypeOK, Sane, NEW k \in 1..Len(batch)
    PROVE  batch[k] \in Entry /\ batch[k] \in 1..pushed /\ hour[batch[k]] \in Hour
<1>1. batch \in Seq(Entry)
  BY DEF TypeOK, batch
<1>2. batch[k] \in Range(batch) /\ batch[k] \in Entry
  BY <1>1, RangeIs, ElementOfSeq
<1>3. batch[k] \in 1..pushed
  BY <1>2 DEF Sane, Seen
<1> QED
  BY <1>2, <1>3 DEF Sane

LEMMA FaultTypes ==
    ASSUME TypeOK, Fault
    PROVE  faults' \in 0..MaxFaults
  BY DbAssumption DEF TypeOK, Fault

\* Rows are added to one file.
LEMMA TableGrows ==
    ASSUME TypeOK, NEW f \in Hour, NEW s \in Seq(Entry),
           table' = [table EXCEPT ![f] = table[f] \o s]
    PROVE  /\ table' \in [Hour -> Seq(Entry)]
           /\ table'[f] = table[f] \o s
           /\ Range(table'[f]) = Range(table[f]) \union Range(s)
           /\ \A h \in Hour : h # f => table'[h] = table[h]
           /\ Committed' = Committed \union Range(s)
<1>1. table \in [Hour -> Seq(Entry)] /\ table[f] \in Seq(Entry)
  BY DEF TypeOK
<1>2. table[f] \o s \in Seq(Entry) /\ Range(table[f] \o s) = Range(table[f]) \union Range(s)
  BY <1>1, Concat
<1>3. /\ table' \in [Hour -> Seq(Entry)]
      /\ table'[f] = table[f] \o s
      /\ \A h \in Hour : h # f => table'[h] = table[h]
  BY <1>1, <1>2
<1>4. Committed' = UNION { Range(table'[h]) : h \in Hour }
  BY DEF Committed
<1>5. \A x : x \in Committed' <=> x \in Committed \/ x \in Range(s)
  <2> TAKE x
  <2>1. x \in Committed' <=> \E h \in Hour : x \in Range(table'[h])
    BY <1>4
  <2>2. x \in Committed <=> \E h \in Hour : x \in Range(table[h])
    BY DEF Committed
  <2> QED
    BY <1>2, <1>3, <2>1, <2>2
<1> QED
  BY <1>2, <1>3, <1>5

\* One row joins the transaction, is committed on its own, is rejected, or is
\* rolled back with the transaction.
LEMMA StepEffect ==
    ASSUME TypeOK, Sane, NEW e \in Entry, stmt.file \in Hour, Step(e)
    PROVE  /\ pend' \in Seq(Entry) /\ txn' \in BOOLEAN /\ faults' \in 0..MaxFaults
           /\ table' \in [Hour -> Seq(Entry)]
           /\ \/ /\ txn /\ txn' = txn /\ pend' = Append(pend, e)
                 /\ Range(pend') = Range(pend) \union {e}
                 /\ UNCHANGED <<rejected, table, bare>> /\ Committed' = Committed
              \/ /\ pend = <<>> /\ pend' = <<>>
                 /\ rejected' = rejected /\ bare' = bare \union {e}
                 /\ table'[stmt.file] = Append(table[stmt.file], e)
                 /\ Range(table'[stmt.file]) = Range(table[stmt.file]) \union {e}
                 /\ \A h \in Hour : h # stmt.file => table'[h] = table[h]
                 /\ Committed' = Committed \union {e}
              \/ /\ pend' = pend /\ txn' = txn /\ rejected' = rejected \union {e}
                 /\ UNCHANGED <<table, bare>> /\ Committed' = Committed
              \/ /\ pend' = <<>> /\ rejected' = rejected \union Range(pend) \union {e}
                 /\ UNCHANGED <<table, bare>> /\ Committed' = Committed
<1>1. /\ pend \in Seq(Entry) /\ txn \in BOOLEAN /\ faults \in 0..MaxFaults
      /\ table \in [Hour -> Seq(Entry)] /\ table[stmt.file] \in Seq(Entry)
  BY DEF TypeOK
<1>2. CASE txn /\ pend' = Append(pend, e) /\ UNCHANGED <<txn, bare, table, rejected, faults>>
  <2>1. Append(pend, e) \in Seq(Entry) /\ Range(Append(pend, e)) = Range(pend) \union {e}
    BY <1>1, Appended
  <2>2. Committed' = Committed
    BY <1>2 DEF Committed
  <2> QED
    BY <1>1, <1>2, <2>1, <2>2
<1>3. CASE /\ ~txn
           /\ table' = [table EXCEPT ![stmt.file] = Append(@, e)]
           /\ bare' = bare \union {e}
           /\ UNCHANGED <<pend, txn, rejected, faults>>
  <2>1. pend = <<>>
    BY <1>3 DEF Sane
  <2>2. <<e>> \in Seq(Entry) /\ Range(<<e>>) = {e}
    BY IncOne
  <2>3. Append(table[stmt.file], e) = table[stmt.file] \o <<e>>
    BY <1>1, AppendIsConcat
  <2>4. table' = [table EXCEPT ![stmt.file] = table[stmt.file] \o <<e>>]
    BY <1>3, <2>3
  <2>5. /\ table' \in [Hour -> Seq(Entry)]
        /\ table'[stmt.file] = table[stmt.file] \o <<e>>
        /\ Range(table'[stmt.file]) = Range(table[stmt.file]) \union Range(<<e>>)
        /\ \A h \in Hour : h # stmt.file => table'[h] = table[h]
        /\ Committed' = Committed \union Range(<<e>>)
    BY <2>2, <2>4, TableGrows
  <2> QED
    BY <1>1, <1>3, <2>1, <2>2, <2>3, <2>5
<1>4. CASE /\ UNCHANGED faults \/ Fault
           /\ rejected' = rejected \union {e}
           /\ UNCHANGED <<pend, txn, bare, table>>
  <2>1. Committed' = Committed /\ faults' \in 0..MaxFaults
    BY <1>1, <1>4, FaultTypes DEF Committed
  <2> QED
    BY <1>1, <1>4, <2>1
<1>5. CASE Fault /\ RollBack({e}) /\ UNCHANGED <<bare, table>>
  <2>1. Committed' = Committed /\ faults' \in 0..MaxFaults
    BY <1>5, FaultTypes DEF Committed
  <2>2. pend' = <<>> /\ txn' = FALSE /\ rejected' = rejected \union Range(pend) \union {e}
    BY <1>5 DEF RollBack
  <2>3. pend' \in Seq(Entry) /\ txn' \in BOOLEAN /\ table' \in [Hour -> Seq(Entry)]
    BY <1>1, <1>5, <2>2, EmptySeq
  <2> QED
    BY <1>5, <2>1, <2>2, <2>3
<1> QED
  BY <1>2, <1>3, <1>4, <1>5 DEF Step

\* COMMIT on the writer's own connection: the rows are committed, rolled back,
\* or stay where they are.
LEMMA CommitKinds ==
    ASSUME TypeOK, Sane, stmt.file \in Hour, Commit
    PROVE  /\ pend' \in Seq(Entry) /\ txn' \in BOOLEAN /\ faults' \in 0..MaxFaults
           /\ table' \in [Hour -> Seq(Entry)] /\ stuck' = stuck /\ locked' = locked
           /\ ~txn' => pend' = <<>>
           /\ \/ /\ pend' = <<>> /\ rejected' = rejected
                 /\ table'[stmt.file] = table[stmt.file] \o pend
                 /\ Range(table'[stmt.file]) = Range(table[stmt.file]) \union Range(pend)
                 /\ \A h \in Hour : h # stmt.file => table'[h] = table[h]
                 /\ Committed' = Committed \union Range(pend)
              \/ /\ pend' = <<>> /\ rejected' = rejected \union Range(pend)
                 /\ table' = table /\ Committed' = Committed
              \/ /\ pend' = pend /\ rejected' = rejected
                 /\ table' = table /\ Committed' = Committed
<1>1. /\ pend \in Seq(Entry) /\ txn \in BOOLEAN /\ faults \in 0..MaxFaults
      /\ table \in [Hour -> Seq(Entry)] /\ (~txn => pend = <<>>)
      /\ stuck' = stuck /\ locked' = locked
  BY DEF TypeOK, Sane, Commit
<1>2. CASE /\ table' = [table EXCEPT ![stmt.file] = @ \o pend]
           /\ pend' = <<>> /\ txn' = FALSE
           /\ UNCHANGED <<rejected, faults>>
  <2>1. /\ table' \in [Hour -> Seq(Entry)]
        /\ table'[stmt.file] = table[stmt.file] \o pend
        /\ Range(table'[stmt.file]) = Range(table[stmt.file]) \union Range(pend)
        /\ \A h \in Hour : h # stmt.file => table'[h] = table[h]
        /\ Committed' = Committed \union Range(pend)
    BY <1>1, <1>2, TableGrows
  <2>2. pend' \in Seq(Entry) /\ txn' \in BOOLEAN /\ faults' \in 0..MaxFaults
    BY <1>1, <1>2, EmptySeq
  <2> QED
    BY <1>1, <1>2, <2>1, <2>2
<1>3. CASE Fault /\ RollBack({}) /\ UNCHANGED table
  <2>1. Committed' = Committed /\ faults' \in 0..MaxFaults
    BY <1>3, FaultTypes DEF Committed
  <2>2. pend' = <<>> /\ txn' = FALSE /\ rejected' = rejected \union Range(pend)
    BY <1>3 DEF RollBack
  <2>3. pend' \in Seq(Entry) /\ txn' \in BOOLEAN /\ table' \in [Hour -> Seq(Entry)]
    BY <1>1, <1>3, <2>2, EmptySeq
  <2> QED
    BY <1>1, <1>3, <2>1, <2>2, <2>3
<1>4. CASE (Fault \/ UNCHANGED faults) /\ UNCHANGED <<pend, txn, table, rejected>>
  <2>1. Committed' = Committed /\ faults' \in 0..MaxFaults
    BY <1>1, <1>4, FaultTypes DEF Committed
  <2> QED
    BY <1>1, <1>4, <2>1
<1> QED
  BY <1>2, <1>3, <1>4 DEF Commit

\* Between batches a change of files rolls back what was left open.
LEMMA CloseEffect ==
    ASSUME TypeOK, Sane, CloseOld, txn' = TRUE \/ txn' = StillOpen
    PROVE  /\ pend' \in Seq(Entry) /\ txn' \in BOOLEAN /\ rejected' \subseteq Entry
           /\ ~txn' => pend' = <<>>
           /\ \/ path' = path /\ pend' = pend /\ rejected' = rejected
              \/ pend' = <<>> /\ rejected' = rejected \union Range(pend)
<1>1. /\ pend \in Seq(Entry) /\ txn \in BOOLEAN /\ rejected \subseteq Entry
      /\ Range(pend) \subseteq Entry /\ (~txn => pend = <<>>)
  BY RangeIn DEF TypeOK, Sane
<1>2. CASE path' = path
  BY <1>1, <1>2 DEF CloseOld, StillOpen
<1>3. CASE path' # path
  <2>1. pend' = <<>> /\ rejected' = rejected \union Range(pend)
    BY <1>3 DEF CloseOld
  <2>2. pend' \in Seq(Entry) /\ rejected' \subseteq Entry
    BY <1>1, <2>1, EmptySeq
  <2>3. txn' \in BOOLEAN
    BY DEF StillOpen
  <2> QED
    BY <2>1, <2>2, <2>3
<1> QED
  BY <1>2, <1>3

LEMMA NextTypes == TypeOK /\ Sane /\ FileInv /\ [Next]_vars => TypeOK'
<1> SUFFICES ASSUME TypeOK, Sane, FileInv, [Next]_vars
             PROVE  TypeOK'
  OBVIOUS
<1> USE DbAssumption DEF queueVars, fileVars, mainVars
<1>1. CASE UNCHANGED vars
  BY <1>1 DEF vars, TypeOK
<1>2. ASSUME NEW h \in Hour, AppendEntry(h), UNCHANGED quiet
      PROVE  TypeOK'
  <2>1. /\ pushed' \in Entry /\ pushed' = pushed + 1
        /\ pbuf' \in Seq(Entry) /\ Len(pbuf') <= flush_threshold
        /\ flushS' \in {pbuf', <<>>}
    BY <1>2, PushTypes
  <2>2. pbuf' \in Seq(Entry) /\ Len(pbuf') <= MaxProducerBatch /\ flushS' \in Seq(Entry)
    <3>1. pbuf' \in Seq(Entry) /\ flushS' \in Seq(Entry)
      BY <2>1, EmptySeq
    <3>2. PICK m \in Nat : m = Len(pbuf')
      BY <3>1, LenProperties
    <3>3. m <= MaxProducerBatch
      BY <2>1, <3>2, Threshold
    <3> QED
      BY <3>1, <3>2, <3>3
  <2>3. pushed' \in 0..MaxEntries
    BY <2>1 DEF Entry
  <2>4. hour' \in [Entry -> Hour \union {NoHour}]
    BY <1>2 DEF AppendEntry, TypeOK
  <2>5. inPush' \in BOOLEAN
    BY <1>2 DEF AppendEntry
  <2> QED
    BY <1>2, <2>2, <2>3, <2>4, <2>5 DEF AppendEntry, TypeOK
<1>17. CASE (db_writer_push_stack \/ NoEntry) /\ UNCHANGED quiet
  <2>1. inPush' \in BOOLEAN
    BY <1>17 DEF db_writer_push_stack, NoEntry
  <2>2. UNCHANGED <<queueVars, running, pbuf, flushS, pcW, hour, pushed, fileVars,
                    discarded, mainVars, freed, quiet, faults, aborted>>
    BY <1>17 DEF db_writer_push_stack, NoEntry
  <2> QED
    BY <2>1, <2>2 DEF TypeOK
<1>3. CASE SymbolizerFlush /\ UNCHANGED quiet
  <2>1. flushS \in Seq(Entry) /\ db_writer_flush(flushS)
    BY <1>3 DEF SymbolizerFlush, TypeOK
  <2>2. /\ fifo' \in Seq(Entry) /\ Len(fifo') <= QueueCapacity
        /\ dropped' \subseteq Entry
        /\ got' = got /\ closed' = closed /\ pbuf' = <<>>
    BY <2>1, FlushTypes
  <2> QED
    BY <1>3, <2>2 DEF SymbolizerFlush, TypeOK
<1>4. CASE WriterLoop /\ UNCHANGED quiet
  BY <1>4 DEF WriterLoop, TypeOK
<1>5. CASE WriterPop /\ UNCHANGED quiet
  <2>1. /\ fifo' \in Seq(Entry) /\ Len(fifo') <= QueueCapacity
        /\ got' \in [{"writer", "main"} -> Seq(Entry)]
        /\ closed' = closed /\ dropped' = dropped
    <3>1. CASE Q!TakeNothing("writer")
      BY <3>1 DEF Q!TakeNothing, TypeOK
    <3>2. CASE Q!Take("writer", IF Len(fifo) < BatchSize THEN Len(fifo) ELSE BatchSize)
      <4> DEFINE n == IF Len(fifo) < BatchSize THEN Len(fifo) ELSE BatchSize
      <4>1. n \in 1..Len(fifo)
        BY <3>2 DEF Q!Take
      <4> QED
        BY <3>2, <4>1, TakeTypes
    <3> QED
      BY <1>5, <3>1, <3>2 DEF WriterPop
  <2>2. pcW' \in {"loop", "pop", "handle", "insert", "done"}
    BY <1>5 DEF WriterPop
  <2>3. UNCHANGED <<running, pbuf, flushS, inPush, hour, pushed, fileVars, discarded,
                    mainVars, freed, quiet, faults, aborted>>
    BY <1>5 DEF WriterPop
  <2> QED
    BY <2>1, <2>2, <2>3 DEF TypeOK
<1>6. CASE BatchDiscarded /\ UNCHANGED quiet
  <2>1. 1 \in 1..Len(batch) /\ batch \in Seq(Entry)
    BY <1>6 DEF BatchDiscarded, Sane, TypeOK, batch
  <2>2. hour[batch[1]] \in Hour
    BY <2>1, BatchHour
  <2>3. path' \in Hour /\ db' \in Hour \union {NoHour} /\ faults' \in 0..MaxFaults
    BY <1>6, <2>2, EnsureTypes, FaultTypes DEF BatchDiscarded
  <2>4. Range(batch) \subseteq Entry
    BY <2>1, RangeIn
  <2>5. pend' \in Seq(Entry) /\ txn' \in BOOLEAN /\ rejected' \subseteq Entry
    BY <1>6, CloseEffect DEF BatchDiscarded
  <2> QED
    BY <1>6, <2>3, <2>4, <2>5 DEF BatchDiscarded, Discard, TypeOK
<1>7. CASE BeginBatch /\ UNCHANGED quiet
  <2>1. 1 \in 1..Len(batch)
    BY <1>7 DEF BeginBatch, Sane
  <2>2. hour[batch[1]] \in Hour
    BY <2>1, BatchHour
  <2>3. path' \in Hour /\ db' \in Hour
    BY <1>7, <2>2, EnsureTypes DEF BeginBatch
  <2>4. stmt' \in [file : Hour \union {NoHour}, own : BOOLEAN]
    BY <1>7, <2>3 DEF BeginBatch
  <2>5. i' \in 0..(BatchSize + 1) /\ pcW' = "insert"
    BY <1>7 DEF BeginBatch
  <2>6. pend' \in Seq(Entry) /\ txn' \in BOOLEAN /\ rejected' \subseteq Entry
    BY <1>7, CloseEffect DEF BeginBatch
  <2>7. faults' \in 0..MaxFaults
    BY <1>7, FaultTypes DEF BeginBatch, TypeOK
  <2> QED
    BY <1>7, <2>3, <2>4, <2>5, <2>6, <2>7 DEF BeginBatch, TypeOK
<1>8. CASE InsertRow /\ ~aborted /\ UNCHANGED quiet
  <2>1. i \in 1..Len(batch) /\ Len(batch) <= BatchSize
    BY <1>8 DEF InsertRow, Inserting, Sane
  <2>2. batch[i] \in Entry /\ hour[batch[i]] \in Hour
    BY <2>1, BatchHour
  <2>3. path' \in Hour /\ db' \in Hour
    BY <1>8, <2>2, EnsureTypes DEF InsertRow
  <2>4. stmt' \in [file : Hour \union {NoHour}, own : BOOLEAN]
    BY <1>8 DEF InsertRow, Rotated, TypeOK
  <2>5. i' \in 0..(BatchSize + 1)
    BY <1>8, <2>1 DEF InsertRow, TypeOK
  <2>6. Step(batch[i]) /\ stmt.file \in Hour
    BY <1>8 DEF InsertRow, Inserting, Sane
  <2>7. /\ pend' \in Seq(Entry) /\ txn' \in BOOLEAN /\ faults' \in 0..MaxFaults
        /\ table' \in [Hour -> Seq(Entry)]
    BY <2>2, <2>6, StepEffect
  <2>8. rejected' \subseteq Entry /\ bare' \subseteq Entry
    <3>1. Range(pend) \subseteq Entry /\ rejected \subseteq Entry /\ bare \subseteq Entry
      BY RangeIn DEF TypeOK
    <3>2. /\ rejected' \subseteq rejected \union Range(pend) \union {batch[i]}
          /\ bare' \subseteq bare \union {batch[i]}
      BY <2>2, <2>6, StepEffect
    <3> QED
      BY <2>2, <3>1, <3>2
  <2> QED
    BY <1>8, <2>3, <2>4, <2>5, <2>7, <2>8 DEF InsertRow, TypeOK
<1>9. CASE MidBatchFails /\ ~aborted /\ UNCHANGED quiet
  <2>1. i \in 1..Len(batch) /\ stmt.file \in Hour
    BY <1>9 DEF MidBatchFails, Inserting, Sane
  <2>2. batch[i] \in Entry /\ hour[batch[i]] \in Hour
    BY <2>1, BatchHour
  <2>3. path' \in Hour /\ db' = NoHour /\ faults' \in 0..MaxFaults
    BY <1>9, <2>2, EnsureTypes DEF MidBatchFails
  <2>4. Range(SubSeq(batch, i, Len(batch))) \subseteq Entry
    BY <2>1, RestSplit, RangeIn DEF TypeOK, batch
  <2>5. Range(pend) \subseteq Entry
    BY RangeIn DEF TypeOK
  <2>6. stuck' \subseteq Entry /\ locked' \subseteq Hour /\ discarded' \subseteq Entry
    BY <1>9, <2>1, <2>4, <2>5 DEF MidBatchFails, LeaveUncommitted, Discard, TypeOK
  <2>7. stmt' \in [file : Hour \union {NoHour}, own : BOOLEAN]
    BY <1>9 DEF MidBatchFails, Finalize, NoStmt
  <2>8. /\ i' \in 0..(BatchSize + 1) /\ pend' \in Seq(Entry) /\ txn' \in BOOLEAN
        /\ table' = table /\ rejected' = rejected
    <3>1. pend' = <<>> /\ txn' = FALSE /\ i' = 0 /\ table' = table /\ rejected' = rejected
      BY <1>9 DEF MidBatchFails, Finalize, LeaveUncommitted
    <3>2. i' \in 0..(BatchSize + 1)
      BY <3>1
    <3>3. txn' \in BOOLEAN
      BY <3>1
    <3> QED
      BY <3>1, <3>2, <3>3, EmptySeq
  <2>9. pcW' \in {pcW, "loop"} /\ (aborted' = TRUE \/ aborted' = aborted)
    BY <1>9 DEF MidBatchFails, Discard
  <2> QED
    BY <1>9, <2>3, <2>6, <2>7, <2>8, <2>9 DEF MidBatchFails, TypeOK
<1>10. CASE CommitBatch /\ ~aborted /\ UNCHANGED quiet
  <2>1. stmt.file \in Hour
    BY <1>10 DEF CommitBatch, Inserting, Sane
  <2>2. Range(pend) \subseteq Entry /\ Range(batch) \subseteq Entry
    BY RangeIn DEF TypeOK, batch
  <2>3. freed' \subseteq Entry
    BY <1>10, <2>2 DEF CommitBatch, TypeOK
  <2>4. /\ table' \in [Hour -> Seq(Entry)] /\ pend' \in Seq(Entry) /\ txn' \in BOOLEAN
        /\ stuck' \subseteq Entry /\ locked' \subseteq Hour /\ rejected' \subseteq Entry
        /\ faults' \in 0..MaxFaults
    <3>1. CASE stmt.own
      <4>1. Commit
        BY <1>10, <3>1 DEF CommitBatch
      <4>2. /\ pend' \in Seq(Entry) /\ txn' \in BOOLEAN /\ faults' \in 0..MaxFaults
            /\ table' \in [Hour -> Seq(Entry)] /\ stuck' = stuck /\ locked' = locked
            /\ rejected' \subseteq rejected \union Range(pend)
        BY <2>1, <4>1, CommitKinds
      <4> QED
        BY <2>2, <4>2 DEF TypeOK
    <3>2. CASE ~stmt.own
      <4>1. LeaveUncommitted /\ faults' = faults
        BY <1>10, <3>2 DEF CommitBatch
      <4>2. pend' = <<>> /\ txn' = FALSE /\ table' = table /\ rejected' = rejected
        BY <4>1 DEF LeaveUncommitted
      <4>3. stuck' \subseteq Entry /\ locked' \subseteq Hour
        BY <2>1, <2>2, <4>1 DEF LeaveUncommitted, TypeOK
      <4>4. pend' \in Seq(Entry) /\ txn' \in BOOLEAN
        BY <4>2, EmptySeq
      <4> QED
        BY <4>1, <4>2, <4>3, <4>4 DEF TypeOK
    <3> QED
      BY <3>1, <3>2
  <2>5. stmt' \in [file : Hour \union {NoHour}, own : BOOLEAN] /\ i' \in 0..(BatchSize + 1)
    BY <1>10 DEF CommitBatch, Finalize, NoStmt
  <2> QED
    BY <1>10, <2>3, <2>4, <2>5 DEF CommitBatch, TypeOK
<1>11. CASE db_writer_stop /\ UNCHANGED quiet
  <2>1. running' \in BOOLEAN
    BY <1>11 DEF db_writer_stop
  <2> QED
    BY <1>11, <2>1 DEF db_writer_stop, TypeOK
<1>12. CASE StopReads /\ UNCHANGED quiet
  <2>1. Range(pbuf) \subseteq Entry
    BY RangeIn DEF TypeOK
  <2> QED
    BY <1>12, <2>1 DEF StopReads, TypeOK
<1>13. CASE StopFlush /\ UNCHANGED quiet
  <2>1. flushM \in Seq(Entry) /\ db_writer_flush(flushM)
    BY <1>13 DEF StopFlush, TypeOK
  <2>2. /\ fifo' \in Seq(Entry) /\ Len(fifo') <= QueueCapacity
        /\ dropped' \subseteq Entry
        /\ got' = got /\ closed' = closed /\ pbuf' = <<>>
    BY <2>1, FlushTypes
  <2> QED
    BY <1>13, <2>2 DEF StopFlush, TypeOK
<1>14. CASE StopShutdown /\ UNCHANGED quiet
  BY <1>14 DEF StopShutdown, Q!Close, TypeOK
<1>15. CASE db_writer_wait /\ UNCHANGED quiet
  <2>1. Range(pend) \subseteq Entry
    BY RangeIn DEF TypeOK
  <2>2. txn' \in BOOLEAN /\ pend' \in Seq(Entry) /\ rejected' \subseteq Entry
    BY <1>15, <2>1, EmptySeq DEF db_writer_wait, RollBack, TypeOK
  <2> QED
    BY <1>15, <2>2 DEF db_writer_wait, TypeOK
<1>16. CASE WaitDrain /\ UNCHANGED quiet
  <2>1. /\ fifo' \in Seq(Entry) /\ Len(fifo') <= QueueCapacity
        /\ got' \in [{"writer", "main"} -> Seq(Entry)]
        /\ closed' = closed /\ dropped' = dropped /\ drained' \subseteq Entry
        /\ pcM' \in {pcM, "destroyed"}
    <3>1. CASE Q!TakeNothing("main")
      BY <1>16, <3>1 DEF WaitDrain, Q!Take, Q!TakeNothing, TypeOK
    <3>2. CASE Q!Take("main", 1)
      <4>1. 1 \in 1..Len(fifo)
        BY <3>2 DEF Q!Take
      <4>2. Head(fifo) \in Entry
        BY <4>1, HeadTailProperties DEF TypeOK
      <4>3. drained' \subseteq Entry /\ pcM' \in {pcM, "destroyed"}
        BY <1>16, <3>2, <4>1, <4>2 DEF WaitDrain, Q!TakeNothing, TypeOK
      <4> QED
        BY <3>2, <4>1, <4>3, TakeTypes
    <3> QED
      BY <1>16, <3>1, <3>2 DEF WaitDrain
  <2> QED
    BY <1>16, <2>1 DEF WaitDrain, TypeOK
<1> QED
  BY <1>1, <1>2, <1>3, <1>4, <1>5, <1>6, <1>7, <1>8, <1>9, <1>10, <1>11, <1>12,
     <1>13, <1>14, <1>15, <1>16, <1>17, Steps

----------------------------------------------------------------------------
(* What the steps with a loop or a queue behind them do.                   *)

LEMMA PopEffect ==
    ASSUME TypeOK, WriterPop
    PROVE  \/ /\ pcW' = "handle" /\ fifo # <<>>
              /\ batch' \in Seq(Entry) /\ Len(batch') \in 1..BatchSize
              /\ fifo' \in Seq(Entry)
              /\ Range(fifo) = Range(batch') \union Range(fifo')
              /\ Inc(fifo) => /\ Inc(batch') /\ Inc(fifo')
                              /\ Before(Range(batch'), Range(fifo'))
           \/ /\ pcW' \in {"loop", "done"} /\ (pcW' = "done" => ~running)
              /\ closed /\ batch' = <<>> /\ fifo = <<>> /\ fifo' = <<>>
<1>1. CASE Q!TakeNothing("writer") /\ pcW' = IF running THEN "loop" ELSE "done"
  <2>1. got' = [got EXCEPT !["writer"] = <<>>] /\ got \in [{"writer", "main"} -> Seq(Entry)]
    BY <1>1 DEF Q!TakeNothing, TypeOK
  <2>2. batch' = <<>>
    BY <2>1 DEF batch
  <2> QED
    BY <1>1, <2>2 DEF Q!TakeNothing
<1>2. CASE /\ Q!Take("writer", IF Len(fifo) < BatchSize THEN Len(fifo) ELSE BatchSize)
           /\ pcW' = "handle"
  <2>1. PICK n : n = IF Len(fifo) < BatchSize THEN Len(fifo) ELSE BatchSize
    OBVIOUS
  <2>2. Q!Take("writer", n) /\ n \in 1..Len(fifo)
    BY <1>2, <2>1 DEF Q!Take
  <2>3. fifo \in Seq(Entry) /\ Len(fifo) \in Nat
    BY LenProperties DEF TypeOK
  <2>4. n \in 1..BatchSize /\ n \in 0..Len(fifo)
    BY <2>1, <2>2, <2>3, DbAssumption
  <2>5. /\ fifo' \in Seq(Entry) /\ fifo' = SubSeq(fifo, n + 1, Len(fifo))
        /\ batch' = SubSeq(fifo, 1, n) /\ Len(batch') = n
        /\ Range(fifo) = Range(SubSeq(fifo, 1, n)) \union Range(fifo')
    BY <2>2, TakeTypes DEF batch
  <2>6. batch' \in Seq(Entry)
    BY <2>3, <2>4, <2>5, SplitSeq
  <2>7. Inc(fifo) => Inc(batch') /\ Inc(fifo') /\ Before(Range(batch'), Range(fifo'))
    BY <2>3, <2>4, <2>5, IncSplit
  <2>8. fifo # <<>>
    BY <2>2, EmptySeq
  <2> QED
    BY <1>2, <2>4, <2>5, <2>6, <2>7, <2>8
<1> QED
  BY <1>1, <1>2 DEF WriterPop

LEMMA DrainEffect ==
    ASSUME TypeOK, WaitDrain
    PROVE  /\ batch' = batch
           /\ \/ /\ pcM' = pcM /\ fifo' \in Seq(Entry)
                 /\ drained' = drained \union {Head(fifo)}
                 /\ Range(fifo) = {Head(fifo)} \union Range(fifo')
                 /\ Inc(fifo) => Inc(fifo') /\ Before({Head(fifo)}, Range(fifo'))
              \/ /\ pcM' = "destroyed"
                 /\ fifo = <<>> /\ fifo' = <<>> /\ drained' = drained
<1>1. CASE Q!TakeNothing("main") /\ pcM' = "destroyed" /\ UNCHANGED drained
  <2>1. got' = [got EXCEPT !["main"] = <<>>] /\ got \in [{"writer", "main"} -> Seq(Entry)]
    BY <1>1 DEF Q!TakeNothing, TypeOK
  <2>2. batch' = batch
    BY <2>1 DEF batch
  <2> QED
    BY <1>1, <2>2 DEF Q!TakeNothing
<1>2. CASE Q!Take("main", 1) /\ drained' = drained \union {Head(fifo)} /\ UNCHANGED pcM
  <2>1. 1 \in 1..Len(fifo)
    BY <1>2 DEF Q!Take
  <2>2. fifo \in Seq(Entry) /\ Len(fifo) \in Nat /\ 1 \in 0..Len(fifo)
    BY <2>1, LenProperties DEF TypeOK
  <2>3. /\ fifo' \in Seq(Entry) /\ fifo' = SubSeq(fifo, 1 + 1, Len(fifo))
        /\ got'["writer"] = got["writer"]
        /\ Range(fifo) = Range(SubSeq(fifo, 1, 1)) \union Range(fifo')
    BY <1>2, <2>1, TakeTypes
  <2>4. SubSeq(fifo, 1, 1) \in Seq(Entry) /\ Len(SubSeq(fifo, 1, 1)) = 1
    BY <2>2, SplitSeq
  <2>5. SubSeq(fifo, 1, 1)[1] = fifo[1]
    <3>1. SubSeq(fifo, 1, 1) \o SubSeq(fifo, 1 + 1, Len(fifo)) = fifo
      BY <2>2, SplitSeq
    <3>2. 1 \in 1..(Len(SubSeq(fifo, 1, 1)) + Len(SubSeq(fifo, 1 + 1, Len(fifo))))
      BY <2>3, <2>4, LenProperties
    <3> QED
      BY <2>3, <2>4, <3>1, <3>2, ConcatAt
  <2>6. Range(SubSeq(fifo, 1, 1)) = {fifo[1]}
    <3> DEFINE s == SubSeq(fifo, 1, 1)
    <3>1. s \in Seq(Entry) /\ Len(s) = 1 /\ s[1] = fifo[1]
      BY <2>4, <2>5
    <3> HIDE DEF s
    <3>2. Range(s) = { s[k] : k \in 1..Len(s) }
      BY <3>1, RangeIs
    <3>3. Range(s) = {fifo[1]}
      BY <3>1, <3>2
    <3> QED
      BY <3>3 DEF s
  <2>7. fifo[1] = Head(fifo)
    BY <2>1, <2>2
  <2>8. Inc(fifo) => Inc(fifo') /\ Before({Head(fifo)}, Range(fifo'))
    BY <2>2, <2>3, <2>6, <2>7, IncSplit
  <2> QED
    BY <1>2, <2>3, <2>6, <2>7, <2>8 DEF batch
<1> QED
  BY <1>1, <1>2 DEF WaitDrain

\* One row is inserted, committed on its own, rejected or rolled back.
LEMMA InsertEffect ==
    ASSUME TypeOK, Sane, FileInv, InsertRow, ~aborted
    PROVE  /\ i \in 1..Len(batch) /\ i' = i + 1 /\ stmt.file \in Hour
           /\ batch[i] \in Entry /\ batch[i] \in Range(batch) /\ hour[batch[i]] \in Hour
           /\ path' = hour[batch[i]] /\ db' = path'
           /\ stmt'.file = stmt.file /\ stmt'.own = (stmt.own /\ path' = path)
           /\ Range(SubSeq(batch, i, Len(batch)))
                = {batch[i]} \union Range(SubSeq(batch, i + 1, Len(batch)))
           /\ Step(batch[i])
<1>1. i \in 1..Len(batch) /\ stmt.file \in Hour
  BY DEF InsertRow, Inserting, Sane
<1>2. batch[i] \in Entry /\ hour[batch[i]] \in Hour
  BY <1>1, BatchHour
<1>3. path' = hour[batch[i]] /\ db' = path'
  BY <1>2, EnsureTypes DEF InsertRow
<1>4. batch \in Seq(Entry)
  BY DEF TypeOK, batch
<1>5. /\ Range(SubSeq(batch, i, Len(batch)))
           = {batch[i]} \union Range(SubSeq(batch, i + 1, Len(batch)))
      /\ batch[i] \in Range(batch)
  BY <1>1, <1>4, RestSplit
<1>6. stmt'.file = stmt.file /\ stmt'.own = (stmt.own /\ path' = path)
  BY DEF InsertRow, Rotated, TypeOK
<1>7. i' = i + 1 /\ Step(batch[i])
  BY DEF InsertRow
<1> QED
  BY <1>1, <1>2, <1>3, <1>5, <1>6, <1>7

\* The batch is over: its rows are committed, rolled back, still pending, or
\* stuck.
LEMMA CommitEffect ==
    ASSUME TypeOK, Sane, CommitBatch, ~aborted
    PROVE  /\ stmt.file \in Hour /\ Range(SubSeq(batch, i, Len(batch))) = {}
           /\ ~txn' => pend' = <<>>
           /\ \/ /\ stmt.own /\ pend' = <<>> /\ UNCHANGED <<stuck, rejected>>
                 /\ Committed' = Committed \union Range(pend)
                 /\ table'[stmt.file] = table[stmt.file] \o pend
                 /\ Range(table'[stmt.file]) = Range(table[stmt.file]) \union Range(pend)
                 /\ \A h \in Hour : h # stmt.file => table'[h] = table[h]
              \/ /\ stmt.own /\ pend' = <<>> /\ UNCHANGED <<stuck, table>>
                 /\ Committed' = Committed /\ rejected' = rejected \union Range(pend)
              \/ /\ stmt.own /\ UNCHANGED <<pend, stuck, rejected, table>>
                 /\ Committed' = Committed
              \/ /\ ~stmt.own /\ pend' = <<>> /\ UNCHANGED <<rejected, table>>
                 /\ stuck' = stuck \union Range(pend) /\ Committed' = Committed
<1>1. stmt.file \in Hour /\ i \in Nat /\ i > Len(batch)
  BY LenProperties DEF CommitBatch, Inserting, Sane, TypeOK, batch
<1>2. batch \in Seq(Entry)
  BY DEF TypeOK, batch
<1>3. Range(SubSeq(batch, i, Len(batch))) = {}
  BY <1>1, <1>2, RestEmpty, RangeEmpty
<1>4. CASE stmt.own
  <2>1. Commit
    BY <1>4 DEF CommitBatch
  <2> QED
    BY <1>1, <1>3, <1>4, <2>1, CommitKinds
<1>5. CASE ~stmt.own
  BY <1>1, <1>3, <1>5 DEF CommitBatch, LeaveUncommitted, Committed
<1> QED
  BY <1>4, <1>5

\* A later file cannot be opened: the rows so far are stuck, the rest is lost.
LEMMA MidEffect ==
    ASSUME TypeOK, Sane, FileInv, MidBatchFails, ~aborted
    PROVE  /\ i \in 1..Len(batch) /\ path' \in Hour /\ db' = NoHour
           /\ Range(SubSeq(batch, i, Len(batch))) \subseteq Range(batch)
           /\ discarded' = discarded \union Range(SubSeq(batch, i, Len(batch)))
           /\ stuck' = stuck \union Range(pend)
           /\ table' = table /\ pend' = <<>> /\ rejected' = rejected
           /\ \/ aborted' = TRUE /\ pcW' = pcW
              \/ aborted' = aborted /\ pcW' = "loop"
<1>1. i \in 1..Len(batch)
  BY DEF MidBatchFails, Inserting, Sane
<1>2. batch \in Seq(Entry) /\ hour[batch[i]] \in Hour
  BY <1>1, BatchHour DEF TypeOK, batch
<1>3. path' \in Hour /\ db' = NoHour
  BY <1>2, EnsureTypes DEF MidBatchFails
<1>4. Range(SubSeq(batch, i, Len(batch))) \subseteq Range(batch)
  BY <1>1, <1>2, RestSplit
<1> QED
  BY <1>1, <1>3, <1>4 DEF MidBatchFails, Discard, LeaveUncommitted, Finalize

----------------------------------------------------------------------------
(* The entries are the pushed ones, and the bounds of buffer and batch.    *)

LEMMA InitSane == Init => Sane
<1> SUFFICES ASSUME Init
             PROVE  Sane
  OBVIOUS
<1>1. batch = <<>> /\ \A h \in Hour : table[h] = <<>>
  BY DEF Init, Q!FInit, batch
<1>2. Committed = {}
  BY <1>1, RangeEmpty DEF Committed
<1>3. Seen = {}
  BY <1>1, <1>2, RangeEmpty DEF Init, Q!FInit, Seen
<1>4. Len(pbuf) = 0 /\ flush_threshold \in Nat /\ flush_threshold > 0
  BY Threshold, DbAssumption DEF Init
<1> QED
  BY <1>3, <1>4 DEF Init, Sane, Inserting

LEMMA NextSeen ==
    ASSUME TypeOK, Sane, FileInv, [Next]_vars
    PROVE  Seen' \subseteq 1..pushed'
<1> USE DEF queueVars, fileVars, mainVars
<1>0. Seen \subseteq 1..pushed /\ pushed \in Nat
  BY DbAssumption DEF Sane, TypeOK
<1>1. CASE UNCHANGED vars
  BY <1>0, <1>1 DEF vars, Seen, Committed, batch
<1>2. ASSUME NEW h \in Hour, AppendEntry(h)
      PROVE  Seen' \subseteq 1..pushed'
  <2>1. /\ pushed' = pushed + 1 /\ Range(pbuf') = Range(pbuf) \union {pushed'}
        /\ flushS' \in {pbuf', <<>>}
    BY <1>2, PushTypes
  <2>2. Range(flushS') \subseteq Range(pbuf')
    BY <2>1, RangeEmpty
  <2>3. batch' = batch /\ Committed' = Committed
    BY <1>2 DEF AppendEntry, batch, Committed
  <2>4. Seen' \subseteq Seen \union {pushed'}
    BY <1>2, <2>1, <2>2, <2>3 DEF AppendEntry, Seen
  <2> QED
    BY <1>0, <2>1, <2>4
<1>17. CASE db_writer_push_stack \/ NoEntry
  BY <1>0, <1>17 DEF db_writer_push_stack, NoEntry, Seen, Committed, batch
<1>3. CASE SymbolizerFlush
  <2>1. flushS \in Seq(Entry) /\ db_writer_flush(flushS)
    BY <1>3 DEF SymbolizerFlush, TypeOK
  <2>2. /\ Range(fifo') \subseteq Range(fifo) \union Range(flushS)
        /\ dropped' \subseteq dropped \union Range(flushS)
        /\ got' = got /\ pbuf' = <<>>
    BY <2>1, FlushTypes
  <2>3. Seen' \subseteq Seen /\ pushed' = pushed
    BY <1>3, <2>2, RangeEmpty DEF SymbolizerFlush, Seen, batch, Committed
  <2> QED
    BY <1>0, <2>3
<1>4. CASE WriterLoop
  BY <1>0, <1>4 DEF WriterLoop, Seen, Committed, batch
<1>5. CASE WriterPop
  <2>1. Range(batch') \subseteq Range(fifo) /\ Range(fifo') \subseteq Range(fifo)
    BY <1>5, PopEffect, RangeEmpty
  <2>2. dropped' = dropped
    BY <1>5 DEF WriterPop, Q!Take, Q!TakeNothing
  <2>3. Seen' \subseteq Seen /\ pushed' = pushed
    BY <1>5, <2>1, <2>2 DEF WriterPop, Seen, Committed
  <2> QED
    BY <1>0, <2>3
<1>6. CASE BatchDiscarded
  <2>1. Range(pend') \subseteq Range(pend) /\ rejected' \subseteq rejected \union Range(pend)
    BY <1>6, CloseEffect, RangeEmpty DEF BatchDiscarded
  <2>2. Seen' \subseteq Seen /\ pushed' = pushed
    BY <1>6, <2>1 DEF BatchDiscarded, Discard, Seen, Committed, batch
  <2> QED
    BY <1>0, <2>2
<1>7. CASE BeginBatch
  <2>1. Range(pend') \subseteq Range(pend) /\ rejected' \subseteq rejected \union Range(pend)
    BY <1>7, CloseEffect, RangeEmpty DEF BeginBatch
  <2>2. Seen' \subseteq Seen /\ pushed' = pushed
    BY <1>7, <2>1 DEF BeginBatch, Seen, Committed, batch
  <2> QED
    BY <1>0, <2>2
<1>8. CASE InsertRow /\ ~aborted
  <2>1. batch[i] \in Range(batch) /\ batch[i] \in Entry /\ stmt.file \in Hour /\ Step(batch[i])
    BY <1>8, InsertEffect
  <2>2. /\ Range(pend') \subseteq Range(pend) \union {batch[i]}
        /\ rejected' \subseteq rejected \union Range(pend) \union {batch[i]}
        /\ Committed' \subseteq Committed \union {batch[i]}
    BY <2>1, StepEffect, RangeEmpty
  <2>3. batch' = batch
    BY <1>8 DEF InsertRow, batch
  <2>4. Seen' \subseteq Seen /\ pushed' = pushed
    BY <1>8, <2>1, <2>2, <2>3 DEF InsertRow, Seen
  <2> QED
    BY <1>0, <2>4
<1>9. CASE MidBatchFails /\ ~aborted
  <2>1. /\ discarded' \subseteq discarded \union Range(batch)
        /\ stuck' \subseteq stuck \union Range(pend)
        /\ table' = table /\ pend' = <<>> /\ rejected' = rejected
    BY <1>9, MidEffect
  <2>2. batch' = batch /\ Committed' = Committed
    BY <1>9, <2>1 DEF MidBatchFails, batch, Committed
  <2>3. Seen' \subseteq Seen /\ pushed' = pushed
    BY <1>9, <2>1, <2>2, RangeEmpty DEF MidBatchFails, Seen
  <2> QED
    BY <1>0, <2>3
<1>10. CASE CommitBatch /\ ~aborted
  <2>1. /\ Committed' \subseteq Committed \union Range(pend)
        /\ stuck' \subseteq stuck \union Range(pend)
        /\ rejected' \subseteq rejected \union Range(pend)
        /\ Range(pend') \subseteq Range(pend)
    BY <1>10, CommitEffect, RangeEmpty
  <2>2. batch' = batch
    BY <1>10 DEF CommitBatch, batch
  <2>3. Seen' \subseteq Seen /\ pushed' = pushed
    BY <1>10, <2>1, <2>2 DEF CommitBatch, Seen
  <2> QED
    BY <1>0, <2>3
<1>11. CASE db_writer_stop
  BY <1>0, <1>11 DEF db_writer_stop, Seen, Committed, batch
<1>12. CASE StopReads
  <2>1. Seen' \subseteq Seen /\ pushed' = pushed
    BY <1>12 DEF StopReads, Seen, Committed, batch
  <2> QED
    BY <1>0, <2>1
<1>13. CASE StopFlush
  <2>1. flushM \in Seq(Entry) /\ db_writer_flush(flushM)
    BY <1>13 DEF StopFlush, TypeOK
  <2>2. /\ Range(fifo') \subseteq Range(fifo) \union Range(flushM)
        /\ dropped' \subseteq dropped \union Range(flushM)
        /\ got' = got /\ pbuf' = <<>>
    BY <2>1, FlushTypes
  <2>3. Seen' \subseteq Seen /\ pushed' = pushed
    BY <1>13, <2>2, RangeEmpty DEF StopFlush, Seen, batch, Committed
  <2> QED
    BY <1>0, <2>3
<1>14. CASE StopShutdown
  BY <1>0, <1>14 DEF StopShutdown, Q!Close, Seen, Committed, batch
<1>15. CASE db_writer_wait
  <2>1. Seen' \subseteq Seen /\ pushed' = pushed
    BY <1>15, RangeEmpty DEF db_writer_wait, RollBack, Seen, Committed, batch
  <2> QED
    BY <1>0, <2>1
<1>16. CASE WaitDrain
  <2>1. /\ batch' = batch /\ Range(fifo') \subseteq Range(fifo)
        /\ drained' \subseteq drained \union Range(fifo)
    BY <1>16, DrainEffect
  <2>2. dropped' = dropped
    BY <1>16 DEF WaitDrain, Q!Take, Q!TakeNothing
  <2>3. Seen' \subseteq Seen /\ pushed' = pushed
    BY <1>16, <2>1, <2>2 DEF WaitDrain, Seen, Committed
  <2> QED
    BY <1>0, <2>3
<1> QED
  BY <1>1, <1>2, <1>3, <1>4, <1>5, <1>6, <1>7, <1>8, <1>9, <1>10, <1>11, <1>12,
     <1>13, <1>14, <1>15, <1>16, <1>17, Steps

LEMMA NextSane == TypeOK /\ Sane /\ FileInv /\ [Next]_vars => Sane'
<1> SUFFICES ASSUME TypeOK, Sane, FileInv, [Next]_vars
             PROVE  Sane'
  OBVIOUS
<1> USE DEF queueVars, fileVars, mainVars, Inserting
<1>0. Seen' \subseteq 1..pushed'
  BY NextSeen
<1>1. CASE UNCHANGED vars
  BY <1>0, <1>1 DEF vars, Sane, batch
<1>2. ASSUME NEW h \in Hour, AppendEntry(h)
      PROVE  Sane'
  <2>1. /\ pushed' = pushed + 1 /\ Len(pbuf') <= flush_threshold
        /\ flushS' = <<>> => Len(pbuf') < flush_threshold
        /\ pushed' \in Entry
    BY <1>2, PushTypes
  <2>2. hour' = [hour EXCEPT ![pushed + 1] = h] /\ hour \in [Entry -> Hour \union {NoHour}]
    BY <1>2 DEF AppendEntry, TypeOK
  <2>3. \A e \in 1..pushed : hour[e] \in Hour
    BY DEF Sane
  <2>4. \A e \in 1..pushed' : hour'[e] \in Hour
    <3> TAKE e \in 1..pushed'
    <3>1. e \in Entry /\ (e = pushed + 1 \/ e \in 1..pushed)
      BY <2>1, DbAssumption DEF Entry, TypeOK
    <3> QED
      BY <2>1, <2>2, <2>3, <3>1
  <2>5. batch' = batch
    BY <1>2 DEF AppendEntry, batch
  <2> QED
    BY <1>0, <1>2, <2>1, <2>4, <2>5 DEF AppendEntry, Sane
<1>17. CASE db_writer_push_stack \/ NoEntry
  BY <1>0, <1>17 DEF db_writer_push_stack, NoEntry, Sane, batch
<1>3. CASE SymbolizerFlush
  <2>1. flushS \in Seq(Entry) /\ db_writer_flush(flushS) /\ ~inPush
    BY <1>3 DEF SymbolizerFlush, TypeOK, Sane
  <2>2. got' = got /\ pbuf' = <<>>
    BY <2>1, FlushTypes
  <2>3. Len(pbuf') < flush_threshold /\ Len(pbuf') <= flush_threshold
    BY <2>2, Threshold, DbAssumption
  <2>4. batch' = batch
    BY <2>2 DEF batch
  <2> QED
    BY <1>0, <1>3, <2>3, <2>4 DEF SymbolizerFlush, Sane
<1>4. CASE WriterLoop
  BY <1>0, <1>4 DEF WriterLoop, Sane, batch
<1>5. CASE WriterPop
  <2>1. /\ pcW' \in {"handle", "loop", "done"}
        /\ pcW' = "handle" => Len(batch') \in 1..BatchSize
    BY <1>5, PopEffect
  <2> QED
    BY <1>0, <1>5, <2>1 DEF WriterPop, Sane
<1>6. CASE BatchDiscarded
  <2>1. batch' = batch /\ pcW' \in {"handle", "loop"} /\ pcW = "handle"
    BY <1>6 DEF BatchDiscarded, Discard, batch
  <2>2. ~txn' => pend' = <<>>
    BY <1>6, CloseEffect DEF BatchDiscarded
  <2> QED
    BY <1>0, <1>6, <2>1, <2>2 DEF BatchDiscarded, Sane
<1>7. CASE BeginBatch
  <2>1. batch' = batch /\ Len(batch) \in 1..BatchSize
    BY <1>7 DEF BeginBatch, batch, Sane
  <2>2. 1 \in 1..Len(batch)
    BY <2>1
  <2>3. db' \in Hour
    BY <1>7, <2>2, BatchHour, EnsureTypes DEF BeginBatch
  <2>4. stmt'.file \in Hour /\ i' \in 1..(Len(batch') + 1) /\ pcW' = "insert" /\ aborted' = aborted
    BY <1>7, <2>1, <2>3, DbAssumption DEF BeginBatch
  <2>5. ~txn' => pend' = <<>>
    BY <1>7, CloseEffect DEF BeginBatch
  <2> QED
    BY <1>0, <1>7, <2>1, <2>4, <2>5 DEF BeginBatch, Sane
<1>8. CASE InsertRow /\ ~aborted
  <2>1. /\ i \in 1..Len(batch) /\ i' = i + 1 /\ stmt'.file = stmt.file
        /\ batch[i] \in Entry /\ Step(batch[i])
    BY <1>8, InsertEffect
  <2>2. batch' = batch /\ pcW' = "insert" /\ pcW = "insert" /\ ~aborted'
    BY <1>8 DEF InsertRow, batch
  <2>3. Len(batch) \in 1..BatchSize /\ stmt.file \in Hour
    BY <1>8, <2>2 DEF Sane
  <2>4. i' \in 1..(Len(batch') + 1)
    BY <2>1, <2>2, <2>3, DbAssumption
  <2>5. ~txn' => pend' = <<>>
    BY <2>1, <2>3, StepEffect DEF Sane
  <2> QED
    BY <1>0, <1>8, <2>1, <2>2, <2>3, <2>4, <2>5 DEF InsertRow, Sane
<1>9. CASE MidBatchFails /\ ~aborted
  <2>1. /\ batch' = batch /\ pend' = <<>> /\ pcW = "insert"
        /\ \/ aborted' = TRUE /\ pcW' = pcW
           \/ aborted' = aborted /\ pcW' = "loop"
    BY <1>9, MidEffect DEF MidBatchFails, batch
  <2> QED
    BY <1>0, <1>9, <2>1 DEF MidBatchFails, Sane
<1>10. CASE CommitBatch /\ ~aborted
  <2>1. (~txn' => pend' = <<>>) /\ pcW' = "loop"
    BY <1>10, CommitEffect DEF CommitBatch
  <2> QED
    BY <1>0, <1>10, <2>1 DEF CommitBatch, Sane
<1>11. CASE db_writer_stop
  BY <1>0, <1>11 DEF db_writer_stop, Sane, batch
<1>12. CASE StopReads
  BY <1>0, <1>12 DEF StopReads, Sane, batch
<1>13. CASE StopFlush
  <2>1. flushM \in Seq(Entry) /\ db_writer_flush(flushM)
    BY <1>13 DEF StopFlush, TypeOK
  <2>2. got' = got /\ pbuf' = <<>>
    BY <2>1, FlushTypes
  <2>3. Len(pbuf') < flush_threshold /\ Len(pbuf') <= flush_threshold
    BY <2>2, Threshold, DbAssumption
  <2>4. batch' = batch
    BY <2>2 DEF batch
  <2> QED
    BY <1>0, <1>13, <2>3, <2>4 DEF StopFlush, Sane
<1>14. CASE StopShutdown
  BY <1>0, <1>14 DEF StopShutdown, Q!Close, Sane, batch
<1>15. CASE db_writer_wait
  BY <1>0, <1>15 DEF db_writer_wait, RollBack, Sane, batch
<1>16. CASE WaitDrain
  <2>1. batch' = batch
    BY <1>16, DrainEffect
  <2> QED
    BY <1>0, <1>16, <2>1 DEF WaitDrain, Sane
<1> QED
  BY <1>1, <1>2, <1>3, <1>4, <1>5, <1>6, <1>7, <1>8, <1>9, <1>10, <1>11, <1>12,
     <1>13, <1>14, <1>15, <1>16, <1>17, Steps

----------------------------------------------------------------------------
(* A row is in the file of its own hour.                                   *)

LEMMA InitFile == Init => FileInv
<1> SUFFICES ASSUME Init
             PROVE  FileInv
  OBVIOUS
<1>1. \A h \in Hour : Range(table[h]) = {}
  BY RangeEmpty DEF Init
<1> QED
  BY <1>1, RangeEmpty DEF Init, FileInv

\* The steps that touch neither files nor hours.
LEMMA SameFiles ==
    ASSUME FileInv, UNCHANGED <<fileVars, hour>>,
           pcW' = "insert" <=> pcW = "insert"
    PROVE  FileInv'
  BY DEF FileInv, fileVars

LEMMA NextFile == TypeOK /\ Sane /\ FileInv /\ [Next]_vars => FileInv'
<1> SUFFICES ASSUME TypeOK, Sane, FileInv, [Next]_vars
             PROVE  FileInv'
  OBVIOUS
<1> USE DEF queueVars, mainVars
<1>0. /\ db \in {path, NoHour}
      /\ \A h \in Hour : \A e \in Range(table[h]) \ bare : hour[e] = h
  BY DEF FileInv
<1>1. CASE UNCHANGED vars
  BY <1>1, SameFiles DEF vars
<1>2. ASSUME NEW h \in Hour, AppendEntry(h)
      PROVE  FileInv'
  <2>1. hour' = [hour EXCEPT ![pushed + 1] = h] /\ hour \in [Entry -> Hour \union {NoHour}]
    BY <1>2 DEF AppendEntry, TypeOK
  <2>2. \A e \in 1..pushed : e # pushed + 1 /\ e \in Entry
    BY DbAssumption DEF TypeOK, Entry
  <2>3. \A e \in 1..pushed : hour'[e] = hour[e]
    BY <2>1, <2>2
  <2>4. Range(pend) \subseteq 1..pushed /\ Committed \subseteq 1..pushed
    BY DEF Sane, Seen
  <2>5. \A g \in Hour : \A e \in Range(table[g]) \ bare : hour'[e] = g
    BY <1>0, <2>3, <2>4 DEF Committed
  <2>6. \A e \in Range(pend) : hour'[e] = hour[e]
    BY <2>3, <2>4
  <2>7. UNCHANGED fileVars /\ UNCHANGED <<pcW, aborted>>
    BY <1>2 DEF AppendEntry
  <2> QED
    BY <2>5, <2>6, <2>7 DEF FileInv, fileVars
<1>17. CASE db_writer_push_stack \/ NoEntry
  BY <1>17, SameFiles DEF db_writer_push_stack, NoEntry
<1>3. CASE SymbolizerFlush
  BY <1>3, SameFiles DEF SymbolizerFlush
<1>4. CASE WriterLoop
  BY <1>4, SameFiles DEF WriterLoop
<1>5. CASE WriterPop
  <2>1. pcW' \in {"handle", "loop", "done"} /\ pcW = "pop"
    BY <1>5, PopEffect DEF WriterPop
  <2> QED
    BY <1>5, <2>1, SameFiles DEF WriterPop
<1>6. CASE BatchDiscarded
  <2>1. 1 \in 1..Len(batch)
    BY <1>6 DEF BatchDiscarded, Sane
  <2>2. hour[batch[1]] \in Hour
    BY <2>1, BatchHour
  <2>3. db' \in {path', NoHour}
    BY <1>6, <2>2, EnsureTypes DEF BatchDiscarded
  <2>4. pcW = "handle" /\ pcW' # "insert" /\ UNCHANGED <<table, bare, hour>>
    BY <1>6 DEF BatchDiscarded, Discard
  <2>5. \A e \in Range(pend') : hour[e] = path'
    BY <1>6, <2>4, CloseEffect, RangeEmpty DEF BatchDiscarded, FileInv
  <2> QED
    BY <1>0, <2>3, <2>4, <2>5 DEF FileInv
<1>7. CASE BeginBatch
  <2>1. 1 \in 1..Len(batch)
    BY <1>7 DEF BeginBatch, Sane
  <2>2. hour[batch[1]] \in Hour
    BY <2>1, BatchHour
  <2>3. path' = db'
    BY <1>7, <2>2, EnsureTypes DEF BeginBatch
  <2>4. stmt'.file = db' /\ pcW = "handle" /\ UNCHANGED <<table, bare, hour>>
    BY <1>7 DEF BeginBatch
  <2>5. \A e \in Range(pend') : hour[e] = path'
    BY <1>7, <2>4, CloseEffect, RangeEmpty DEF BeginBatch, FileInv
  <2> QED
    BY <1>0, <2>3, <2>4, <2>5 DEF FileInv
<1>8. CASE InsertRow /\ ~aborted
  <2>1. /\ path' = hour[batch[i]] /\ db' = path' /\ stmt.file \in Hour
        /\ stmt'.file = stmt.file /\ stmt'.own = (stmt.own /\ path' = path)
        /\ batch[i] \in Entry /\ Step(batch[i])
    BY <1>8, InsertEffect
  <2>2. pcW = "insert" /\ pcW' = "insert" /\ hour' = hour
    BY <1>8 DEF InsertRow
  <2>3. stmt.own => stmt.file = path /\ \A e \in Range(pend) : hour[e] = path
    BY <2>2 DEF FileInv
  <2>4. Range(pend') \subseteq Range(pend) \union {batch[i]}
    BY <2>1, StepEffect, RangeEmpty
  <2>5. stmt'.own => stmt'.file = path' /\ \A e \in Range(pend') : hour'[e] = path'
    BY <2>1, <2>2, <2>3, <2>4
  <2>6. \A h \in Hour : \A e \in Range(table'[h]) \ bare' : hour[e] = h
    <3>1. CASE UNCHANGED <<table, bare>>
      BY <1>0, <3>1
    <3>2. CASE /\ bare' = bare \union {batch[i]}
               /\ Range(table'[stmt.file]) = Range(table[stmt.file]) \union {batch[i]}
               /\ \A h \in Hour : h # stmt.file => table'[h] = table[h]
      BY <1>0, <3>2
    <3> QED
      BY <2>1, <3>1, <3>2, StepEffect
  <2> QED
    BY <2>1, <2>2, <2>5, <2>6 DEF FileInv
<1>9. CASE MidBatchFails /\ ~aborted
  <2>1. db' = NoHour /\ Range(pend') = {} /\ UNCHANGED <<table, bare, hour>>
    BY <1>9, MidEffect, RangeEmpty DEF MidBatchFails
  <2>2. ~stmt'.own
    BY <1>9 DEF MidBatchFails, Finalize, NoStmt
  <2> QED
    BY <1>0, <2>1, <2>2 DEF FileInv
<1>10. CASE CommitBatch /\ ~aborted
  <2>1. pcW = "insert" /\ pcW' = "loop" /\ UNCHANGED <<hour, path, db, bare>>
    BY <1>10 DEF CommitBatch
  <2>2. stmt.own => stmt.file = path /\ \A e \in Range(pend) : hour[e] = path
    BY <2>1 DEF FileInv
  <2>3. \A h \in Hour : \A e \in Range(table'[h]) \ bare : hour[e] = h
    BY <1>0, <1>10, <2>2, CommitEffect
  <2>4. \A e \in Range(pend') : hour[e] = path
    BY <1>10, <2>2, CommitEffect, RangeEmpty
  <2> QED
    BY <1>0, <2>1, <2>3, <2>4 DEF FileInv
<1>11. CASE db_writer_stop
  BY <1>11, SameFiles DEF db_writer_stop
<1>12. CASE StopReads
  BY <1>12, SameFiles DEF StopReads
<1>13. CASE StopFlush
  BY <1>13, SameFiles DEF StopFlush
<1>14. CASE StopShutdown
  BY <1>14, SameFiles DEF StopShutdown
<1>15. CASE db_writer_wait
  BY <1>0, <1>15, RangeEmpty DEF db_writer_wait, RollBack, FileInv
<1>16. CASE WaitDrain
  BY <1>16, SameFiles DEF WaitDrain
<1> QED
  BY <1>1, <1>2, <1>3, <1>4, <1>5, <1>6, <1>7, <1>8, <1>9, <1>10, <1>11, <1>12,
     <1>13, <1>14, <1>15, <1>16, <1>17, Steps

----------------------------------------------------------------------------
(* Stopping.                                                               *)

LEMMA InitStop == Init => StopInv
  BY RangeEmpty DEF Init, Q!FInit, StopInv

LEMMA NextStop == TypeOK /\ Sane /\ FileInv /\ StopInv /\ [Next]_vars => StopInv'
<1> SUFFICES ASSUME TypeOK, Sane, FileInv, StopInv, [Next]_vars
             PROVE  StopInv'
  OBVIOUS
<1> USE DEF queueVars, fileVars, mainVars
<1>1. CASE UNCHANGED vars
  BY <1>1 DEF vars, StopInv
<1>2. ASSUME NEW h \in Hour, AppendEntry(h), UNCHANGED quiet
      PROVE  StopInv'
  <2>1. flushS' \in {pbuf', <<>>}
    BY <1>2, PushTypes
  <2>2. quiet => pcM = "run"
    BY <1>2 DEF AppendEntry, StopInv
  <2> QED
    BY <1>2, <2>1, <2>2 DEF AppendEntry, StopInv
<1>17. CASE (db_writer_push_stack \/ NoEntry) /\ UNCHANGED quiet
  BY <1>17 DEF db_writer_push_stack, NoEntry, StopInv
<1>3. CASE SymbolizerFlush /\ UNCHANGED quiet
  <2>1. flushS \in Seq(Entry) /\ db_writer_flush(flushS) /\ flushS # <<>>
    BY <1>3 DEF SymbolizerFlush, TypeOK
  <2>2. quiet => pcM = "run" /\ ~closed /\ running /\ pcW # "done"
    BY <2>1 DEF StopInv
  <2>3. closed' = closed /\ (~closed => dropped' = dropped)
    BY <2>1, FlushTypes
  <2> QED
    BY <1>3, <2>2, <2>3 DEF SymbolizerFlush, StopInv
<1>4. CASE WriterLoop /\ UNCHANGED quiet
  <2>1. pcW' = IF running \/ fifo # <<>> THEN "pop" ELSE "done"
    BY <1>4 DEF WriterLoop
  <2>2. pcW' = "done" => ~running /\ Range(fifo) = {}
    BY <2>1, RangeEmpty
  <2>3. pcM \notin {"drain", "destroyed"}
    BY <1>4 DEF WriterLoop, StopInv
  <2> QED
    BY <1>4, <2>2, <2>3 DEF WriterLoop, StopInv
<1>5. CASE WriterPop /\ UNCHANGED quiet
  <2>1. pcW' = "done" => ~running /\ Range(fifo') = {}
    BY <1>5, PopEffect, RangeEmpty
  <2>2. pcM \notin {"drain", "destroyed"} /\ pcW # "done"
    BY <1>5 DEF WriterPop, StopInv
  <2>3. dropped' = dropped /\ closed' = closed
    BY <1>5 DEF WriterPop, Q!Take, Q!TakeNothing
  <2> QED
    BY <1>5, <2>1, <2>2, <2>3 DEF WriterPop, StopInv
<1>6. CASE BatchDiscarded /\ UNCHANGED quiet
  <2>1. pcW = "handle" /\ pcW' \in {"handle", "loop"}
    BY <1>6 DEF BatchDiscarded, Discard
  <2> QED
    BY <1>6, <2>1 DEF BatchDiscarded, StopInv
<1>7. CASE BeginBatch /\ UNCHANGED quiet
  BY <1>7 DEF BeginBatch, StopInv
<1>8. CASE InsertRow /\ UNCHANGED quiet
  BY <1>8 DEF InsertRow, StopInv
<1>9. CASE MidBatchFails /\ UNCHANGED quiet
  <2>1. pcW = "insert" /\ pcW' \in {"insert", "loop"}
    BY <1>9 DEF MidBatchFails, Discard
  <2> QED
    BY <1>9, <2>1 DEF MidBatchFails, StopInv
<1>10. CASE CommitBatch /\ UNCHANGED quiet
  BY <1>10 DEF CommitBatch, StopInv
<1>11. CASE db_writer_stop /\ UNCHANGED quiet
  BY <1>11 DEF db_writer_stop, StopInv
<1>12. CASE StopReads /\ UNCHANGED quiet
  <2>1. pcM = "stop" /\ lastFlush = {} /\ ~closed
    BY <1>12 DEF StopReads, StopInv
  <2> QED
    BY <1>12, <2>1 DEF StopReads, StopInv
<1>13. CASE StopFlush /\ UNCHANGED quiet
  <2>1. flushM \in Seq(Entry) /\ db_writer_flush(flushM) /\ pcM = "flush" /\ ~closed
    BY <1>13 DEF StopFlush, TypeOK, StopInv
  <2>2. /\ closed' = closed /\ dropped' = dropped
        /\ Range(fifo') = Range(fifo) \union Range(flushM)
    BY <2>1, FlushTypes
  <2>3. quiet => Range(flushM) = lastFlush
    BY <2>1 DEF StopInv
  <2>4. flushS' = flushS /\ pcM' = "shutdown" /\ lastFlush' = lastFlush
    BY <1>13 DEF StopFlush
  <2>5. quiet => flushS = <<>> /\ ~inPush
    BY <2>1 DEF StopInv
  <2> QED
    BY <1>13, <2>1, <2>2, <2>3, <2>4, <2>5 DEF StopFlush, StopInv
<1>14. CASE StopShutdown /\ UNCHANGED quiet
  BY <1>14 DEF StopShutdown, Q!Close, StopInv
<1>15. CASE db_writer_wait /\ UNCHANGED quiet
  BY <1>15 DEF db_writer_wait, StopInv
<1>16. CASE WaitDrain /\ UNCHANGED quiet
  <2>1. /\ pcM' \in {pcM, "destroyed"} /\ Range(fifo') \subseteq Range(fifo)
        /\ drained' \subseteq drained \union Range(fifo)
    BY <1>16, DrainEffect
  <2>2. dropped' = dropped /\ closed' = closed
    BY <1>16 DEF WaitDrain, Q!Take, Q!TakeNothing
  <2>3. pcM = "drain"
    BY <1>16 DEF WaitDrain
  <2> QED
    BY <1>16, <2>1, <2>2, <2>3 DEF WaitDrain, StopInv
<1> QED
  BY <1>1, <1>2, <1>3, <1>4, <1>5, <1>6, <1>7, <1>8, <1>9, <1>10, <1>11, <1>12,
     <1>13, <1>14, <1>15, <1>16, <1>17, Steps

----------------------------------------------------------------------------
(* The order of the entries.                                               *)

LEMMA InitOrder == Init => OrderInv
<1> SUFFICES ASSUME Init
             PROVE  OrderInv
  OBVIOUS
<1>1. /\ fifo = <<>> /\ pbuf = <<>> /\ pend = <<>> /\ pcW = "loop"
      /\ \A h \in Hour : table[h] = <<>>
  BY DEF Init, Q!FInit
<1>2. Waiting = {} /\ Left = {} /\ Range(pend) = {} /\ Range(fifo) = {}
  BY <1>1, RangeEmpty DEF Waiting, Left, Inserting
<1>3. Lined
  BY <1>1, <1>2, IncEmpty DEF Lined, Before
<1> QED
  BY <1>1, <1>3, IncEmpty DEF OrderInv

\* Where nothing of the batch is left to insert.
LEMMA NoneLeft ==
    ASSUME pcW \notin {"handle", "insert"}
    PROVE  Left = {}
  BY DEF Left, Inserting

\* The steps after which everything is where it was.
LEMMA SameOrder ==
    ASSUME Lined,
           UNCHANGED <<fifo, pbuf, pend, table, stuck, rejected, discarded,
                       drained, freed>>,
           batch' = batch, Left' = Left,
           pcW' \in {"handle", "insert"} => pcW \in {"handle", "insert"}
    PROVE  Lined'
  BY DEF Lined, Inc, Before, Waiting, Done, Committed

LEMMA PushOrder ==
    ASSUME TypeOK, Sane, Lined, NEW h \in Hour, AppendEntry(h)
    PROVE  Lined'
<1> USE DEF queueVars, fileVars, mainVars
<1>1. /\ pushed' \in Entry /\ pushed' = pushed + 1
      /\ Range(pbuf') = Range(pbuf) \union {pushed'}
  BY PushTypes
<1>2. /\ UNCHANGED <<fifo, pend, table, stuck, rejected, discarded, drained,
                     freed, pcW, i, aborted, got>>
      /\ pbuf' = Append(pbuf, pushed')
  BY <1>1 DEF AppendEntry
<1>3. Left' = Left /\ Done' = Done /\ Committed' = Committed /\ batch' = batch
  BY <1>2 DEF Left, Inserting, Done, Committed, batch
<1>4. Waiting' = Waiting \union {pushed'}
  BY <1>1, <1>2 DEF Waiting
<1>5. \A x \in Seen : x < pushed'
  BY <1>1 DEF Sane, TypeOK
<1>6. /\ Range(pbuf) \subseteq Seen /\ Range(fifo) \subseteq Seen
      /\ Range(batch) \subseteq Seen /\ Range(pend) \subseteq Seen /\ Done \subseteq Seen
  BY DEF Seen, Done
<1>7. Inc(pbuf')
  <2>1. pbuf \in Seq(Entry) /\ Inc(pbuf) /\ Before(Range(pbuf), {pushed'})
    BY <1>5, <1>6 DEF TypeOK, Lined, Before
  <2> QED
    BY <1>1, <1>2, <2>1, IncAppend
<1>8. Before(Range(fifo'), Range(pbuf'))
  BY <1>1, <1>2, <1>5, <1>6 DEF Lined, Before
<1>9. pcW' \in {"handle", "insert"} => Inc(batch') /\ Before(Range(batch'), Waiting')
  BY <1>2, <1>3, <1>4, <1>5, <1>6 DEF Lined, Before
<1>10. Before(Range(pend'), Left' \union Waiting') /\ Before(Done', Left' \union Waiting')
  BY <1>2, <1>3, <1>4, <1>5, <1>6 DEF Lined, Before
<1> QED
  BY <1>2, <1>3, <1>7, <1>8, <1>9, <1>10 DEF Lined

\* A flush of the whole buffer into an open queue.
LEMMA FlushOrder ==
    ASSUME TypeOK, Lined, db_writer_flush(pbuf), ~closed,
           UNCHANGED <<fileVars, pcW, discarded, drained, freed, aborted>>
    PROVE  Lined' /\ Waiting' = Waiting /\ Left' = Left /\ Done' = Done
<1>1. fifo \in Seq(Entry) /\ pbuf \in Seq(Entry)
  BY DEF TypeOK
<1>2. /\ got' = got /\ pbuf' = <<>> /\ fifo' = fifo \o pbuf
      /\ Range(fifo') = Range(fifo) \union Range(pbuf)
  BY <1>1, FlushTypes
<1>3. Waiting' = Waiting /\ Range(pbuf') = {}
  BY <1>2, RangeEmpty DEF Waiting
<1>4. Left' = Left /\ Done' = Done /\ Committed' = Committed /\ batch' = batch
  BY <1>2 DEF Left, Inserting, Done, Committed, batch, fileVars
<1>5. Inc(fifo') /\ Inc(pbuf')
  BY <1>1, <1>2, IncConcat, IncEmpty DEF Lined
<1>6. Before(Range(fifo'), Range(pbuf'))
  BY <1>3 DEF Before
<1>7. Lined'
  BY <1>3, <1>4, <1>5, <1>6 DEF Lined, fileVars
<1> QED
  BY <1>3, <1>4, <1>7

LEMMA PopOrder ==
    ASSUME TypeOK, Sane, Lined, WriterPop, ~aborted
    PROVE  Lined'
<1> USE DEF fileVars, mainVars
<1>1. Left = {}
  BY NoneLeft DEF WriterPop
<1>2. UNCHANGED <<pbuf, pend, table, stuck, rejected, discarded, drained, freed, aborted>>
  BY DEF WriterPop
<1>3. Done' = Done /\ Committed' = Committed
  BY <1>2 DEF Done, Committed
<1>4. CASE /\ pcW' = "handle"
           /\ Range(fifo) = Range(batch') \union Range(fifo')
           /\ Inc(fifo) => /\ Inc(batch') /\ Inc(fifo')
                           /\ Before(Range(batch'), Range(fifo'))
  <2>1. Left' = Range(batch')
    BY <1>2, <1>4 DEF Left
  <2>2. Inc(batch') /\ Inc(fifo') /\ Before(Range(batch'), Range(fifo'))
    BY <1>4 DEF Lined
  <2>3. Waiting' = Range(fifo') \union Range(pbuf) /\ Left' \union Waiting' = Waiting
    BY <1>2, <1>4, <2>1 DEF Waiting
  <2>4. Before(Range(fifo'), Range(pbuf')) /\ Before(Range(batch'), Waiting')
    BY <1>2, <1>4, <2>2, <2>3 DEF Lined, Before
  <2>5. Before(Done', Left' \union Waiting')
    BY <1>3, <2>3 DEF Lined, Before
  <2>6. Before(Range(pend'), Left' \union Waiting') /\ Before(Committed', Range(pend'))
    BY <1>2, <1>3, <2>3 DEF Lined, Before
  <2> QED
    BY <1>2, <2>2, <2>4, <2>5, <2>6 DEF Lined
<1>5. CASE pcW' \in {"loop", "done"} /\ fifo = <<>> /\ fifo' = <<>>
  <2>1. Left' = {}
    BY <1>5 DEF Left, Inserting
  <2>2. Waiting' = Waiting
    BY <1>2, <1>5 DEF Waiting
  <2> QED
    BY <1>1, <1>2, <1>3, <1>5, <2>1, <2>2 DEF Lined
<1> QED
  BY <1>4, <1>5, PopEffect

LEMMA DiscardOrder ==
    ASSUME TypeOK, Sane, Lined, BatchDiscarded, ~aborted, ~aborted'
    PROVE  Lined'
<1> USE DEF queueVars, mainVars
<1>1. /\ UNCHANGED <<fifo, pbuf, table, stuck, drained, freed, got>>
      /\ discarded' = discarded \union Range(batch)
      /\ pcW = "handle" /\ pcW' = "loop"
  BY DEF BatchDiscarded, Discard
<1>2. pend' \in {pend, <<>>} /\ rejected' \subseteq rejected \union Range(pend)
  BY CloseEffect DEF BatchDiscarded
<1>3. Left' = {} /\ Waiting' = Waiting /\ Committed' = Committed
  BY <1>1 DEF Left, Inserting, Waiting, Committed
<1>4. Done' \subseteq Done \union Range(batch) \union Range(pend)
  BY <1>1, <1>2, <1>3 DEF Done
<1>5. Before(Done', Left' \union Waiting')
  BY <1>1, <1>3, <1>4 DEF Lined, Before
<1>6. Inc(pend') /\ Range(pend') \subseteq Range(pend)
  BY <1>2, RangeEmpty, IncEmpty DEF Lined
<1>7. Before(Range(pend'), Left' \union Waiting') /\ Before(Committed', Range(pend'))
  BY <1>3, <1>6 DEF Lined, Before
<1> QED
  BY <1>1, <1>3, <1>5, <1>6, <1>7 DEF Lined

LEMMA BeginOrder ==
    ASSUME TypeOK, Sane, Lined, BeginBatch, ~aborted
    PROVE  Lined' /\ Left' = Left
<1> USE DEF queueVars, mainVars
<1>1. /\ UNCHANGED <<fifo, pbuf, table, stuck, discarded, drained, freed, got, aborted>>
      /\ pcW = "handle" /\ pcW' = "insert" /\ i' = 1
  BY DEF BeginBatch
<1>2. pend' \in {pend, <<>>} /\ rejected' \subseteq rejected \union Range(pend)
  BY CloseEffect DEF BeginBatch
<1>3. batch \in Seq(Entry) /\ batch' = batch
  BY <1>1 DEF TypeOK, batch
<1>4. Left = Range(batch) /\ Left' = Range(SubSeq(batch, 1, Len(batch)))
  BY <1>1, <1>3 DEF Left, Inserting
<1>5. Left' = Left /\ Waiting' = Waiting /\ Committed' = Committed
  <2>1. Left' = Left
    BY <1>3, <1>4, SubSeqFull
  <2> QED
    BY <1>1, <2>1 DEF Waiting, Committed
<1>6. Done' \subseteq Done \union Range(pend)
  BY <1>1, <1>2, <1>5 DEF Done
<1>7. Inc(pend') /\ Range(pend') \subseteq Range(pend)
  BY <1>2, RangeEmpty, IncEmpty DEF Lined
<1>8. /\ Before(Done', Left' \union Waiting')
      /\ Before(Range(pend'), Left' \union Waiting') /\ Before(Committed', Range(pend'))
  BY <1>5, <1>6, <1>7 DEF Lined, Before
<1>9. Lined'
  BY <1>1, <1>3, <1>5, <1>7, <1>8 DEF Lined
<1> QED
  BY <1>5, <1>9

LEMMA InsertOrder ==
    ASSUME TypeOK, Sane, FileInv, Lined, InsertRow, ~aborted, \A h \in Hour : Inc(table[h])
    PROVE  /\ Lined' /\ Left = {batch[i]} \union Left' /\ Before({batch[i]}, Left')
           /\ \A h \in Hour : Inc(table'[h])
<1> USE DEF queueVars, mainVars
<1> DEFINE e == batch[i]
<1>1. /\ UNCHANGED <<fifo, pbuf, stuck, discarded, drained, freed, got, aborted>>
      /\ pcW = "insert" /\ pcW' = "insert"
  BY DEF InsertRow
<1>2. batch \in Seq(Entry) /\ pend \in Seq(Entry) /\ batch' = batch
  BY <1>1 DEF TypeOK, batch
<1>3. /\ i \in 1..Len(batch) /\ i' = i + 1 /\ e \in Entry /\ e \in Range(batch)
      /\ Range(SubSeq(batch, i, Len(batch)))
                = {e} \union Range(SubSeq(batch, i + 1, Len(batch)))
      /\ stmt.file \in Hour /\ Step(e)
  BY InsertEffect
<1>4. /\ Left = Range(SubSeq(batch, i, Len(batch)))
      /\ Left' = Range(SubSeq(batch, i + 1, Len(batch)))
  BY <1>1, <1>2, <1>3 DEF Left, Inserting
<1>5. Inc(batch) /\ Before(Range(batch), Waiting)
  BY <1>1 DEF Lined
<1>6. Before({e}, Left')
  BY <1>2, <1>3, <1>4, <1>5, IncRest
<1>7. Left = {e} \union Left' /\ Waiting' = Waiting
  BY <1>1, <1>3, <1>4 DEF Waiting
<1> HIDE DEF e
<1>8. /\ rejected' \subseteq rejected \union Range(pend) \union {e}
      /\ Committed' \subseteq Committed \union {e}
      /\ Range(pend') \subseteq Range(pend) \union {e}
      /\ pend' # <<>> => Committed' = Committed
      /\ pend' \in {pend, <<>>, Append(pend, e)}
  BY <1>3, StepEffect, RangeEmpty
<1>9. Done' \subseteq Done \union Range(pend) \union {e} /\ Committed \subseteq Done
  BY <1>1, <1>8 DEF Done
<1>10. Before(Range(pend), {e}) /\ Before(Done, {e}) /\ Before({e}, Waiting)
  BY <1>3, <1>5, <1>7 DEF Lined, Before
<1>11. Before(Done', Left' \union Waiting') /\ Before(Range(pend'), Left' \union Waiting')
  BY <1>6, <1>7, <1>8, <1>9, <1>10 DEF Lined, Before
<1>12. Before(Committed', Range(pend'))
  <2>1. CASE pend' = <<>>
    BY <2>1, RangeEmpty DEF Before
  <2>2. CASE pend' # <<>>
    BY <1>8, <1>9, <1>10, <2>2 DEF Lined, Before
  <2> QED
    BY <2>1, <2>2
<1>13. Inc(pend')
  BY <1>2, <1>3, <1>8, <1>10, IncAppend, IncEmpty DEF Lined
<1>14. Lined'
  BY <1>1, <1>2, <1>5, <1>7, <1>11, <1>12, <1>13 DEF Lined
<1>15. ASSUME NEW h \in Hour
       PROVE  Inc(table'[h])
  <2>1. CASE table' = table
    BY <2>1
  <2>2. CASE /\ table'[stmt.file] = Append(table[stmt.file], e)
             /\ \A g \in Hour : g # stmt.file => table'[g] = table[g]
    <3>1. table[stmt.file] \in Seq(Entry) /\ Range(table[stmt.file]) \subseteq Committed
      BY <1>3 DEF TypeOK, Committed
    <3>2. Before(Range(table[stmt.file]), {e}) /\ Inc(table[stmt.file])
      BY <1>3, <1>9, <1>10, <3>1 DEF Before
    <3>3. Inc(Append(table[stmt.file], e))
      BY <1>3, <3>1, <3>2, IncAppend
    <3> QED
      BY <2>2, <3>3
  <2> QED
    BY <1>3, <2>1, <2>2, StepEffect
<1> QED
  BY <1>6, <1>7, <1>14, <1>15 DEF e

LEMMA MidOrder ==
    ASSUME TypeOK, Sane, FileInv, Lined, MidBatchFails, ~aborted, ~aborted'
    PROVE  Lined'
<1> USE DEF queueVars, mainVars
<1>1. /\ UNCHANGED <<fifo, pbuf, drained, freed>>
      /\ pcW = "insert"
  BY DEF MidBatchFails
<1>2. /\ discarded' = discarded \union Range(SubSeq(batch, i, Len(batch)))
      /\ Range(SubSeq(batch, i, Len(batch))) \subseteq Range(batch)
      /\ stuck' = stuck \union Range(pend)
      /\ table' = table /\ pend' = <<>> /\ rejected' = rejected /\ pcW' = "loop"
  BY MidEffect
<1>3. Left' = {} /\ Waiting' = Waiting /\ Committed' = Committed /\ Range(pend') = {}
  BY <1>1, <1>2, RangeEmpty DEF Left, Inserting, Waiting, Committed
<1>4. Done' \subseteq Done \union Range(batch) \union Range(pend)
  BY <1>1, <1>2, <1>3 DEF Done
<1>5. Before(Done', Left' \union Waiting')
  BY <1>1, <1>3, <1>4 DEF Lined, Before
<1>6. Before(Range(pend'), Left' \union Waiting') /\ Before(Committed', Range(pend'))
  BY <1>3 DEF Before
<1> QED
  BY <1>1, <1>2, <1>3, <1>5, <1>6, IncEmpty DEF Lined

LEMMA CommitOrder ==
    ASSUME TypeOK, Sane, Lined, CommitBatch, ~aborted, \A h \in Hour : Inc(table[h])
    PROVE  Lined' /\ \A h \in Hour : Inc(table'[h])
<1> USE DEF queueVars, mainVars
<1>1. /\ UNCHANGED <<fifo, pbuf, discarded, drained>>
      /\ freed' = freed \union Range(batch)
      /\ pcW = "insert" /\ pcW' = "loop"
  BY DEF CommitBatch
<1>2. /\ Committed' \subseteq Committed \union Range(pend)
      /\ stuck' \subseteq stuck \union Range(pend)
      /\ rejected' \subseteq rejected \union Range(pend)
      /\ \/ pend' = <<>>
         \/ pend' = pend /\ Committed' = Committed
  BY CommitEffect
<1>3. Left' = {} /\ Waiting' = Waiting
  BY <1>1 DEF Left, Inserting, Waiting
<1>4. Done' \subseteq Done \union Range(batch) \union Range(pend)
  BY <1>1, <1>2 DEF Done
<1>5. Before(Done', Left' \union Waiting')
  BY <1>1, <1>3, <1>4 DEF Lined, Before
<1>6. /\ Inc(pend') /\ Before(Range(pend'), Left' \union Waiting')
      /\ Before(Committed', Range(pend'))
  BY <1>2, <1>3, RangeEmpty, IncEmpty DEF Lined, Before
<1>7. Lined'
  BY <1>1, <1>3, <1>5, <1>6 DEF Lined
<1>8. ASSUME NEW h \in Hour
      PROVE  Inc(table'[h])
  <2>1. CASE table' = table
    BY <2>1
  <2>2. CASE /\ table'[stmt.file] = table[stmt.file] \o pend
             /\ \A g \in Hour : g # stmt.file => table'[g] = table[g]
             /\ stmt.file \in Hour
    <3>1. table[stmt.file] \in Seq(Entry) /\ pend \in Seq(Entry)
      BY <2>2 DEF TypeOK
    <3>2. Range(table[stmt.file]) \subseteq Committed
      BY <2>2 DEF Committed
    <3>3. Before(Range(table[stmt.file]), Range(pend)) /\ Inc(pend) /\ Inc(table[stmt.file])
      BY <2>2, <3>2 DEF Lined, Before
    <3>4. Inc(table[stmt.file] \o pend)
      BY <3>1, <3>3, IncConcat
    <3> QED
      BY <2>2, <3>4
  <2> QED
    BY <2>1, <2>2, CommitEffect
<1> QED
  BY <1>7, <1>8

LEMMA DrainOrder ==
    ASSUME TypeOK, Sane, StopInv, Lined, WaitDrain
    PROVE  Lined'
<1> USE DEF fileVars, mainVars
<1>1. UNCHANGED <<pbuf, pend, table, stuck, rejected, discarded, freed, pcW, i, aborted>>
  BY DEF WaitDrain
<1>2. pcW = "done"
  BY DEF WaitDrain, StopInv
<1>3. Left = {} /\ Left' = {} /\ Committed' = Committed
  BY <1>1, <1>2 DEF Left, Inserting, Committed
<1>4. CASE /\ drained' = drained \union {Head(fifo)}
           /\ Range(fifo) = {Head(fifo)} \union Range(fifo')
           /\ Inc(fifo) => Inc(fifo') /\ Before({Head(fifo)}, Range(fifo'))
  <2>1. Inc(fifo') /\ Before({Head(fifo)}, Range(fifo'))
    BY <1>4 DEF Lined
  <2>2. Waiting = {Head(fifo)} \union Waiting' /\ Done' = Done \union {Head(fifo)}
    BY <1>1, <1>3, <1>4 DEF Waiting, Done
  <2>3. Before({Head(fifo)}, Waiting') /\ Before(Range(fifo'), Range(pbuf'))
    BY <1>1, <1>4, <2>1 DEF Lined, Before, Waiting
  <2>4. Before(Done', Left' \union Waiting')
    BY <1>3, <2>2, <2>3 DEF Lined, Before
  <2>5. Before(Range(pend'), Left' \union Waiting') /\ Before(Committed', Range(pend'))
    BY <1>1, <1>3, <2>2 DEF Lined, Before
  <2> QED
    BY <1>1, <1>2, <2>1, <2>3, <2>4, <2>5 DEF Lined
<1>5. CASE fifo = <<>> /\ fifo' = <<>> /\ drained' = drained
  <2>1. batch' = batch
    BY DrainEffect
  <2> QED
    BY <1>1, <1>3, <1>5, <2>1, SameOrder
<1> QED
  BY <1>4, <1>5, DrainEffect

\* Closing the last connection rolls back what an earlier COMMIT left open.
LEMMA WaitOrder ==
    ASSUME Lined, db_writer_wait
    PROVE  Lined'
<1> USE DEF queueVars, mainVars
<1>1. /\ UNCHANGED <<fifo, pbuf, table, stuck, discarded, drained, freed, pcW, i, got, aborted>>
      /\ pend' = <<>> /\ rejected' = rejected \union Range(pend)
  BY DEF db_writer_wait, RollBack
<1>2. Left' = Left /\ Waiting' = Waiting /\ Committed' = Committed /\ batch' = batch
  BY <1>1 DEF Left, Inserting, Waiting, Committed, batch
<1>3. Done' = Done \union Range(pend)
  BY <1>1, <1>2 DEF Done
<1>4. /\ Before(Done', Left' \union Waiting')
      /\ Before(Range(pend'), Left' \union Waiting') /\ Before(Committed', Range(pend'))
  BY <1>1, <1>2, <1>3, RangeEmpty DEF Lined, Before
<1> QED
  BY <1>1, <1>2, <1>4, IncEmpty DEF Lined

LEMMA NextOrder ==
    TypeOK /\ Sane /\ FileInv /\ StopInv /\ OrderInv /\ [Next]_vars => OrderInv'
<1> SUFFICES ASSUME TypeOK, Sane, FileInv, StopInv, OrderInv, [Next]_vars, quiet'
             PROVE  /\ \A h \in Hour : Inc(table'[h])
                    /\ ~aborted' => Lined'
  BY DEF OrderInv
<1> USE DEF queueVars, fileVars, mainVars
<1>1. CASE UNCHANGED vars
  <2>1. Left' = Left /\ batch' = batch
    BY <1>1 DEF vars, Left, Inserting, batch
  <2> QED
    BY <1>1, <2>1, SameOrder DEF vars, OrderInv
<1>2. CASE UNCHANGED quiet /\ ~aborted
  <2>0. quiet /\ Lined /\ \A h \in Hour : Inc(table[h])
    BY <1>2 DEF OrderInv
  <2>1. ASSUME NEW h \in Hour, AppendEntry(h)
        PROVE  Lined' /\ table' = table
    BY <2>0, <2>1, PushOrder DEF AppendEntry
  <2>16. CASE db_writer_push_stack \/ NoEntry
    <3>1. Left' = Left /\ batch' = batch
      BY <2>16 DEF db_writer_push_stack, NoEntry, Left, Inserting, batch
    <3> QED
      BY <2>0, <2>16, <3>1, SameOrder DEF db_writer_push_stack, NoEntry
  <2>2. CASE SymbolizerFlush
    <3>1. flushS = pbuf /\ ~closed /\ db_writer_flush(flushS)
      BY <2>0, <2>2 DEF SymbolizerFlush, StopInv
    <3> QED
      BY <2>0, <2>2, <3>1, FlushOrder DEF SymbolizerFlush
  <2>3. CASE WriterLoop
    <3>1. Left' = Left /\ batch' = batch
      BY <2>3 DEF WriterLoop, Left, Inserting, batch
    <3> QED
      BY <2>0, <2>3, <3>1, SameOrder DEF WriterLoop
  <2>4. CASE WriterPop
    BY <1>2, <2>0, <2>4, PopOrder DEF WriterPop
  <2>5. CASE BatchDiscarded
    BY <1>2, <2>0, <2>5, DiscardOrder DEF BatchDiscarded
  <2>6. CASE BeginBatch
    BY <1>2, <2>0, <2>6, BeginOrder DEF BeginBatch
  <2>7. CASE InsertRow
    BY <1>2, <2>0, <2>7, InsertOrder DEF InsertRow
  <2>8. CASE MidBatchFails
    BY <1>2, <2>0, <2>8, MidOrder DEF MidBatchFails, LeaveUncommitted
  <2>9. CASE CommitBatch
    BY <1>2, <2>0, <2>9, CommitOrder
  <2>10. CASE db_writer_stop
    <3>1. Left' = Left /\ batch' = batch
      BY <2>10 DEF db_writer_stop, Left, Inserting, batch
    <3> QED
      BY <2>0, <2>10, <3>1, SameOrder DEF db_writer_stop
  <2>11. CASE StopReads
    <3>1. Left' = Left /\ batch' = batch
      BY <2>11 DEF StopReads, Left, Inserting, batch
    <3> QED
      BY <2>0, <2>11, <3>1, SameOrder DEF StopReads
  <2>12. CASE StopFlush
    <3>1. flushM = pbuf /\ ~closed /\ db_writer_flush(flushM)
      BY <2>0, <2>12 DEF StopFlush, StopInv
    <3> QED
      BY <2>0, <2>12, <3>1, FlushOrder DEF StopFlush
  <2>13. CASE StopShutdown
    <3>1. Left' = Left /\ batch' = batch
      BY <2>13 DEF StopShutdown, Q!Close, Left, Inserting, batch
    <3> QED
      BY <2>0, <2>13, <3>1, SameOrder DEF StopShutdown, Q!Close
  <2>14. CASE db_writer_wait
    BY <2>0, <2>14, WaitOrder DEF db_writer_wait
  <2>15. CASE WaitDrain
    BY <2>0, <2>15, DrainOrder DEF WaitDrain
  <2> QED
    BY <2>0, <2>1, <2>2, <2>3, <2>4, <2>5, <2>6, <2>7, <2>8, <2>9, <2>10, <2>11,
       <2>12, <2>13, <2>14, <2>15, <2>16, <1>2, Steps, <1>1
<1> QED
  BY <1>1, <1>2, Steps

----------------------------------------------------------------------------
(* Every entry is in exactly one place.                                    *)

InOne(e) == \E k \in 1..10 : \A l \in 1..10 : e \in Places[l] <=> l = k

\* The same without counting.
LEMMA InOneCounts ==
    ASSUME NEW e
    PROVE  (Cardinality({ k \in DOMAIN Places : e \in Places[k] }) = 1) <=> InOne(e)
<1> DEFINE K == { k \in DOMAIN Places : e \in Places[k] }
<1>1. DOMAIN Places = 1..10
  BY DEF Places
<1>2. IsFiniteSet(1..10)
  <2>1. 1 \in Int /\ 10 \in Int
    OBVIOUS
  <2> QED
    BY <2>1, FS_Interval, Zenon
<1>3. K \subseteq 1..10 /\ \A k \in 1..10 : k \in K <=> e \in Places[k]
  BY <1>1
<1>4. IsFiniteSet(K)
  BY <1>2, <1>3, FS_Subset
<1> HIDE DEF K
<1>5. Cardinality(K) = 1 <=> \E k : K = {k}
  BY <1>4, FS_Singleton
<1>6. (\E k : K = {k}) <=> \E k \in 1..10 : \A l \in 1..10 : l \in K <=> l = k
  <2>1. ASSUME NEW k, K = {k}
        PROVE  k \in 1..10 /\ \A l \in 1..10 : l \in K <=> l = k
    BY <1>3, <2>1
  <2>2. ASSUME NEW k \in 1..10, \A l \in 1..10 : l \in K <=> l = k
        PROVE  K = {k}
    BY <1>3, <2>2
  <2> QED
    BY <2>1, <2>2
<1> QED
  BY <1>3, <1>5, <1>6 DEF K, InOne

OnePlace == quiet /\ ~aborted => \A e \in 1..pushed : InOne(e)

LEMMA OnePlaceIs == ExactlyOnePlace <=> OnePlace
  BY InOneCounts DEF ExactlyOnePlace, OnePlace

LEMMA OnePlaceIsNext == (ExactlyOnePlace <=> OnePlace)'
  BY OnePlaceIs, PTL

LEMMA PlacesAre ==
    /\ Places[1] = Range(pbuf) /\ Places[2] = Range(fifo) /\ Places[3] = InBatch
    /\ Places[4] = Range(pend) /\ Places[5] = Committed /\ Places[6] = stuck
    /\ Places[7] = rejected /\ Places[8] = discarded /\ Places[9] = drained
    /\ Places[10] = dropped
  BY DEF Places

LEMMA PlacesAreNext ==
    /\ Places'[1] = Range(pbuf') /\ Places'[2] = Range(fifo') /\ Places'[3] = InBatch'
    /\ Places'[4] = Range(pend') /\ Places'[5] = Committed' /\ Places'[6] = stuck'
    /\ Places'[7] = rejected' /\ Places'[8] = discarded' /\ Places'[9] = drained'
    /\ Places'[10] = dropped'
  BY DEF Places

LEMMA InBatchIs == TypeOK /\ ~aborted => InBatch = Left
<1> SUFFICES ASSUME TypeOK, ~aborted
             PROVE  InBatch = Left
  OBVIOUS
<1>1. batch \in Seq(Entry)
  BY DEF TypeOK, batch
<1>2. SubSeq(batch, 1, Len(batch)) = batch
  BY <1>1, SubSeqFull
<1> QED
  BY <1>2 DEF InBatch, Left, Inserting

LEMMA InBatchIsNext == (TypeOK /\ ~aborted => InBatch = Left)'
  BY InBatchIs, PTL

\* The entries of M go from place a to b, those of N from c to d.
Moves(a, M, b, c, N, d) ==
    /\ a \in 1..10 /\ b \in 1..10 /\ c \in 1..10 /\ d \in 1..10
    /\ a # c /\ b \notin {a, c} /\ d \notin {a, c}
    /\ M \subseteq Places[a] /\ Places'[a] = Places[a] \ M
    /\ N \subseteq Places[c] /\ Places'[c] = Places[c] \ N
    /\ \A l \in 1..10 : l \notin {a, c} =>
          \A x : x \in Places'[l] <=> \/ x \in Places[l]
                                      \/ (l = b /\ x \in M)
                                      \/ (l = d /\ x \in N)

LEMMA Moved ==
    ASSUME NEW a, NEW M, NEW b, NEW c, NEW N, NEW d, Moves(a, M, b, c, N, d),
           NEW e, InOne(e)
    PROVE  InOne(e)'
<1> USE DEF Moves
<1>1. PICK k \in 1..10 : \A l \in 1..10 : e \in Places[l] <=> l = k
  BY DEF InOne
<1>2. CASE e \in M
  <2>1. k = a /\ e \notin N
    BY <1>1, <1>2
  <2>2. \A l \in 1..10 : e \in Places'[l] <=> l = b
    BY <1>1, <1>2, <2>1
  <2> QED
    BY <2>2 DEF InOne
<1>3. CASE e \in N
  <2>1. k = c /\ e \notin M
    BY <1>1, <1>3
  <2>2. \A l \in 1..10 : e \in Places'[l] <=> l = d
    BY <1>1, <1>3, <2>1
  <2> QED
    BY <2>2 DEF InOne
<1>4. CASE e \notin M /\ e \notin N
  <2>1. \A l \in 1..10 : e \in Places'[l] <=> e \in Places[l]
    BY <1>4
  <2> QED
    BY <1>1, <2>1 DEF InOne
<1> QED
  BY <1>2, <1>3, <1>4

LEMMA Unmoved ==
    ASSUME \A l \in 1..10 : Places'[l] = Places[l], NEW e, InOne(e)
    PROVE  InOne(e)'
  BY DEF InOne

LEMMA InitOnePlace == Init => OnePlace
  BY DEF Init, OnePlace

LEMMA PushOnePlace ==
    ASSUME TypeOK, Sane, \A e \in 1..pushed : InOne(e),
           NEW h \in Hour, AppendEntry(h), NEW e \in 1..pushed'
    PROVE  InOne(e)'
<1> USE DEF queueVars, fileVars, mainVars
<1>1. pushed' = pushed + 1 /\ Range(pbuf') = Range(pbuf) \union {pushed'} /\ pushed \in Nat
  BY PushTypes, DbAssumption DEF TypeOK
<1>2. UNCHANGED <<fifo, pend, table, stuck, rejected, discarded, drained, dropped,
                  pcW, i, aborted, got>>
  BY DEF AppendEntry
<1>3. InBatch' = InBatch /\ Committed' = Committed
  BY <1>2 DEF InBatch, Committed, batch
<1>4. /\ \A l \in 2..10 : Places'[l] = Places[l]
      /\ Places'[1] = Places[1] \union {pushed'}
  BY <1>1, <1>2, <1>3, PlacesAre, PlacesAreNext
<1>5. CASE e \in 1..pushed
  <2>1. \A l \in 1..10 : e \in Places'[l] <=> e \in Places[l]
    BY <1>1, <1>4, <1>5
  <2> QED
    BY <1>5, <2>1 DEF InOne
<1>6. CASE e = pushed'
  <2>1. Seen \subseteq 1..pushed
    BY DEF Sane
  <2>2. InBatch \subseteq Seen
    <3>1. batch \in Seq(Entry)
      BY DEF TypeOK, batch
    <3>2. pcW = "insert" /\ ~aborted => i \in 1..(Len(batch) + 1)
      BY DEF Sane, Inserting
    <3>3. \A n \in 1..(Len(batch) + 1) : Range(SubSeq(batch, n, Len(batch))) \subseteq Range(batch)
      <4>1. /\ \A n \in 1..(Len(batch) + 1) :
                 Range(SubSeq(batch, n, Len(batch))) = { batch[k] : k \in n..Len(batch) }
            /\ Range(batch) = { batch[k] : k \in 1..Len(batch) }
        BY <3>1, RestIs, RangeIs
      <4>2. \A n \in 1..(Len(batch) + 1) : n..Len(batch) \subseteq 1..Len(batch)
        BY <3>1, LenProperties
      <4> QED
        BY <4>1, <4>2
    <3>4. 1 \in 1..(Len(batch) + 1)
      BY <3>1, LenProperties
    <3> QED
      BY <3>2, <3>3, <3>4 DEF InBatch, Seen
  <2>3. \A l \in 2..10 : e \notin Places[l]
    <3>1. \A x \in Seen : x # e
      BY <1>1, <1>6, <2>1
    <3>2. /\ Range(fifo) \subseteq Seen /\ Committed \subseteq Seen /\ stuck \subseteq Seen
          /\ rejected \subseteq Seen /\ discarded \subseteq Seen /\ drained \subseteq Seen
          /\ dropped \subseteq Seen /\ Range(pend) \subseteq Seen
      BY DEF Seen
    <3> QED
      BY <2>2, <3>1, <3>2, PlacesAre
  <2>4. \A l \in 1..10 : e \in Places'[l] <=> l = 1
    BY <1>4, <1>6, <2>3
  <2> QED
    BY <2>4 DEF InOne
<1> QED
  BY <1>1, <1>5, <1>6

\* A flush of the whole buffer into an open queue.
LEMMA FlushOnePlace ==
    ASSUME TypeOK, Lined, db_writer_flush(pbuf), ~closed,
           UNCHANGED <<fileVars, pcW, discarded, drained, aborted>>,
           NEW e, InOne(e)
    PROVE  InOne(e)'
<1>1. pbuf \in Seq(Entry)
  BY DEF TypeOK
<1>2. /\ got' = got /\ pbuf' = <<>> /\ dropped' = dropped
      /\ Range(fifo') = Range(fifo) \union Range(pbuf)
  BY <1>1, FlushTypes
<1>3. InBatch' = InBatch /\ Committed' = Committed /\ Range(pbuf') = {}
  BY <1>2, RangeEmpty DEF InBatch, Committed, batch, fileVars
<1>4. /\ \A l \in 1..10 : l \notin {1, 2} => Places'[l] = Places[l]
      /\ Places[1] = Range(pbuf) /\ Places'[1] = {}
      /\ Places'[2] = Places[2] \union Range(pbuf)
  BY <1>2, <1>3, PlacesAre, PlacesAreNext DEF fileVars
<1>5. Moves(1, Range(pbuf), 2, 3, {}, 2)
  BY <1>4 DEF Moves
<1> QED
  BY <1>5, Moved

LEMMA NextOnePlace ==
    ASSUME TypeOK, Sane, FileInv, StopInv, OrderInv, OnePlace, [Next]_vars,
           TypeOK', Sane'
    PROVE  OnePlace'
<1> SUFFICES ASSUME quiet', ~aborted', NEW e \in 1..pushed'
             PROVE  InOne(e)'
  BY DEF OnePlace
<1> USE DEF queueVars, fileVars, mainVars
<1>1. CASE UNCHANGED vars
  <2>1. /\ Committed' = Committed /\ InBatch' = InBatch
        /\ UNCHANGED <<pbuf, fifo, pend, stuck, rejected, discarded, drained, dropped>>
    BY <1>1 DEF vars, Committed, InBatch, batch
  <2>2. \A l \in 1..10 : Places'[l] = Places[l]
    BY <2>1, PlacesAre, PlacesAreNext
  <2>3. InOne(e)
    BY <1>1 DEF OnePlace, vars
  <2> QED
    BY <2>2, <2>3, Unmoved
<1>2. CASE UNCHANGED quiet /\ ~aborted
  <2>1. /\ quiet /\ Lined /\ \A f \in 1..pushed : InOne(f)
        /\ \A h \in Hour : Inc(table[h])
    BY <1>2 DEF OrderInv, OnePlace
  <2>2. InBatch = Left /\ InBatch' = Left'
    BY <1>2, InBatchIs, InBatchIsNext
  <2>3. ASSUME NEW h \in Hour, AppendEntry(h)
        PROVE  InOne(e)'
    BY <2>1, <2>3, PushOnePlace
  <2>4. ASSUME pushed' = pushed
        PROVE  InOne(e)
    BY <2>1, <2>4
  \* Steps that keep every entry where it is.
  <2>5. ASSUME UNCHANGED <<pbuf, fifo, got, pend, table, stuck, rejected, discarded,
                           drained, dropped, pushed>>,
               Left' = Left
        PROVE  InOne(e)'
    <3>1. Committed' = Committed /\ InBatch' = InBatch
      BY <2>2, <2>5 DEF Committed
    <3>2. \A l \in 1..10 : Places'[l] = Places[l]
      BY <2>5, <3>1, PlacesAre, PlacesAreNext
    <3> QED
      BY <2>4, <2>5, <3>2, Unmoved
  <2>20. CASE db_writer_push_stack \/ NoEntry
    <3>1. Left' = Left
      BY <2>20 DEF db_writer_push_stack, NoEntry, Left, Inserting, batch
    <3> QED
      BY <2>5, <2>20, <3>1 DEF db_writer_push_stack, NoEntry
  <2>6. CASE SymbolizerFlush
    <3>1. flushS = pbuf /\ ~closed /\ db_writer_flush(flushS)
      BY <2>1, <2>6 DEF SymbolizerFlush, StopInv
    <3>2. /\ UNCHANGED <<fileVars, pcW, discarded, drained, aborted>>
          /\ pushed' = pushed
      BY <2>6 DEF SymbolizerFlush
    <3> QED
      BY <2>1, <2>4, <3>1, <3>2, FlushOnePlace
  <2>7. CASE WriterLoop
    <3>1. Left' = Left
      BY <2>7 DEF WriterLoop, Left, Inserting
    <3> QED
      BY <2>5, <2>7, <3>1 DEF WriterLoop
  <2>8. CASE WriterPop
    <3>1. UNCHANGED <<pbuf, pend, table, stuck, rejected, discarded, drained, pushed>>
      BY <2>8 DEF WriterPop
    <3>2. dropped' = dropped
      BY <2>8 DEF WriterPop, Q!Take, Q!TakeNothing
    <3>3. Left = {} /\ Committed' = Committed
      BY <2>8, <3>1, NoneLeft DEF WriterPop, Committed
    <3>4. InBatch = {} /\ InBatch' = Left'
      BY <2>2, <3>1, <3>3
    <3>5. CASE /\ pcW' = "handle"
               /\ Range(fifo) = Range(batch') \union Range(fifo')
               /\ Inc(fifo) => Before(Range(batch'), Range(fifo'))
      <4>1. Left' = Range(batch')
        BY <3>5 DEF Left
      <4>2. Before(Range(batch'), Range(fifo'))
        BY <2>1, <3>5 DEF Lined
      <4>3. Range(batch') \cap Range(fifo') = {}
        <5>1. fifo' \in Seq(Entry)
          BY DEF TypeOK
        <5>2. \A x \in Range(fifo') : x \in Nat
          BY <5>1, RangeIn DEF Entry
        <5> QED
          BY <4>2, <5>2 DEF Before
      <4>4. /\ \A l \in 1..10 : l \notin {2, 3} => Places'[l] = Places[l]
            /\ Places[2] = Range(fifo) /\ Places'[2] = Range(fifo')
            /\ Places[3] = {} /\ Places'[3] = Range(batch')
        BY <3>1, <3>2, <3>3, <3>4, <4>1, PlacesAre, PlacesAreNext
      <4>5. Moves(2, Range(batch'), 3, 4, {}, 3)
        BY <3>5, <4>3, <4>4 DEF Moves
      <4> QED
        BY <2>4, <3>1, <4>5, Moved
    <3>6. CASE pcW' \in {"loop", "done"} /\ fifo = <<>> /\ fifo' = <<>>
      <4>1. Left' = {}
        BY <3>6 DEF Left, Inserting
      <4>2. \A l \in 1..10 : Places'[l] = Places[l]
        <5>1. InBatch' = InBatch /\ fifo' = fifo
          BY <3>4, <3>6, <4>1
        <5> QED
          BY <3>1, <3>2, <3>3, <5>1, PlacesAre, PlacesAreNext
      <4> QED
        BY <2>4, <3>1, <4>2, Unmoved
    <3> QED
      BY <2>8, <3>5, <3>6, PopEffect
  <2>9. CASE BatchDiscarded
    <3>1. /\ UNCHANGED <<pbuf, fifo, table, stuck, drained, dropped, pushed>>
          /\ discarded' = discarded \union Range(batch)
          /\ pcW = "handle" /\ pcW' = "loop"
      BY <2>9 DEF BatchDiscarded, Discard
    <3>2. Left = Range(batch) /\ Left' = {} /\ Committed' = Committed
      BY <1>2, <3>1 DEF Left, Inserting, Committed
    <3>3. \/ pend' = pend /\ rejected' = rejected
          \/ pend' = <<>> /\ rejected' = rejected \union Range(pend)
      BY <2>9, CloseEffect DEF BatchDiscarded
    <3>4. /\ \A l \in 1..10 : l \notin {3, 4, 7, 8} => Places'[l] = Places[l]
          /\ Places[3] = Range(batch) /\ Places'[3] = {}
          /\ Places'[8] = Places[8] \union Range(batch)
          /\ Places[4] = Range(pend) /\ Places'[4] = Range(pend')
          /\ Places[7] = rejected /\ Places'[7] = rejected'
      BY <2>2, <3>1, <3>2, PlacesAre, PlacesAreNext
    <3>5. \/ Moves(3, Range(batch), 8, 4, {}, 7)
          \/ Moves(3, Range(batch), 8, 4, Range(pend), 7)
      BY <3>3, <3>4, RangeEmpty DEF Moves
    <3> QED
      BY <2>4, <3>1, <3>5, Moved
  <2>10. CASE BeginBatch
    <3>1. Left' = Left
      BY <1>2, <2>1, <2>10, BeginOrder
    <3>2. UNCHANGED <<pbuf, fifo, table, stuck, discarded, drained, dropped, pushed>>
      BY <2>10 DEF BeginBatch
    <3>3. Committed' = Committed
      BY <3>2 DEF Committed
    <3>4. \/ pend' = pend /\ rejected' = rejected
          \/ pend' = <<>> /\ rejected' = rejected \union Range(pend)
      BY <2>10, CloseEffect DEF BeginBatch
    <3>5. /\ \A l \in 1..10 : l \notin {4, 7} => Places'[l] = Places[l]
          /\ Places[4] = Range(pend) /\ Places'[4] = Range(pend')
          /\ Places[7] = rejected /\ Places'[7] = rejected'
      BY <2>2, <3>1, <3>2, <3>3, PlacesAre, PlacesAreNext
    <3>6. \/ Moves(4, {}, 7, 3, {}, 7)
          \/ Moves(4, Range(pend), 7, 3, {}, 7)
      BY <3>4, <3>5, RangeEmpty DEF Moves
    <3> QED
      BY <2>4, <3>2, <3>6, Moved
  <2>11. CASE InsertRow
    <3>1. /\ UNCHANGED <<pbuf, fifo, stuck, discarded, drained, dropped, pushed>>
      BY <2>11 DEF InsertRow
    <3>2. Left = {batch[i]} \union Left' /\ Before({batch[i]}, Left')
      BY <1>2, <2>1, <2>11, InsertOrder
    <3>3. batch[i] \in Entry /\ stmt.file \in Hour /\ Step(batch[i])
      BY <1>2, <2>11, InsertEffect
    <3>4. batch[i] \notin Left'
      BY <3>2, <3>3 DEF Before, Entry
    <3>5. /\ \A l \in 1..10 : l \notin {3, 4, 5, 7} => Places'[l] = Places[l]
          /\ Places[3] = Left /\ Places'[3] = Left \ {batch[i]}
          /\ Places[4] = Range(pend) /\ Places'[4] = Range(pend')
          /\ Places[5] = Committed /\ Places'[5] = Committed'
          /\ Places[7] = rejected /\ Places'[7] = rejected'
      BY <2>2, <3>1, <3>2, <3>4, PlacesAre, PlacesAreNext
    <3>6. CASE /\ Range(pend') = Range(pend) \union {batch[i]}
               /\ rejected' = rejected /\ Committed' = Committed
      <4>1. Moves(3, {batch[i]}, 4, 1, {}, 4)
        BY <3>2, <3>5, <3>6 DEF Moves
      <4> QED
        BY <2>4, <3>1, <4>1, Moved
    <3>7. CASE /\ Range(pend') = Range(pend) /\ rejected' = rejected
               /\ Committed' = Committed \union {batch[i]}
      <4>1. Moves(3, {batch[i]}, 5, 1, {}, 5)
        BY <3>2, <3>5, <3>7 DEF Moves
      <4> QED
        BY <2>4, <3>1, <4>1, Moved
    <3>8. CASE /\ Range(pend') = Range(pend) /\ Committed' = Committed
               /\ rejected' = rejected \union {batch[i]}
      <4>1. Moves(3, {batch[i]}, 7, 1, {}, 7)
        BY <3>2, <3>5, <3>8 DEF Moves
      <4> QED
        BY <2>4, <3>1, <4>1, Moved
    <3>9. CASE /\ Range(pend') = {} /\ Committed' = Committed
               /\ rejected' = rejected \union Range(pend) \union {batch[i]}
      <4>1. Moves(3, {batch[i]}, 7, 4, Range(pend), 7)
        BY <3>2, <3>5, <3>9 DEF Moves
      <4> QED
        BY <2>4, <3>1, <4>1, Moved
    <3> QED
      BY <3>3, <3>6, <3>7, <3>8, <3>9, StepEffect, RangeEmpty
  <2>12. CASE MidBatchFails
    <3>1. /\ UNCHANGED <<pbuf, fifo, drained, dropped, pushed>>
          /\ pcW = "insert"
      BY <2>12 DEF MidBatchFails
    <3>2. Left = Range(SubSeq(batch, i, Len(batch)))
      BY <1>2, <3>1 DEF Left, Inserting
    <3>3. /\ discarded' = discarded \union Left /\ stuck' = stuck \union Range(pend)
          /\ table' = table /\ pend' = <<>> /\ rejected' = rejected /\ pcW' = "loop"
      BY <1>2, <2>12, <3>2, MidEffect
    <3>4. Left' = {} /\ Range(pend') = {} /\ Committed' = Committed
      BY <3>3, RangeEmpty DEF Left, Inserting, Committed
    <3>5. /\ \A l \in 1..10 : l \notin {3, 4, 6, 8} => Places'[l] = Places[l]
          /\ Places[3] = Left /\ Places'[3] = {}
          /\ Places[4] = Range(pend) /\ Places'[4] = {}
          /\ Places'[8] = Places[8] \union Left /\ Places'[6] = Places[6] \union Range(pend)
      BY <2>2, <3>1, <3>3, <3>4, PlacesAre, PlacesAreNext
    <3>6. Moves(3, Left, 8, 4, Range(pend), 6)
      BY <3>5 DEF Moves
    <3> QED
      BY <2>4, <3>1, <3>6, Moved
  <2>13. CASE CommitBatch
    <3>1. /\ UNCHANGED <<pbuf, fifo, discarded, drained, dropped, pushed>>
          /\ pcW = "insert" /\ pcW' = "loop"
      BY <2>13 DEF CommitBatch
    <3>2. /\ Range(SubSeq(batch, i, Len(batch))) = {}
          /\ \/ /\ pend' = <<>> /\ UNCHANGED <<stuck, rejected>>
                /\ Committed' = Committed \union Range(pend)
             \/ /\ pend' = <<>> /\ stuck' = stuck /\ Committed' = Committed
                /\ rejected' = rejected \union Range(pend)
             \/ UNCHANGED <<pend, stuck, rejected>> /\ Committed' = Committed
             \/ /\ pend' = <<>> /\ rejected' = rejected /\ Committed' = Committed
                /\ stuck' = stuck \union Range(pend)
      BY <1>2, <2>13, CommitEffect
    <3>3. Left = {} /\ Left' = {}
      BY <3>1, <3>2 DEF Left, Inserting
    <3>4. /\ \A l \in 1..10 : l \notin {4, 5, 6, 7} => Places'[l] = Places[l]
          /\ Places[4] = Range(pend) /\ Places'[4] = Range(pend')
          /\ Places[5] = Committed /\ Places'[5] = Committed'
          /\ Places[6] = stuck /\ Places'[6] = stuck'
          /\ Places[7] = rejected /\ Places'[7] = rejected'
      BY <2>2, <3>1, <3>3, PlacesAre, PlacesAreNext
    <3>5. \/ Moves(4, Range(pend), 5, 3, {}, 5)
          \/ Moves(4, Range(pend), 7, 3, {}, 7)
          \/ Moves(4, {}, 5, 3, {}, 5)
          \/ Moves(4, Range(pend), 6, 3, {}, 6)
      BY <3>2, <3>4, RangeEmpty DEF Moves
    <3> QED
      BY <2>4, <3>1, <3>5, Moved
  <2>14. CASE db_writer_stop
    <3>1. Left' = Left
      BY <2>14 DEF db_writer_stop, Left, Inserting, batch
    <3> QED
      BY <2>5, <2>14, <3>1 DEF db_writer_stop
  <2>15. CASE StopReads
    <3>1. Left' = Left
      BY <2>15 DEF StopReads, Left, Inserting, batch
    <3> QED
      BY <2>5, <2>15, <3>1 DEF StopReads
  <2>16. CASE StopFlush
    <3>1. flushM = pbuf /\ ~closed /\ db_writer_flush(flushM)
      BY <2>1, <2>16 DEF StopFlush, StopInv
    <3>2. /\ UNCHANGED <<fileVars, pcW, discarded, drained, aborted>>
          /\ pushed' = pushed
      BY <2>16 DEF StopFlush
    <3> QED
      BY <2>1, <2>4, <3>1, <3>2, FlushOnePlace
  <2>17. CASE StopShutdown
    <3>1. Left' = Left
      BY <2>17 DEF StopShutdown, Q!Close, Left, Inserting, batch
    <3> QED
      BY <2>5, <2>17, <3>1 DEF StopShutdown, Q!Close
  <2>18. CASE db_writer_wait
    <3>1. /\ UNCHANGED <<pbuf, fifo, table, stuck, discarded, drained, dropped, pushed,
                        pcW, i, got, aborted>>
          /\ pend' = <<>> /\ rejected' = rejected \union Range(pend)
      BY <2>18 DEF db_writer_wait, RollBack
    <3>2. Left' = Left /\ Committed' = Committed
      BY <3>1 DEF Left, Inserting, batch, Committed
    <3>3. /\ \A l \in 1..10 : l \notin {4, 7} => Places'[l] = Places[l]
          /\ Places[4] = Range(pend) /\ Places'[4] = {}
          /\ Places'[7] = Places[7] \union Range(pend)
      BY <2>2, <3>1, <3>2, RangeEmpty, PlacesAre, PlacesAreNext
    <3>4. Moves(4, Range(pend), 7, 3, {}, 7)
      BY <3>3 DEF Moves
    <3> QED
      BY <2>4, <3>1, <3>4, Moved
  <2>19. CASE WaitDrain
    <3>1. UNCHANGED <<pbuf, pend, table, stuck, rejected, discarded, pcW, i, aborted, pushed>>
      BY <2>19 DEF WaitDrain
    <3>2. dropped' = dropped /\ pcW = "done"
      BY <2>19 DEF WaitDrain, Q!Take, Q!TakeNothing, StopInv
    <3>3. Left = {} /\ Left' = {} /\ Committed' = Committed
      BY <3>1, <3>2 DEF Left, Inserting, Committed
    <3>4. /\ \A l \in 1..10 : l \notin {2, 9} => Places'[l] = Places[l]
          /\ Places[2] = Range(fifo) /\ Places'[2] = Range(fifo')
          /\ Places[9] = drained /\ Places'[9] = drained'
      BY <2>2, <3>1, <3>2, <3>3, PlacesAre, PlacesAreNext
    <3>5. CASE fifo = <<>> /\ fifo' = <<>> /\ drained' = drained
      <4>1. \A l \in 1..10 : Places'[l] = Places[l]
        BY <3>4, <3>5
      <4> QED
        BY <2>4, <3>1, <4>1, Unmoved
    <3>6. CASE /\ drained' = drained \union {Head(fifo)}
               /\ Range(fifo) = {Head(fifo)} \union Range(fifo')
               /\ Inc(fifo) => Before({Head(fifo)}, Range(fifo'))
      <4>1. Head(fifo) \in Nat /\ Before({Head(fifo)}, Range(fifo'))
        <5>1. Range(fifo) \subseteq Entry
          BY RangeIn DEF TypeOK
        <5> QED
          BY <2>1, <3>6, <5>1 DEF Lined, Entry
      <4>2. Head(fifo) \notin Range(fifo')
        BY <4>1 DEF Before
      <4>3. Moves(2, {Head(fifo)}, 9, 3, {}, 9)
        BY <3>4, <3>6, <4>2 DEF Moves
      <4> QED
        BY <2>4, <3>1, <4>3, Moved
    <3> QED
      BY <2>19, <3>5, <3>6, DrainEffect
  <2> QED
    BY <1>1, <2>3, <2>6, <2>7, <2>8, <2>9, <2>10, <2>11, <2>12, <2>13, <2>14,
       <2>15, <2>16, <2>17, <2>18, <2>19, <2>20, Steps
<1> QED
  BY <1>1, <1>2, Steps

----------------------------------------------------------------------------
(* The theorems.                                                           *)

LEMMA Invariant == Spec => []DbInv
<1>1. Init => DbInv
  BY InitTypes, InitSane, InitFile, InitStop, InitOrder, InitOnePlace, OnePlaceIs DEF DbInv
<1>2. DbInv /\ [Next]_vars => DbInv'
  <2> SUFFICES ASSUME DbInv, [Next]_vars
               PROVE  DbInv'
    OBVIOUS
  <2>1. TypeOK /\ Sane /\ FileInv /\ StopInv /\ OrderInv /\ OnePlace
    BY OnePlaceIs DEF DbInv
  <2>2. TypeOK' /\ Sane' /\ FileInv' /\ StopInv' /\ OrderInv'
    BY <2>1, NextTypes, NextSane, NextFile, NextStop, NextOrder
  <2>3. OnePlace'
    BY <2>1, <2>2, NextOnePlace
  <2>4. ExactlyOnePlace'
    BY <2>3, OnePlaceIsNext
  <2> QED
    BY <2>2, <2>4 DEF DbInv
<1> QED
  BY <1>1, <1>2, PTL DEF Spec

\* The variables of db_writer keep their types; in particular the producer
\* buffer never holds more than MAX_PRODUCER_BATCH_SIZE entries, whatever
\* producer_batch_size the configuration asks for, and the queue never more
\* than its capacity.
THEOREM TypeCorrect == Spec => []TypeOK
<1>1. DbInv => TypeOK
  BY DEF DbInv
<1> QED
  BY <1>1, Invariant, PTL

\* Each row that was committed in a transaction is in the file of its own
\* hour, also when a batch spans hours and the statement outlives the switch
\* of files, and when a failed COMMIT leaves the transaction to the next
\* batch; and while stops are quiet the rows of a file are in the order in
\* which they were pushed.
THEOREM RowsInTheirFile == Spec => []FilesRight
<1>1. DbInv => FilesRight
  BY DEF DbInv, FileInv, OrderInv, Inc, FilesRight
<1> QED
  BY <1>1, Invariant, PTL

\* Each entry that db_writer_push_stack accepted is in exactly one place:
\* nothing is written twice and nothing vanishes unnoticed, through batching,
\* rotation, failing calls of SQLite, the error paths and a quiet stop.
THEOREM OncePerEntry == Spec => []ExactlyOnePlace
<1>1. DbInv => ExactlyOnePlace
  BY DEF DbInv
<1> QED
  BY <1>1, Invariant, PTL

\* No entry whose chunk CommitBatch gave back to the pool can still be read:
\* it is past the buffer, the queue and the batch.
THEOREM FreedIsUnreachable == Spec => []NoUseAfterFree
<1>1. DbInv => NoUseAfterFree
  <2> SUFFICES ASSUME DbInv, quiet, ~aborted
               PROVE  freed \cap (Range(pbuf) \union Range(fifo) \union InBatch) = {}
    BY DEF NoUseAfterFree
  <2>1. TypeOK /\ Sane /\ Lined
    BY DEF DbInv, OrderInv
  <2>2. InBatch = Left
    BY <2>1, InBatchIs
  <2>3. \A x \in freed : x \in Nat
    BY <2>1 DEF TypeOK, Entry
  <2>4. Before(freed, Left) /\ Before(freed, Range(pbuf)) /\ Before(freed, Range(fifo))
    BY <2>1 DEF Lined, Before, Done, Waiting
  <2> QED
    BY <2>2, <2>3, <2>4 DEF Before
<1> QED
  BY <1>1, Invariant, PTL

\* What db_writer_wait throws away after a quiet stop was handed over by
\* db_writer_stop's own flush: nothing that was queued before the stop is lost.
THEOREM StopDrainsOnlyItsFlush == Spec => []OnlyLastFlushDrained
<1>1. DbInv => OnlyLastFlushDrained
  BY DEF DbInv, StopInv, OnlyLastFlushDrained
<1> QED
  BY <1>1, Invariant, PTL
=============================================================================
