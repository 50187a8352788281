--------------------------- MODULE CaptureProofs ---------------------------
(***************************************************************************)
(* What Capture guarantees for every number of CPUs, size of the rings,    *)
(* depth of the stacks and number of records: the ring buffers hold whole  *)
(* records between data_tail and data_head, the reader passes them in the  *)
(* order they were written, each sample has one fate and carries the stack *)
(* that the kernel recorded.                                               *)
(***************************************************************************)
EXTENDS Capture, SequenceTheorems, FiniteSetTheorems, WellFoundedInduction,
        TLAPS

----------------------------------------------------------------------------
(* The inductive invariant.                                                *)

Recorded == 1..records
Sample   == [rec : Recorded, ips : Seq(Record \X (0..RingWords))]

\* The variables that TypeOK leaves out; samples are of records that exist.
Typed ==
    /\ TypeOK
    /\ Len(shape) = records
    /\ written \in [Cpu -> Seq(Recorded)] /\ seen \in [Cpu -> Seq(Recorded)]
    /\ skipped \subseteq Recorded /\ dropped_nomem \subseteq Recorded
    /\ taken \subseteq Recorded
    /\ fifo \in Seq(Sample)
    /\ pc = "push" => sample \in Sample
    /\ pc # "push" => sample = NoSample
    /\ lbr => use_lbr

StartUp == {"start", "open", "map", "ready", "failed", "cleaned"}

\* Which events are open and mapped, from the position of the main thread.
Opened ==
    /\ pc = "start" => cpu = 0 /\ fds = {} /\ maps = {} /\ manager = "none"
    /\ pc = "open" => fds = 0..(cpu - 1) /\ maps = 0..(cpu - 1)
    /\ pc = "map" => fds = 0..cpu /\ maps = 0..(cpu - 1)
    /\ pc \in {"ready", "loop", "consume", "push"} => fds = Cpu /\ maps = Cpu
    /\ ManagerLifetime

\* Before the main loop nothing is read.
Unstarted ==
    pc \in StartUp =>
        /\ fifo = <<>> /\ skipped = {} /\ dropped_nomem = {} /\ taken = {}
        /\ \A c \in Cpu : seen[c] = <<>> /\ data_tail[c] = 0

\* A whole record starts at position p of the ring of c.
SizeAt(c, p) == Size(shape[Word(c, p)[1]])
Whole(c, p) ==
    /\ Word(c, p)[1] \in Recorded
    /\ p + SizeAt(c, p) <= data_head[c]
    /\ \A m \in 0..(SizeAt(c, p) - 1) : Word(c, p + m) = <<Word(c, p)[1], m>>

\* Between data_tail and data_head there are whole records and nothing else.
Layout(c) ==
    /\ data_tail[c] <= data_head[c] /\ data_head[c] < data_tail[c] + RingWords
    /\ \A p \in data_tail[c]..(data_head[c] - 1) :
          \E q \in data_tail[c]..p : Whole(c, q) /\ p < q + SizeAt(c, q)

\* Position p is where a record starts or where the last one ends.
Boundary(c, p) == p = data_head[c] \/ Word(c, p)[2] = 0

\* What RingInOrder says of the ring of c when the reader is at position a:
\* the records passed are the first ones; the records that start at a or later
\* are others, and all of the others; they and the written ones are in the
\* order of their numbers.
Rest(c)     == (Len(seen[c]) + 1)..Len(written[c])
Ahead(c, a) == { p \in a..(data_head[c] - 1) : Word(c, p)[2] = 0 }

Prefix(c)    == /\ Len(seen[c]) <= Len(written[c])
                /\ \A i \in 1..Len(seen[c]) : seen[c][i] = written[c][i]
Known(c, a)  == \A p \in Ahead(c, a) : \E i \in Rest(c) : written[c][i] = Word(c, p)[1]
Listed(c, a) == \A i \in Rest(c) : \E p \in Ahead(c, a) : Word(c, p)[1] = written[c][i]
Sorted(c, a) == \A p, q \in Ahead(c, a) : p < q => Word(c, p)[1] < Word(c, q)[1]
Ascending(c) == \A i, j \in 1..Len(written[c]) : i < j => written[c][i] < written[c][j]

InOrder(c, a) ==
    Prefix(c) /\ Known(c, a) /\ Listed(c, a) /\ Sorted(c, a) /\ Ascending(c)

\* The ring of c with the reader at position a, the start of a record.
RingOK(c, a) == /\ Layout(c)
                /\ a \in data_tail[c]..data_head[c] /\ Boundary(c, a)
                /\ InOrder(c, a)

\* The reader is not beyond the head it loaded, which is a boundary as well.
Reading == pc \in {"consume", "push"} =>
             /\ cur = ReadPos(cpu) % RingWords
             /\ head \in ReadPos(cpu)..data_head[cpu]
             /\ Boundary(cpu, head)

RingInv == (\A c \in maps : RingOK(c, ReadPos(c))) /\ Reading

\* Records have different numbers, on whatever CPU they were written.
Distinct ==
    \A c, d \in Cpu : \A i \in DOMAIN written[c], j \in DOMAIN written[d] :
        written[c][i] = written[d][j] => c = d /\ i = j

\* Only what the reader passed has a fate, and no more than one; a sample it
\* passed has one.  No record is in the queue twice.
OfPassed  == \A r \in Recorded : Fate(r) # {} => Member(r, seen)
AtMostOne == \A r \in Recorded : \A f, g \in Fate(r) : f = g
SomeFate  == \A r \in Recorded :
                Member(r, seen) /\ shape[r].type = "sample" => Fate(r) # {}
QueuedOnce == \A i, j \in DOMAIN fifo : fifo[i].rec = fifo[j].rec => i = j
SkippedLong == \A r \in skipped : Size(shape[r]) > TempWords

Fates == OfPassed /\ AtMostOne /\ SomeFate /\ QueuedOnce /\ SkippedLong

Static == Typed /\ Opened /\ Unstarted
CapInv == Static /\ RingInv /\ Distinct /\ Fates /\ StacksFaithful

----------------------------------------------------------------------------
(* Remainders.                                                             *)

LEMMA ModRange == \A a \in Nat : a % RingWords \in 0..(RingWords - 1)
  BY CaptureAssumption

LEMMA ModDef == \A a \in Nat : \E q \in Nat : a = q * RingWords + (a % RingWords)
<1> TAKE a \in Nat
<1>1. a \div RingWords \in Nat /\ a = (a \div RingWords) * RingWords + (a % RingWords)
  BY CaptureAssumption
<1> QED
  BY <1>1

LEMMA ModUnique ==
    \A q, p \in Nat, x, y \in 0..(RingWords-1) :
        q * RingWords + x = p * RingWords + y => x = y /\ q = p
  BY CaptureAssumption

LEMMA ModIs ==
    \A a \in Nat : \A q \in Nat : \A x \in 0..(RingWords-1) :
        a = q * RingWords + x => a % RingWords = x
<1> TAKE a \in Nat
<1> TAKE q \in Nat
<1> TAKE x \in 0..(RingWords-1)
<1> HAVE a = q * RingWords + x
<1>1. PICK p \in Nat : a = p * RingWords + (a % RingWords)
  BY ModDef
<1>2. a % RingWords \in 0..(RingWords - 1)
  BY ModRange
<1> QED
  BY <1>1, <1>2, ModUnique

LEMMA ModAdd ==
    \A a, b \in Nat : ((a % RingWords) + b) % RingWords = (a + b) % RingWords
<1> TAKE a, b \in Nat
<1>0. RingWords \in Nat /\ RingWords > 0
  BY CaptureAssumption
<1>1. PICK p \in Nat : a = p * RingWords + (a % RingWords)
  BY ModDef
<1>2. PICK x \in 0..(RingWords-1) : x = a % RingWords
  BY ModRange
<1>3. PICK q \in Nat : x + b = q * RingWords + ((x + b) % RingWords)
  BY <1>2, ModDef
<1>4. PICK y \in 0..(RingWords-1) : y = (x + b) % RingWords
  BY <1>2, ModRange
<1>5. a + b = (p + q) * RingWords + y
  BY <1>0, <1>1, <1>2, <1>3, <1>4
<1>6. (a + b) % RingWords = y
  BY <1>5, ModIs
<1> QED
  BY <1>2, <1>4, <1>6

\* Positions less than a ring apart are different places in the ring.
LEMMA ModApart ==
    \A a, b \in Nat :
        a <= b /\ b < a + RingWords /\ a % RingWords = b % RingWords => a = b
<1> TAKE a, b \in Nat
<1> HAVE a <= b /\ b < a + RingWords /\ a % RingWords = b % RingWords
<1>0. RingWords \in Nat /\ RingWords > 0
  BY CaptureAssumption
<1>1. PICK p \in Nat : a = p * RingWords + (a % RingWords)
  BY ModDef
<1>2. PICK q \in Nat : b = q * RingWords + (b % RingWords)
  BY ModDef
<1>3. PICK x \in 0..(RingWords-1) : x = a % RingWords
  BY ModRange
<1>4. a = p * RingWords + x /\ b = q * RingWords + x
  BY <1>1, <1>2, <1>3
<1>5. q < p + 1
  BY <1>0, <1>4
<1>6. p < q + 1
  BY <1>0, <1>4
<1>7. p = q
  BY <1>5, <1>6
<1> QED
  BY <1>4, <1>7

\* The distance between two positions, from their places in the ring.
LEMMA ModDist ==
    \A a, b \in Nat :
        a <= b /\ b < a + RingWords =>
            ((b % RingWords) + RingWords - (a % RingWords)) % RingWords = b - a
<1> TAKE a, b \in Nat
<1> HAVE a <= b /\ b < a + RingWords
<1>0. RingWords \in Nat /\ RingWords > 0
  BY CaptureAssumption
<1>1. PICK p \in Nat : a = p * RingWords + (a % RingWords)
  BY ModDef
<1>2. PICK q \in Nat : b = q * RingWords + (b % RingWords)
  BY ModDef
<1>3. PICK x \in 0..(RingWords-1) : x = a % RingWords
  BY ModRange
<1>4. PICK y \in 0..(RingWords-1) : y = b % RingWords
  BY ModRange
<1>5. a = p * RingWords + x /\ b = q * RingWords + y
  BY <1>1, <1>2, <1>3, <1>4
<1>6. q = p \/ q = p + 1
  <2>1. q < p + 2
    BY <1>0, <1>5
  <2>2. p < q + 1
    BY <1>0, <1>5
  <2> QED
    BY <2>1, <2>2
<1>7. (y + RingWords) - x \in Nat /\ b - a \in 0..(RingWords - 1)
  BY <1>0
<1>8. \/ (y + RingWords) - x = 1 * RingWords + (b - a)
      \/ (y + RingWords) - x = 0 * RingWords + (b - a)
  <2>1. CASE q = p
    BY <1>0, <1>5, <2>1
  <2>2. CASE q = p + 1
    <3>1. q * RingWords = p * RingWords + RingWords
      BY <1>0, <2>2
    <3> QED
      BY <1>0, <1>5, <3>1
  <2> QED
    BY <1>6, <2>1, <2>2
<1>9. ((y + RingWords) - x) % RingWords = b - a
  BY <1>7, <1>8, ModIs
<1>10. y + RingWords - x = (y + RingWords) - x
  BY <1>0
<1>11. (y + RingWords - x) % RingWords = b - a
  BY <1>9, <1>10
<1> QED
  BY <1>3, <1>4, <1>11, Zenon

----------------------------------------------------------------------------
(* Induction over the natural numbers, and what AtIndices computes.        *)

\* Every nonempty set of natural numbers has a least element.
LEMMA LeastNat ==
    \A T \in SUBSET Nat : T # {} => \E x \in T : \A y \in T : x <= y
<1> TAKE T \in SUBSET Nat
<1> HAVE T # {}
<1>1. PICK x \in T : \A y \in T : ~(<<y, x>> \in OpToRel(<, Nat))
  BY NatLessThanWellFounded, WFMin
<1>2. \A y \in T : ~(y < x)
  BY <1>1 DEF OpToRel
<1>3. \A y \in T : x <= y
  <2> TAKE y \in T
  <2>1. x \in Nat /\ y \in Nat /\ ~(y < x)
    BY <1>2
  <2> QED
    BY <2>1
<1> QED
  BY <1>3

\* Induction, for a set of numbers instead of a predicate.
LEMMA SetInduction ==
    ASSUME NEW S, 0 \in S, \A n \in Nat : n \in S => n + 1 \in S
    PROVE  Nat \subseteq S
<1> DEFINE T == Nat \ S
<1>1. SUFFICES ASSUME T # {} PROVE FALSE
  OBVIOUS
<1>2. PICK x \in T : \A y \in T : x <= y
  BY <1>1, LeastNat
<1>3. x # 0 /\ x - 1 \in Nat /\ x - 1 \notin T
  BY <1>2
<1> QED
  BY <1>2, <1>3

LEMMA AtIndicesType ==
    ASSUME NEW T, NEW s \in Seq(T), NEW I
    PROVE  AtIndices(s, I) \in Seq(T)
<1> DEFINE D == 0..Len(s)
           Step(g, i) == IF i = 0 THEN <<>>
                         ELSE IF i \in I THEN Append(g[i - 1], s[i])
                         ELSE g[i - 1]
           Part(n) == \E g \in [0..n -> Seq(T)] : \A i \in 0..n : g[i] = Step(g, i)
           Ok == { n \in Nat : n <= Len(s) => Part(n) }
           F == CHOOSE f : f = [i \in D |-> Step(f, i)]
<1>0. Len(s) \in Nat /\ \A i \in 1..Len(s) : s[i] \in T
  OBVIOUS
<1>1. 0 \in Ok
  <2>1. <<>> \in Seq(T)
    OBVIOUS
  <2>2. PICK g : g = [i \in 0..0 |-> <<>>]
    OBVIOUS
  <2>3. g \in [0..0 -> Seq(T)] /\ \A i \in 0..0 : g[i] = Step(g, i)
    BY <2>1, <2>2
  <2> QED
    BY <2>3
<1>2. ASSUME NEW n \in Nat, n \in Ok
      PROVE  n + 1 \in Ok
  <2> SUFFICES ASSUME n + 1 <= Len(s)
               PROVE  \E g \in [0..(n+1) -> Seq(T)] : \A i \in 0..(n+1) : g[i] = Step(g, i)
    OBVIOUS
  <2>1. PICK g \in [0..n -> Seq(T)] : \A i \in 0..n : g[i] = Step(g, i)
    <3>1. n <= Len(s)
      BY <1>0
    <3>2. n \in Ok => Part(n)
      <4> HIDE DEF Part
      <4> QED
        BY <3>1
    <3> QED
      BY <1>2, <3>2
  <2>2. PICK v : v = IF n + 1 \in I THEN Append(g[n], s[n + 1]) ELSE g[n]
    OBVIOUS
  <2>3. v \in Seq(T)
    <3>1. g[n] \in Seq(T) /\ s[n + 1] \in T
      BY <1>0, <2>1
    <3>2. Append(g[n], s[n + 1]) \in Seq(T)
      BY <3>1
    <3> QED
      BY <2>2, <3>1, <3>2
  <2>4. PICK h : h = [i \in 0..(n+1) |-> IF i = n + 1 THEN v ELSE g[i]]
    OBVIOUS
  <2>5. h \in [0..(n+1) -> Seq(T)]
    BY <2>1, <2>3, <2>4
  <2>6. ASSUME NEW i \in 0..(n+1)
        PROVE  h[i] = Step(h, i)
    <3>1. CASE i = n + 1
      <4>1. h[i] = v /\ i # 0 /\ i - 1 = n /\ h[n] = g[n]
        BY <2>4, <3>1
      <4> QED
        BY <2>2, <3>1, <4>1
    <3>2. CASE i # n + 1
      <4>1. i \in 0..n /\ h[i] = g[i] /\ (i # 0 => h[i - 1] = g[i - 1])
        BY <2>4, <3>2
      <4>2. g[i] = Step(g, i)
        BY <2>1, <4>1
      <4> QED
        BY <4>1, <4>2
    <3> QED
      BY <3>1, <3>2
  <2> QED
    BY <2>5, <2>6
<1>3. Nat \subseteq Ok
  <2> HIDE DEF Ok
  <2> QED
    BY <1>1, <1>2, SetInduction
<1>4. PICK g \in [D -> Seq(T)] : \A i \in D : g[i] = Step(g, i)
  <2>1. Len(s) \in Ok => Part(Len(s))
    <3> HIDE DEF Part
    <3> QED
      BY <1>0
  <2> QED
    BY <1>0, <1>3, <2>1
<1>5. g = [i \in D |-> Step(g, i)]
  BY <1>4
<1>6. F = [i \in D |-> Step(F, i)]
  <2> HIDE DEF Step, D
  <2> QED
    BY <1>5
<1>7. ASSUME NEW n \in Nat
      PROVE  n <= Len(s) => F[n] = g[n]
  <2> HIDE DEF F
  <2> DEFINE Same == { k \in Nat : k <= Len(s) => F[k] = g[k] }
  <2>1. 0 \in Same
    BY <1>0, <1>4, <1>6
  <2>2. ASSUME NEW k \in Nat, k \in Same
        PROVE  k + 1 \in Same
    <3>1. k + 1 <= Len(s) => /\ k + 1 \in D /\ k + 1 # 0 /\ (k + 1) - 1 = k /\ F[k] = g[k]
      BY <1>0, <2>2
    <3>2. k + 1 \in D => F[k + 1] = Step(F, k + 1) /\ g[k + 1] = Step(g, k + 1)
      <4> HIDE DEF Step
      <4> QED
        BY <1>4, <1>6
    <3> QED
      BY <3>1, <3>2
  <2>3. Nat \subseteq Same
    <3> HIDE DEF Same
    <3> QED
      BY <2>1, <2>2, SetInduction
  <2> QED
    BY <2>3
<1>8. F[Len(s)] \in Seq(T)
  <2> HIDE DEF F
  <2> QED
    BY <1>0, <1>4, <1>7
<1> QED
  BY <1>8 DEF AtIndices

----------------------------------------------------------------------------
(* Records in a ring.                                                      *)

LEMMA Sizes ==
    ASSUME Typed, NEW s \in Shape
    PROVE  /\ Size(s) \in Nat /\ Size(s) >= 3
           /\ s.type \in {"sample", "other"}
           /\ s.type = "sample" =>
                /\ s.nr \in Nat /\ s.regs \in {1, 3} /\ s.null \in BOOLEAN
                /\ Size(s) = 5 + s.nr * EntryWords(lbr) + s.regs
<1>1. CASE s.type = "sample"
  <2>1. s.nr \in Nat /\ s.regs \in {1, 3} /\ s.null \in BOOLEAN
    BY <1>1, CaptureAssumption DEF Shape
  <2>2. s.nr * EntryWords(lbr) \in Nat
    BY <2>1 DEF EntryWords
  <2>3. Size(s) = 5 + s.nr * EntryWords(lbr) + s.regs
    BY <1>1 DEF Size
  <2>4. ASSUME NEW k \in Nat, NEW g \in {1, 3}
        PROVE  5 + k + g \in Nat /\ 5 + k + g >= 3
    OBVIOUS
  <2>5. Size(s) \in Nat /\ Size(s) >= 3
    BY <2>1, <2>2, <2>3, <2>4
  <2> QED
    BY <1>1, <2>1, <2>3, <2>5
<1>2. CASE s.type = "other"
  BY <1>2 DEF Size
<1> QED
  BY <1>1, <1>2 DEF Shape

LEMMA ShapeOf ==
    ASSUME Typed, NEW r \in Recorded
    PROVE  r \in DOMAIN shape /\ shape[r] \in Shape /\ r \in Record
  BY CaptureAssumption, ElementOfSeq DEF Typed, TypeOK, Recorded, Record

LEMMA WordType ==
    ASSUME Typed, NEW c \in Cpu, NEW p \in Nat
    PROVE  /\ p % RingWords \in Pos
           /\ Word(c, p) \in (0..MaxRecords) \X (0..RingWords)
<1>1. p % RingWords \in Pos
  BY ModRange DEF Pos
<1> QED
  BY <1>1 DEF Typed, TypeOK, Word

LEMMA WholeFacts ==
    ASSUME Typed, NEW c \in Cpu, NEW p \in Nat, Whole(c, p)
    PROVE  /\ Word(c, p)[1] \in Recorded /\ Word(c, p)[2] = 0
           /\ Word(c, p) = <<Word(c, p)[1], 0>>
           /\ SizeAt(c, p) \in Nat /\ SizeAt(c, p) >= 3
           /\ p + SizeAt(c, p) <= data_head[c]
<1>1. Word(c, p)[1] \in Recorded /\ p + SizeAt(c, p) <= data_head[c]
  BY DEF Whole
<1>2. SizeAt(c, p) \in Nat /\ SizeAt(c, p) >= 3
  BY <1>1, ShapeOf, Sizes DEF SizeAt
<1>3. 0 \in 0..(SizeAt(c, p) - 1) /\ p + 0 = p
  BY <1>2
<1>4. Word(c, p) = <<Word(c, p)[1], 0>>
  BY <1>3 DEF Whole
<1>5. Word(c, p)[2] = 0
  BY <1>4
<1> QED
  BY <1>1, <1>2, <1>4, <1>5

\* What a position inside a whole record holds.
LEMMA WholeWord ==
    ASSUME Typed, NEW c \in Cpu, NEW q \in Nat, Whole(c, q), NEW p \in Nat,
           q <= p, p < q + SizeAt(c, q)
    PROVE  /\ Word(c, p) = <<Word(c, q)[1], p - q>>
           /\ Word(c, p)[1] = Word(c, q)[1] /\ Word(c, p)[2] = p - q
<1>1. SizeAt(c, q) \in Nat
  BY WholeFacts
<1>2. p - q \in 0..(SizeAt(c, q) - 1) /\ q + (p - q) = p
  BY <1>1
<1>3. Word(c, p) = <<Word(c, q)[1], p - q>>
  BY <1>2 DEF Whole
<1> QED
  BY <1>3

\* A word with number 0 starts a whole record.
LEMMA StartsWhole ==
    ASSUME Typed, NEW c \in Cpu, Layout(c),
           NEW p \in data_tail[c]..(data_head[c] - 1), Word(c, p)[2] = 0
    PROVE  Whole(c, p)
<1>0. data_tail[c] \in Nat /\ data_head[c] \in Nat /\ p \in Nat
  BY DEF Typed, TypeOK
<1>1. PICK q \in data_tail[c]..p : Whole(c, q) /\ p < q + SizeAt(c, q)
  BY DEF Layout
<1>2. q \in Nat /\ q <= p
  BY <1>0
<1>3. Word(c, p)[2] = p - q
  BY <1>0, <1>1, <1>2, WholeWord
<1>4. p = q
  BY <1>0, <1>2, <1>3
<1> QED
  BY <1>1, <1>4

\* After a whole record there is another one, or data_head.
LEMMA NextBoundary ==
    ASSUME Typed, NEW c \in Cpu, Layout(c), NEW p \in Nat, data_tail[c] <= p,
           Whole(c, p)
    PROVE  Boundary(c, p + SizeAt(c, p))
<1>0. data_tail[c] \in Nat /\ data_head[c] \in Nat
  BY DEF Typed, TypeOK
<1>1. /\ SizeAt(c, p) \in Nat /\ SizeAt(c, p) >= 3
      /\ p + SizeAt(c, p) <= data_head[c]
  BY WholeFacts
<1>2. PICK n \in Nat : n = SizeAt(c, p)
  BY <1>1
<1>3. SUFFICES ASSUME p + n # data_head[c]
               PROVE  Word(c, p + n)[2] = 0
  BY <1>2 DEF Boundary
<1>4. p + n \in data_tail[c]..(data_head[c] - 1) /\ p + n \in Nat /\ (p + n) - 1 \in Nat
  BY <1>0, <1>1, <1>2, <1>3
<1>5. PICK q \in data_tail[c]..(p + n) : Whole(c, q) /\ p + n < q + SizeAt(c, q)
  BY <1>4 DEF Layout
<1>6. q \in Nat /\ q <= p + n /\ SizeAt(c, q) \in Nat
  BY <1>0, <1>4, <1>5, WholeFacts
<1>7. SUFFICES ASSUME q # p + n
               PROVE  FALSE
  <2>1. CASE q = p + n
    BY <1>5, <1>6, <2>1, WholeFacts
  <2> QED
    BY <1>7, <2>1
<1>8. q <= (p + n) - 1 /\ (p + n) - 1 < q + SizeAt(c, q)
  BY <1>5, <1>6, <1>7
<1>9. /\ Word(c, (p + n) - 1)[1] = Word(c, q)[1]
      /\ Word(c, (p + n) - 1)[2] = ((p + n) - 1) - q
  BY <1>4, <1>5, <1>6, <1>8, WholeWord
<1>10. /\ Word(c, (p + n) - 1)[1] = Word(c, p)[1]
       /\ Word(c, (p + n) - 1)[2] = ((p + n) - 1) - p
  <2>1. p <= (p + n) - 1 /\ (p + n) - 1 < p + SizeAt(c, p)
    BY <1>1, <1>2
  <2> QED
    BY <1>4, <2>1, WholeWord
<1>11. SizeAt(c, q) = n
  BY <1>2, <1>9, <1>10 DEF SizeAt
<1>12. q = p
  BY <1>6, <1>9, <1>10
<1> QED
  BY <1>5, <1>11, <1>12

\* A boundary is not inside a record.
LEMMA BoundaryOutside ==
    ASSUME Typed, NEW c \in Cpu, NEW p \in Nat, Whole(c, p), NEW h \in Nat,
           Boundary(c, h), p < h
    PROVE  p + SizeAt(c, p) <= h
<1>0. data_head[c] \in Nat
  BY DEF Typed, TypeOK
<1>1. SizeAt(c, p) \in Nat /\ p + SizeAt(c, p) <= data_head[c]
  BY WholeFacts
<1>2. SUFFICES ASSUME h < p + SizeAt(c, p)
               PROVE  FALSE
  BY <1>1
<1>3. Word(c, h)[2] = h - p
  BY <1>2, WholeWord
<1> QED
  BY <1>0, <1>1, <1>2, <1>3 DEF Boundary

----------------------------------------------------------------------------
(* The reader in the ring it consumes.                                     *)

LEMMA Numbers ==
    ASSUME Typed, NEW c \in Cpu
    PROVE  /\ RingWords \in Nat /\ RingWords > 0
           /\ data_tail[c] \in Nat /\ data_head[c] \in Nat /\ ReadPos(c) \in Nat
           /\ cpu \in Cpu /\ cur \in Pos /\ cur \in Nat /\ head \in Nat
<1>1. /\ RingWords \in Nat /\ RingWords > 0
      /\ data_tail[c] \in Nat /\ data_head[c] \in Nat
      /\ cpu \in Cpu /\ cur \in Pos /\ cur \in Nat /\ head \in Nat
  BY CaptureAssumption DEF Typed, TypeOK, Pos
<1>2. PICK x \in 0..(RingWords - 1) : x = data_tail[c] % RingWords
  BY <1>1, ModRange
<1>3. cur + RingWords - x \in Nat
  BY <1>1
<1>4. (cur + RingWords - x) % RingWords \in Nat
  BY <1>1, <1>3, ModRange
<1>5. ReadPos(c) \in Nat
  BY <1>1, <1>2, <1>4 DEF ReadPos
<1> QED
  BY <1>1, <1>5

\* What is known of the record at the reader's position a, if there is one.
AtStart(a) ==
    /\ a \in Nat /\ data_tail[cpu] <= a /\ a < head /\ cpu \in Cpu
    /\ ring[cpu][cur] = Word(cpu, a) /\ Whole(cpu, a)
    /\ Word(cpu, a)[1] \in Recorded
    /\ HdrSize = SizeAt(cpu, a) /\ HdrSize \in Nat /\ HdrSize >= 3
    /\ a + HdrSize <= head /\ Boundary(cpu, a + HdrSize)
    /\ Advance = (a + HdrSize) % RingWords
    /\ HdrSize <= RingWords /\ cur = a % RingWords

LEMMA BeforeHead ==
    ASSUME Typed, Opened, RingInv, pc = "consume", ReadPos(cpu) # head
    PROVE  AtStart(ReadPos(cpu)) /\ More
<1>0. /\ RingWords \in Nat /\ RingWords > 0 /\ cpu \in Cpu
      /\ data_tail[cpu] \in Nat /\ data_head[cpu] \in Nat /\ ReadPos(cpu) \in Nat
      /\ cur \in Nat /\ head \in Nat
  BY Numbers DEF Typed, TypeOK
<1>1. PICK a \in Nat : a = ReadPos(cpu)
  BY <1>0
<1>2. /\ RingOK(cpu, a) /\ cur = a % RingWords
      /\ head \in a..data_head[cpu] /\ Boundary(cpu, head)
  BY <1>0, <1>1 DEF Opened, RingInv, Reading
<1>3. /\ Layout(cpu) /\ Boundary(cpu, a) /\ data_tail[cpu] <= a
      /\ data_head[cpu] < data_tail[cpu] + RingWords
  BY <1>2 DEF RingOK, Layout
<1>4. a < head /\ head <= data_head[cpu] /\ a \in data_tail[cpu]..(data_head[cpu] - 1)
  <2>1. head # a
    BY <1>1
  <2>2. PICK t \in Nat, d \in Nat : t = data_tail[cpu] /\ d = data_head[cpu]
    BY <1>0
  <2>3. head \in a..d /\ t <= a
    BY <1>2, <1>3, <2>2
  <2>4. a < head /\ head <= d /\ a \in t..(d - 1)
    BY <1>0, <2>1, <2>3
  <2> QED
    BY <2>2, <2>4
<1>5. Word(cpu, a)[2] = 0
  BY <1>0, <1>3, <1>4 DEF Boundary
<1>6. Whole(cpu, a)
  BY <1>0, <1>3, <1>4, <1>5, StartsWhole
<1>7. ring[cpu][cur] = Word(cpu, a)
  BY <1>2 DEF Word
<1>8. /\ Word(cpu, a)[1] \in Recorded /\ SizeAt(cpu, a) \in Nat /\ SizeAt(cpu, a) >= 3
      /\ Word(cpu, a) = <<Word(cpu, a)[1], 0>>
  BY <1>0, <1>6, WholeFacts
<1>9. HdrSize = SizeAt(cpu, a)
  <2>1. Word(cpu, a)[1] # 0
    BY <1>8 DEF Recorded
  <2>2. Word(cpu, a) # Zero
    BY <1>8, <2>1 DEF Zero
  <2> QED
    BY <1>5, <1>7, <2>2 DEF HdrSize, SizeAt
<1>10. a + HdrSize <= head
  BY <1>0, <1>2, <1>4, <1>6, <1>9, BoundaryOutside
<1>11. Boundary(cpu, a + HdrSize)
  BY <1>0, <1>3, <1>6, <1>9, NextBoundary
<1>12. Advance = (a + HdrSize) % RingWords
  <2>1. PICK n \in Nat : n = HdrSize
    BY <1>8, <1>9
  <2>2. ((a % RingWords) + n) % RingWords = (a + n) % RingWords
    BY ModAdd
  <2> QED
    BY <1>2, <2>1, <2>2 DEF Advance
<1>13. HdrSize <= RingWords
  <2>1. PICK n \in Nat, d \in Nat, t \in Nat :
           n = HdrSize /\ d = data_head[cpu] /\ t = data_tail[cpu]
    BY <1>0, <1>8, <1>9
  <2>2. a + n <= head /\ head <= d /\ d < t + RingWords /\ t <= a
    BY <1>3, <1>4, <1>10, <2>1
  <2> QED
    BY <1>0, <2>1, <2>2
<1>14. More
  <2>1. a <= head /\ head < a + RingWords
    BY <1>0, <1>3, <1>4
  <2>2. a % RingWords # head % RingWords
    BY <1>0, <1>4, <2>1, ModApart
  <2> QED
    BY <1>2, <1>8, <1>9, <2>2 DEF More
<1> QED
  BY <1>0, <1>1, <1>3, <1>4, <1>6, <1>7, <1>8, <1>9, <1>10, <1>11, <1>12, <1>13,
     <1>14, <1>2
  DEF AtStart

LEMMA AtRecord ==
    ASSUME Typed, Opened, RingInv, pc = "consume", More
    PROVE  AtStart(ReadPos(cpu))
<1>1. ReadPos(cpu) # head
  <2> SUFFICES ASSUME ReadPos(cpu) = head
               PROVE  FALSE
    OBVIOUS
  <2>1. cur = ReadPos(cpu) % RingWords
    BY DEF RingInv, Reading
  <2> QED
    BY <2>1 DEF More
<1> QED
  BY <1>1, BeforeHead

LEMMA AtHead ==
    ASSUME Typed, Opened, RingInv, pc = "consume", ~More
    PROVE  ReadPos(cpu) = head
  BY BeforeHead

----------------------------------------------------------------------------
(* The actions.                                                            *)

LEMMA Steps ==
    ASSUME [Next]_vars
    PROVE  \/ UNCHANGED vars
           \/ initialize_manager \/ create_perf_event \/ LbrRefused \/ OpenFails
           \/ perf_add_sample_event_mmap \/ MapFails
           \/ perf_event_cleanup_manager \/ StartLoop
           \/ \E c \in Cpu, s \in Shape : KernelWrite(c, s)
           \/ RingEmpty \/ perf_event_consume_ring_buffer
           \/ SkipRecord \/ IgnoreRecord \/ dispatch_sample_event
           \/ PushSample \/ StoreTail \/ SymbolizerTakes
  BY DEF Next, perf_event_init_with_config, main_loop

----------------------------------------------------------------------------
(* Start-up: types, open events, nothing read.                             *)

LEMMA TouchType == ASSUME Touch PROVE crashed' \in BOOLEAN
  BY DEF Touch

\* Steps that only move the main thread and its events.
LEMMA ControlTyped ==
    ASSUME Typed,
           UNCHANGED <<use_lbr, ringVars, tailVars, sample, lostVars, queueVars>>,
           pc' \in {"start", "open", "map", "ready", "failed", "cleaned", "loop",
                    "consume"},
           pc # "push", cpu' \in Cpu, lbr' \in BOOLEAN, lbr' => lbr,
           manager' \in {"none", "live", "freed"}, crashed' \in BOOLEAN,
           fds' \subseteq Cpu, maps' \subseteq Cpu
    PROVE  Typed'
<1>1. UNCHANGED <<use_lbr, ring, data_head, written, shape, records>>
  BY DEF ringVars
<1>2. UNCHANGED <<data_tail, seen, head, cur, sample, skipped, dropped_nomem, taken, fifo>>
  BY DEF tailVars, lostVars, queueVars
<1>3. Recorded' = Recorded /\ Sample' = Sample
  BY <1>1 DEF Recorded, Sample
<1>4. (lbr => use_lbr)'
  BY <1>1 DEF Typed
<1>5. TypeOK'
  BY <1>1, <1>2 DEF Typed, TypeOK
<1>6. sample' = NoSample /\ pc' # "push"
  BY <1>2 DEF Typed
<1> QED
  BY <1>1, <1>2, <1>3, <1>4, <1>5, <1>6 DEF Typed

LEMMA InitStatic == Init => Typed /\ Opened /\ Unstarted
<1> SUFFICES ASSUME Init
             PROVE  Typed /\ Opened /\ Unstarted
  OBVIOUS
<1>1. 0 \in Cpu /\ 0 \in Pos /\ Zero \in (0..MaxRecords) \X (0..RingWords)
  BY CaptureAssumption DEF Cpu, Pos, Zero
<1>2. fifo = <<>> /\ Len(fifo) = 0 /\ Len(shape) = 0
  BY DEF Init, Q!FInit
<1>3. ring \in [Cpu -> [Pos -> (0..MaxRecords) \X (0..RingWords)]]
  BY <1>1 DEF Init
<1>4. /\ data_head \in [Cpu -> Nat] /\ data_tail \in [Cpu -> Nat]
      /\ records \in 0..MaxRecords /\ shape \in Seq(Shape)
      /\ head \in Nat /\ cur \in Pos
  BY <1>1, CaptureAssumption DEF Init
<1>5. TypeOK
  <2>1. /\ cpu \in Cpu /\ use_lbr \in BOOLEAN /\ lbr \in BOOLEAN
        /\ fds \subseteq Cpu /\ maps \subseteq Cpu
    BY <1>1 DEF Init
  <2>2. pc = "start" /\ manager = "none" /\ crashed \in BOOLEAN
    BY DEF Init
  <2>3. /\ fifo \in Seq([rec : Record, ips : Seq(Record \X (0..RingWords))])
        /\ Len(fifo) <= QueueCapacity
    BY <1>2, CaptureAssumption
  <2> QED
    BY <1>3, <1>4, <2>1, <2>2, <2>3 DEF TypeOK
<1>6. Typed
  <2>1. written \in [Cpu -> Seq(Recorded)] /\ seen \in [Cpu -> Seq(Recorded)]
    <3>1. <<>> \in Seq(Recorded)
      OBVIOUS
    <3> QED
      BY <3>1 DEF Init
  <2>2. fifo \in Seq(Sample)
    BY <1>2
  <2>3. lbr => use_lbr
    BY DEF Init
  <2> QED
    BY <1>2, <1>5, <2>1, <2>2, <2>3 DEF Init, Typed
<1>7. ManagerLifetime
  BY DEF Init, ManagerLifetime
<1>8. Opened
  BY <1>7 DEF Init, Opened
<1>9. Unstarted
  BY <1>2 DEF Init, Unstarted
<1> QED
  BY <1>6, <1>8, <1>9

LEMMA CpuRange ==
    /\ \A n \in Cpu : 0..(n - 1) \subseteq Cpu /\ 0..n \subseteq Cpu
    /\ \A n \in Cpu : n + 1 < NumCpus => n + 1 \in Cpu
    /\ \A n \in Cpu : ~(n + 1 < NumCpus) => 0..n = Cpu
    /\ 0 \in Cpu /\ Cpu = 0..(NumCpus - 1) /\ \A n \in Cpu : n \in Nat
    /\ \A n \in Cpu : 0..((n + 1) - 1) = 0..n /\ (0..(n - 1)) \union {n} = 0..n
    /\ {} = 0..(0 - 1)
  BY CaptureAssumption DEF Cpu

\* After cleanup_events nothing is open.
LEMMA CleanedUp ==
    ASSUME NEW n, cleanup_events(n), fds = 0..(n - 1), maps \subseteq 0..(n - 1)
    PROVE  fds' = {} /\ maps' = {} /\ manager' = "freed" /\ crashed' \in BOOLEAN
<1>1. fds' = {} /\ maps' = {} /\ manager' = "freed"
  BY DEF cleanup_events
<1>2. crashed' \in BOOLEAN
  BY TouchType DEF cleanup_events
<1> QED
  BY <1>1, <1>2

LEMMA UnstartedKept ==
    ASSUME Unstarted, pc \in StartUp,
           UNCHANGED <<fifo, skipped, dropped_nomem, taken, seen, data_tail>>
    PROVE  Unstarted'
  BY DEF Unstarted

LEMMA StaticInitialize ==
    ASSUME Static, initialize_manager
    PROVE  Static'
<1> USE DEF Static, tailVars, lostVars, queueVars
<1>1. /\ pc = "start" /\ fds' = {} /\ maps' = {} /\ UNCHANGED <<cpu, crashed>>
      /\ cpu = 0 /\ manager = "none"
      /\ \/ manager' = "live" /\ pc' = "open"
         \/ manager' = "none" /\ pc' = "failed"
  BY DEF initialize_manager, Opened
<1>2. UNCHANGED <<use_lbr, lbr>>
  BY DEF initialize_manager
<1>3. Typed'
  <2>1. UNCHANGED <<use_lbr, ringVars, tailVars, sample, lostVars, queueVars>>
    BY DEF initialize_manager
  <2>2. lbr' \in BOOLEAN /\ (lbr' => lbr)
    BY <1>2 DEF Typed, TypeOK
  <2>3. cpu' \in Cpu /\ crashed' \in BOOLEAN
    BY <1>1 DEF Typed, TypeOK
  <2> QED
    BY <1>1, <2>1, <2>2, <2>3, ControlTyped
<1>4. Opened'
  <2>1. ManagerLifetime'
    BY <1>1 DEF ManagerLifetime
  <2> QED
    BY <1>1, <2>1, CpuRange DEF Opened
<1>5. Unstarted'
  <2>1. UNCHANGED <<fifo, skipped, dropped_nomem, taken, seen, data_tail>>
    BY DEF initialize_manager
  <2> QED
    BY <1>1, <2>1, UnstartedKept DEF StartUp
<1> QED
  BY <1>3, <1>4, <1>5

LEMMA StaticCreate ==
    ASSUME Static, create_perf_event
    PROVE  Static'
<1> USE DEF Static, tailVars, lostVars, queueVars
<1>0. cpu \in Cpu
  BY DEF Typed, TypeOK
<1>1. /\ pc = "open" /\ pc' = "map" /\ fds' = 0..cpu /\ maps' = 0..(cpu - 1)
      /\ UNCHANGED <<cpu, manager, maps>>
  BY <1>0, CpuRange DEF create_perf_event, Opened
<1>2. UNCHANGED <<use_lbr, lbr>>
  BY DEF create_perf_event
<1>3. Typed'
  <2>1. UNCHANGED <<use_lbr, ringVars, tailVars, sample, lostVars, queueVars>>
    BY DEF create_perf_event
  <2>2. lbr' \in BOOLEAN /\ (lbr' => lbr)
    BY <1>2 DEF Typed, TypeOK
  <2>3. cpu' \in Cpu /\ manager' \in {"none", "live", "freed"}
    BY <1>1 DEF Typed, TypeOK
  <2>4. crashed' \in BOOLEAN
    BY TouchType DEF create_perf_event
  <2>5. fds' \subseteq Cpu /\ maps' \subseteq Cpu
    BY <1>0, <1>1, CpuRange
  <2> QED
    BY <1>1, <2>1, <2>2, <2>3, <2>4, <2>5, ControlTyped
<1>4. Opened'
  <2>1. use_lbr' = lbr' => manager' = "live"
    BY <1>1, <1>2 DEF Opened, ManagerLifetime
  <2>2. 0..(cpu - 1) \subseteq 0..cpu
    BY <1>0, CpuRange
  <2>3. ManagerLifetime'
    BY <1>1, <2>1, <2>2 DEF ManagerLifetime
  <2> QED
    BY <1>1, <2>3 DEF Opened
<1>5. Unstarted'
  <2>1. UNCHANGED <<fifo, skipped, dropped_nomem, taken, seen, data_tail>>
    BY DEF create_perf_event
  <2> QED
    BY <1>1, <2>1, UnstartedKept DEF StartUp
<1> QED
  BY <1>3, <1>4, <1>5

LEMMA StaticRefused ==
    ASSUME Static, LbrRefused
    PROVE  Static'
<1> USE DEF Static, tailVars, lostVars, queueVars
<1>0. cpu \in Cpu
  BY DEF Typed, TypeOK
<1>1. /\ pc = "open" /\ pc' = "open" /\ cpu' = 0
      /\ fds' = {} /\ maps' = {} /\ manager' = "freed"
  BY CleanedUp DEF LbrRefused, Opened
<1>2. lbr' = FALSE /\ use_lbr' = use_lbr /\ lbr
  BY DEF LbrRefused
<1>3. use_lbr' # lbr'
  <2>1. use_lbr
    BY <1>2 DEF Typed
  <2> QED
    BY <1>2, <2>1
<1>4. Typed'
  <2>1. UNCHANGED <<use_lbr, ringVars, tailVars, sample, lostVars, queueVars>>
    BY DEF LbrRefused
  <2>2. lbr' \in BOOLEAN /\ (lbr' => lbr)
    BY <1>2
  <2>3. crashed' \in BOOLEAN
    BY CleanedUp DEF LbrRefused, Opened
  <2>4. pc = "open" /\ pc' = "open" /\ cpu' \in Cpu /\ fds' \subseteq Cpu /\ maps' \subseteq Cpu
    BY <1>1, CpuRange
  <2> QED
    BY <1>1, <2>1, <2>2, <2>3, <2>4, ControlTyped
<1>5. Opened'
  <2>1. ManagerLifetime'
    BY <1>1, <1>3 DEF ManagerLifetime
  <2> QED
    BY <1>1, <2>1, CpuRange DEF Opened
<1>6. Unstarted'
  <2>1. UNCHANGED <<fifo, skipped, dropped_nomem, taken, seen, data_tail>>
    BY DEF LbrRefused
  <2> QED
    BY <1>1, <2>1, UnstartedKept DEF StartUp
<1> QED
  BY <1>4, <1>5, <1>6

\* The three steps that give everything back.
LEMMA StaticFails ==
    ASSUME Static, OpenFails \/ MapFails \/ perf_event_cleanup_manager
    PROVE  Static' /\ maps' = {}
<1> USE DEF Static, tailVars, lostVars, queueVars
<1>0. cpu \in Cpu /\ pc' \in {"failed", "cleaned"} /\ UNCHANGED <<cpu, lbr, use_lbr>>
  BY DEF Typed, TypeOK, OpenFails, MapFails, perf_event_cleanup_manager
<1>1. /\ pc \in {"open", "map", "ready"}
      /\ fds' = {} /\ maps' = {} /\ manager' = "freed" /\ crashed' \in BOOLEAN
  <2>1. CASE OpenFails
    BY <2>1, CleanedUp DEF OpenFails, Opened
  <2>2. CASE MapFails
    <3>1. fds = 0..((cpu + 1) - 1) /\ maps \subseteq 0..((cpu + 1) - 1)
      BY <1>0, <2>2, CpuRange DEF MapFails, Opened
    <3> QED
      BY <2>2, <3>1, CleanedUp DEF MapFails
  <2>3. CASE perf_event_cleanup_manager
    <3>1. fds = 0..(NumCpus - 1) /\ maps \subseteq 0..(NumCpus - 1)
      BY <2>3 DEF perf_event_cleanup_manager, Opened, Cpu
    <3> QED
      BY <2>3, <3>1, CleanedUp DEF perf_event_cleanup_manager
  <2> QED
    BY <2>1, <2>2, <2>3
<1>2. Typed'
  <2>1. UNCHANGED <<use_lbr, ringVars, tailVars, sample, lostVars, queueVars>>
    BY DEF OpenFails, MapFails, perf_event_cleanup_manager
  <2>2. lbr' \in BOOLEAN /\ (lbr' => lbr)
    BY <1>0 DEF Typed, TypeOK
  <2> QED
    BY <1>0, <1>1, <2>1, <2>2, ControlTyped
<1>3. Opened'
  BY <1>0, <1>1 DEF Opened, ManagerLifetime
<1>4. Unstarted'
  <2>1. UNCHANGED <<fifo, skipped, dropped_nomem, taken, seen, data_tail>>
    BY DEF OpenFails, MapFails, perf_event_cleanup_manager
  <2> QED
    BY <1>1, <2>1, UnstartedKept DEF StartUp
<1> QED
  BY <1>1, <1>2, <1>3, <1>4

----------------------------------------------------------------------------
(* What parse_sample_data makes of a record.                               *)

\* The addresses of the first count frames of record r, n words apart.
FrameWords(r, count, n) == [j \in 1..count |-> <<r, 5 + n * (j - 1)>>]

LEMMA WordsOf ==
    ASSUME Typed, NEW a, AtStart(a)
    PROVE  /\ DOMAIN RecordWords = 1..HdrSize
           /\ \A k \in 1..HdrSize : RecordWords[k] = <<Word(cpu, a)[1], k - 1>>
<1>1. DOMAIN RecordWords = 1..HdrSize
  BY DEF RecordWords
<1>2. ASSUME NEW k \in 1..HdrSize
      PROVE  RecordWords[k] = <<Word(cpu, a)[1], k - 1>>
  <2>0. a \in Nat /\ HdrSize \in Nat /\ HdrSize = SizeAt(cpu, a) /\ Whole(cpu, a)
    BY DEF AtStart
  <2>1. PICK m \in Nat : m = k - 1 /\ m \in 0..(SizeAt(cpu, a) - 1)
    BY <2>0
  <2>2. RecordWords[k] = ring[cpu][(cur + k - 1) % RingWords]
    BY DEF RecordWords
  <2>3. cur \in Nat
    BY DEF Typed, TypeOK, Pos
  <2>4. cur + k - 1 = cur + m
    BY <2>0, <2>1, <2>3
  <2>5. (cur + m) % RingWords = (a + m) % RingWords
    BY <2>0, ModAdd DEF AtStart
  <2>6. RecordWords[k] = Word(cpu, a + m)
    BY <2>2, <2>4, <2>5 DEF Word
  <2>7. Word(cpu, a + m) = <<Word(cpu, a)[1], m>>
    BY <2>0, <2>1 DEF Whole
  <2> QED
    BY <2>1, <2>6, <2>7
<1> QED
  BY <1>1, <1>2

LEMMA Quotient ==
    ASSUME NEW n \in {1, 3}, NEW x \in Nat
    PROVE  /\ x \div n \in Nat
           /\ \A j \in 1..(x \div n) : n * (j - 1) + n <= x
           /\ \A k \in Nat : k * n <= x => k <= x \div n
<1>1. CASE n = 1
  <2>1. x \div 1 = x
    OBVIOUS
  <2> QED
    BY <1>1, <2>1
<1>2. CASE n = 3
  <2>1. PICK y \in Nat : y = x \div 3
    OBVIOUS
  <2>2. 3 * y <= x /\ x < 3 * y + 3
    BY <2>1
  <2>3. \A j \in 1..y : 3 * (j - 1) + 3 <= x
    BY <2>2
  <2>4. \A k \in Nat : k * 3 <= x => k <= y
    BY <2>2
  <2> QED
    BY <1>2, <2>1, <2>3, <2>4
<1> QED
  BY <1>1, <1>2

Taken(nr, size, n) == Least(Least(nr, (size - 5) \div n), MaxIps)

LEMMA TakenRange ==
    ASSUME NEW nr \in Nat, NEW n \in {1, 3}, NEW size \in Nat, size >= 5
    PROVE  /\ Taken(nr, size, n) \in Nat
           /\ \A j \in 1..Taken(nr, size, n) : 5 + n * (j - 1) + n <= size
           /\ nr * n <= size - 5 => Taken(nr, size, n) = Least(nr, MaxIps)
<1>0. MaxIps \in Nat
  BY CaptureAssumption
<1>1. PICK x \in Nat : x = size - 5
  OBVIOUS
<1>2. /\ x \div n \in Nat
      /\ \A j \in 1..(x \div n) : n * (j - 1) + n <= x
      /\ nr * n <= x => nr <= x \div n
  BY Quotient
<1>3. PICK y \in Nat : y = x \div n
  BY <1>2
<1>4. Taken(nr, size, n) = Least(Least(nr, y), MaxIps)
  BY <1>1, <1>3 DEF Taken
<1>5. Taken(nr, size, n) \in Nat /\ Taken(nr, size, n) <= y
  BY <1>0, <1>4 DEF Least
<1>6. ASSUME NEW j \in 1..Taken(nr, size, n)
      PROVE  5 + n * (j - 1) + n <= size
  <2>1. j \in 1..y
    BY <1>5
  <2>2. n * (j - 1) + n <= x
    BY <1>2, <1>3, <2>1
  <2>3. PICK z \in Nat : z = n * (j - 1)
    BY <2>1
  <2> QED
    BY <1>1, <2>2, <2>3
<1>7. ASSUME nr * n <= size - 5
      PROVE  Taken(nr, size, n) = Least(nr, MaxIps)
  <2>1. nr <= y
    BY <1>1, <1>2, <1>3, <1>7
  <2>2. Least(nr, y) = nr
    BY <2>1 DEF Least
  <2> QED
    BY <1>4, <2>2
<1> QED
  BY <1>5, <1>6, <1>7

\* The stack of the sample at the reader's position a.
LEMMA Parsed ==
    ASSUME Typed, NEW a, AtStart(a),
           NEW r, r = Word(cpu, a)[1], shape[r].type = "sample"
    PROVE  \E count \in Nat :
              /\ parse_sample_data(RecordWords) =
                   IF use_lbr THEN NonZero(FrameWords(r, count, EntryWords(use_lbr)))
                   ELSE FrameWords(r, count, EntryWords(use_lbr))
              /\ \A j \in 1..count : 5 + EntryWords(use_lbr) * (j - 1) \in 0..RingWords
              /\ use_lbr = lbr => count = Least(shape[r].nr, MaxIps)
<1>0. /\ r \in Recorded /\ a \in Nat /\ cpu \in Cpu /\ HdrSize \in Nat /\ HdrSize >= 3
      /\ HdrSize = Size(shape[r]) /\ shape[r] \in Shape
      /\ a + HdrSize <= head /\ data_tail[cpu] <= a
  BY ShapeOf DEF AtStart, SizeAt
<1>1. /\ shape[r].nr \in Nat /\ shape[r].regs \in {1, 3}
      /\ HdrSize = 5 + shape[r].nr * EntryWords(lbr) + shape[r].regs
  BY <1>0, Sizes
<1>2. EntryWords(lbr) \in {1, 3} /\ EntryWords(use_lbr) \in {1, 3}
  BY DEF EntryWords
<1>3. PICK nr \in Nat, n \in {1, 3}, size \in Nat :
         nr = shape[r].nr /\ n = EntryWords(use_lbr) /\ size = HdrSize
  BY <1>0, <1>1, <1>2
<1>4. size >= 5 /\ (use_lbr = lbr => nr * n <= size - 5)
  <2>1. PICK g \in {1, 3}, m \in {1, 3} : g = shape[r].regs /\ m = EntryWords(lbr)
    BY <1>1, <1>2
  <2>2. nr * m \in Nat
    OBVIOUS
  <2>3. size = 5 + nr * m + g
    BY <1>1, <1>3, <2>1
  <2>4. size >= 5 /\ nr * m <= size - 5
    BY <2>2, <2>3
  <2>5. use_lbr = lbr => m = n
    BY <1>3, <2>1
  <2> QED
    BY <2>4, <2>5
<1>5. PICK count \in Nat : count = Taken(nr, size, n)
  BY <1>4, TakenRange
<1>6. /\ \A j \in 1..count : 5 + n * (j - 1) + n <= size
      /\ use_lbr = lbr => count = Least(nr, MaxIps)
  BY <1>4, <1>5, TakenRange
<1>7. /\ DOMAIN RecordWords = 1..size
      /\ \A k \in 1..size : RecordWords[k] = <<r, k - 1>>
  BY <1>3, WordsOf
<1>8. Len(RecordWords) = size
  <2>1. RecordWords = [k \in 1..size |-> RecordWords[k]]
    BY <1>3, <1>7 DEF RecordWords
  <2> QED
    BY <1>7, <2>1
<1>9. RecordWords[5][2] = 4 /\ RecordWords[5][1] = r
  BY <1>4, <1>7
<1>10. ASSUME NEW j \in 1..count
       PROVE  /\ RecordWords[6 + n * (j - 1)] = <<r, 5 + n * (j - 1)>>
              /\ 5 + n * (j - 1) \in 0..size
  <2>1. PICK z \in Nat : z = n * (j - 1)
    BY <1>3
  <2>2. 5 + z + n <= size
    BY <1>6, <2>1
  <2>3. 6 + z \in 1..size /\ (6 + z) - 1 = 5 + z
    BY <2>2
  <2> QED
    BY <1>7, <2>1, <2>2, <2>3
<1>11. FrameWords(r, count, n) = [j \in 1..count |-> RecordWords[6 + n * (j - 1)]]
  BY <1>10 DEF FrameWords
<1>12. parse_sample_data(RecordWords) =
         IF use_lbr THEN NonZero(FrameWords(r, count, n)) ELSE FrameWords(r, count, n)
  <2>1. ~(Len(RecordWords) < 5)
    BY <1>4, <1>8
  <2>2. Least(Least(shape[RecordWords[5][1]].nr, (Len(RecordWords) - 5) \div EntryWords(use_lbr)), MaxIps)
          = count
    BY <1>3, <1>5, <1>8, <1>9 DEF Taken
  <2> QED
    BY <1>3, <1>9, <1>11, <2>1, <2>2 DEF parse_sample_data
<1>13. size <= RingWords /\ RingWords \in Nat
  BY <1>3, CaptureAssumption DEF AtStart
<1> QED
  BY <1>3, <1>6, <1>10, <1>12, <1>13

----------------------------------------------------------------------------
(* The main loop: types, open events.                                      *)

LEMMA SeqSubset == \A S, T : S \subseteq T => Seq(S) \subseteq Seq(T)
<1> SUFFICES ASSUME NEW S, NEW T, S \subseteq T, NEW s \in Seq(S)
             PROVE  s \in Seq(T)
  OBVIOUS
<1>1. Len(s) \in Nat /\ s \in [1..Len(s) -> S]
  BY LenProperties
<1>2. s \in [1..Len(s) -> T]
  BY <1>1
<1> QED
  BY <1>1, <1>2, SeqDef

\* A sample of a record that exists is one that TypeOK allows in the queue.
LEMMA FifoType ==
    ASSUME Typed
    PROVE  Seq(Sample) \subseteq Seq([rec : Record, ips : Seq(Record \X (0..RingWords))])
<1>1. Recorded \subseteq Record
  BY CaptureAssumption DEF Typed, TypeOK, Recorded, Record
<1>2. Sample \subseteq [rec : Record, ips : Seq(Record \X (0..RingWords))]
  BY <1>1 DEF Sample
<1> QED
  BY <1>2, SeqSubset

\* Steps of the main loop and of the symbolizer.
LEMMA LoopTyped ==
    ASSUME Typed, UNCHANGED <<initVars, crashed, ringVars>>,
           pc' \in {"ready", "loop", "consume", "push"}, cpu' \in Cpu,
           data_tail' \in [Cpu -> Nat], seen' \in [Cpu -> Seq(Recorded)],
           head' \in Nat, cur' \in Pos,
           skipped' \subseteq Recorded, dropped_nomem' \subseteq Recorded,
           taken' \subseteq Recorded,
           fifo' \in Seq(Sample), Len(fifo') <= QueueCapacity,
           pc' = "push" => sample' \in Sample,
           pc' # "push" => sample' = NoSample
    PROVE  Typed'
<1>1. UNCHANGED <<ring, data_head, written, shape, records, manager, fds, maps>>
  BY DEF ringVars, initVars
<1>2. UNCHANGED <<use_lbr, lbr, crashed>>
  BY DEF initVars
<1>3. Recorded' = Recorded /\ Sample' = Sample
  BY <1>1 DEF Recorded, Sample
<1>4. (lbr => use_lbr)' /\ lbr' \in BOOLEAN /\ use_lbr' \in BOOLEAN /\ crashed' \in BOOLEAN
  BY <1>2 DEF Typed, TypeOK
<1>5. fifo' \in Seq([rec : Record, ips : Seq(Record \X (0..RingWords))])
  BY FifoType
<1>6. TypeOK'
  BY <1>1, <1>4, <1>5 DEF Typed, TypeOK
<1>7. /\ Len(shape') = records' /\ written' \in [Cpu -> Seq(Recorded)]
  BY <1>1 DEF Typed
<1> QED
  BY <1>3, <1>4, <1>6, <1>7 DEF Typed

LEMMA LoopOpened ==
    ASSUME Opened, UNCHANGED initVars, pc \in {"ready", "loop", "consume", "push"},
           pc' \in {"ready", "loop", "consume", "push"}
    PROVE  Opened'
<1>1. UNCHANGED <<manager, fds, maps>>
  BY DEF initVars
<1>2. use_lbr' = lbr' => use_lbr = lbr
  BY DEF initVars
<1>3. fds' = Cpu /\ maps' = Cpu
  BY <1>1 DEF Opened
<1>4. use_lbr' = lbr' => manager' = "live"
  BY <1>1, <1>2 DEF Opened, ManagerLifetime
<1> QED
  BY <1>3, <1>4 DEF Opened, ManagerLifetime

LEMMA NextCpuType == ASSUME Typed, NextCpu PROVE cpu' \in Cpu
<1>1. cpu \in Nat /\ NumCpus \in Nat \ {0}
  BY CaptureAssumption DEF Typed, TypeOK, Cpu
<1>2. PICK n \in Nat : n = cpu + 1
  BY <1>1
<1>3. n % NumCpus \in 0..(NumCpus - 1)
  BY <1>1
<1> QED
  BY <1>2, <1>3 DEF NextCpu, Cpu

LEMMA StaticMmap ==
    ASSUME Static, perf_add_sample_event_mmap
    PROVE  Static'
<1> USE DEF Static
<1>0. cpu \in Cpu
  BY DEF Typed, TypeOK
<1>1. /\ pc = "map" /\ fds' = 0..cpu /\ maps' = 0..cpu
      /\ UNCHANGED <<manager, shape, records, head, cur, sample, skipped, dropped_nomem,
                     taken, fifo>>
  BY <1>0, CpuRange DEF perf_add_sample_event_mmap, Opened, lostVars, queueVars
<1>2. UNCHANGED <<use_lbr, lbr>>
  BY DEF perf_add_sample_event_mmap
<1>3. \/ cpu + 1 < NumCpus /\ cpu' = cpu + 1 /\ pc' = "open"
      \/ ~(cpu + 1 < NumCpus) /\ cpu' = 0 /\ pc' = "ready"
  BY DEF perf_add_sample_event_mmap
<1>4. crashed' \in BOOLEAN
  BY TouchType DEF perf_add_sample_event_mmap
<1>5. /\ ring' \in [Cpu -> [Pos -> (0..MaxRecords) \X (0..RingWords)]]
      /\ data_head' \in [Cpu -> Nat] /\ data_tail' \in [Cpu -> Nat]
  <2>1. Zero \in (0..MaxRecords) \X (0..RingWords)
    BY CaptureAssumption DEF Zero
  <2> QED
    BY <2>1 DEF perf_add_sample_event_mmap, Typed, TypeOK
<1>6. /\ written' \in [Cpu -> Seq(Recorded)] /\ seen' \in [Cpu -> Seq(Recorded)]
  <2>1. <<>> \in Seq(Recorded)
    OBVIOUS
  <2> QED
    BY <2>1 DEF perf_add_sample_event_mmap, Typed
<1>7. Typed'
  <2>1. (lbr => use_lbr)' /\ lbr' \in BOOLEAN /\ use_lbr' \in BOOLEAN
    BY <1>2 DEF Typed, TypeOK
  <2>2. cpu' \in Cpu /\ fds' \subseteq Cpu /\ maps' \subseteq Cpu
    BY <1>0, <1>1, <1>3, CpuRange
  <2>3. pc' \in {"open", "ready"}
    BY <1>3
  <2>4. TypeOK'
    BY <1>1, <1>4, <1>5, <2>1, <2>2, <2>3 DEF Typed, TypeOK
  <2>5. Recorded' = Recorded /\ Sample' = Sample
    BY <1>1 DEF Recorded, Sample
  <2>6. sample' = NoSample /\ pc' # "push"
    BY <1>1, <2>3 DEF Typed
  <2> QED
    BY <1>1, <1>6, <2>1, <2>4, <2>5, <2>6 DEF Typed
<1>8. Opened'
  <2>1. use_lbr' = lbr' => manager' = "live"
    BY <1>1, <1>2 DEF Opened, ManagerLifetime
  <2>2. ManagerLifetime'
    BY <1>1, <1>3, <2>1 DEF ManagerLifetime
  <2>3. CASE cpu + 1 < NumCpus /\ cpu' = cpu + 1 /\ pc' = "open"
    BY <1>0, <1>1, <2>2, <2>3, CpuRange DEF Opened
  <2>4. CASE ~(cpu + 1 < NumCpus) /\ cpu' = 0 /\ pc' = "ready"
    BY <1>0, <1>1, <2>2, <2>4, CpuRange DEF Opened
  <2> QED
    BY <1>3, <2>3, <2>4
<1>9. Unstarted'
  <2>1. \A c \in Cpu : seen'[c] = <<>> /\ data_tail'[c] = 0
    BY <1>1 DEF perf_add_sample_event_mmap, Unstarted, StartUp, Typed, TypeOK
  <2> QED
    BY <1>1, <2>1 DEF Unstarted, StartUp
<1> QED
  BY <1>7, <1>8, <1>9

\* How far position p of a ring is behind position h.
Behind(p, h) == (p + RingWords - (h % RingWords)) % RingWords

LEMMA BehindType == \A p \in Pos, h \in Nat : Behind(p, h) \in 0..(RingWords - 1)
<1> TAKE p \in Pos, h \in Nat
<1>0. RingWords \in Nat /\ p \in Nat
  BY CaptureAssumption DEF Pos
<1>1. PICK x \in 0..(RingWords - 1) : x = h % RingWords
  BY ModRange
<1>2. p + RingWords - x \in Nat
  BY <1>0, <1>1
<1> QED
  BY <1>1, <1>2, ModRange DEF Behind

LEMMA WriteEffect ==
    ASSUME NEW c \in Cpu, NEW s \in Shape, KernelWrite(c, s), Typed
    PROVE  /\ c \in maps /\ records \in Nat /\ records < MaxRecords
           /\ records' = records + 1
           /\ data_head[c] + Size(s) - data_tail[c] < RingWords
           /\ data_head' = [data_head EXCEPT ![c] = @ + Size(s)]
           /\ \A d \in Cpu : d # c => ring'[d] = ring[d]
           /\ \A p \in Pos : ring'[c][p] = IF Behind(p, data_head[c]) < Size(s)
                                           THEN <<records + 1, Behind(p, data_head[c])>>
                                           ELSE ring[c][p]
           /\ ring' \in [Cpu -> [Pos -> (0..MaxRecords) \X (0..RingWords)]]
           /\ written' = [written EXCEPT ![c] = Append(@, records + 1)]
           /\ shape' \in Seq(Shape) /\ Len(shape') = records + 1
           /\ shape'[records + 1] = s /\ \A r \in Recorded : shape'[r] = shape[r]
<1>0. records \in Nat /\ shape \in Seq(Shape) /\ Len(shape) = records /\ RingWords \in Nat
  BY CaptureAssumption DEF Typed, TypeOK
<1>1. /\ c \in maps /\ records < MaxRecords /\ records' = records + 1
      /\ data_head[c] + Size(s) - data_tail[c] < RingWords
      /\ data_head' = [data_head EXCEPT ![c] = @ + Size(s)]
      /\ written' = [written EXCEPT ![c] = Append(@, records + 1)]
      /\ shape' = Append(shape, s)
  BY DEF KernelWrite
<1>2. ring' = [ring EXCEPT ![c] =
                 [p \in Pos |-> IF Behind(p, data_head[c]) < Size(s)
                                THEN <<records + 1, Behind(p, data_head[c])>> ELSE @[p]]]
  BY DEF KernelWrite, Behind
<1>3. \A d \in Cpu : d # c => ring'[d] = ring[d]
  BY <1>2 DEF Typed, TypeOK
<1>4. ring'[c] = [p \in Pos |-> IF Behind(p, data_head[c]) < Size(s)
                                THEN <<records + 1, Behind(p, data_head[c])>> ELSE ring[c][p]]
  BY <1>2 DEF Typed, TypeOK
<1>5. ASSUME NEW p \in Pos
      PROVE  ring'[c][p] \in (0..MaxRecords) \X (0..RingWords)
  <2>1. Behind(p, data_head[c]) \in 0..RingWords
    <3>1. data_head[c] \in Nat
      BY DEF Typed, TypeOK
    <3>2. Behind(p, data_head[c]) \in 0..(RingWords - 1)
      BY <3>1, BehindType
    <3> QED
      BY <1>0, <3>2
  <2>2. records + 1 \in 0..MaxRecords
    BY <1>0, <1>1, CaptureAssumption
  <2>3. ring[c][p] \in (0..MaxRecords) \X (0..RingWords)
    BY DEF Typed, TypeOK
  <2> QED
    BY <1>4, <2>1, <2>2, <2>3
<1>6. ring'[c] \in [Pos -> (0..MaxRecords) \X (0..RingWords)]
  BY <1>4, <1>5
<1>7. ring' \in [Cpu -> [Pos -> (0..MaxRecords) \X (0..RingWords)]]
  <2>1. ring' = [d \in Cpu |-> ring'[d]]
    BY <1>2 DEF Typed, TypeOK
  <2>2. \A d \in Cpu : ring'[d] \in [Pos -> (0..MaxRecords) \X (0..RingWords)]
    BY <1>3, <1>6 DEF Typed, TypeOK
  <2> QED
    BY <2>1, <2>2
<1>8. /\ shape' \in Seq(Shape) /\ Len(shape') = records + 1
      /\ shape'[records + 1] = s /\ \A r \in Recorded : shape'[r] = shape[r]
  BY <1>0, <1>1, AppendProperties DEF Recorded
<1> QED
  BY <1>0, <1>1, <1>3, <1>4, <1>7, <1>8

LEMMA StaticWrite ==
    ASSUME Static, NEW c \in Cpu, NEW s \in Shape, KernelWrite(c, s)
    PROVE  Static'
<1> USE DEF Static
<1>0. /\ UNCHANGED <<pc, cpu, manager, fds, maps, data_tail, seen, head, cur, sample>>
      /\ UNCHANGED <<skipped, dropped_nomem, taken, fifo>>
  BY DEF KernelWrite, initVars, tailVars, lostVars, queueVars
<1>1. UNCHANGED <<use_lbr, lbr, crashed>>
  BY DEF KernelWrite, initVars
<1>2. records \in Nat /\ records' = records + 1 /\ records < MaxRecords
  BY WriteEffect
<1>3. Recorded \subseteq Recorded' /\ records + 1 \in Recorded'
  BY <1>2 DEF Recorded
<1>4. Seq(Recorded) \subseteq Seq(Recorded')
  BY <1>3, SeqSubset
<1>5. Sample \subseteq Sample'
  BY <1>3 DEF Sample
<1>6. Seq(Sample) \subseteq Seq(Sample')
  BY <1>5, SeqSubset
<1>7. TypeOK'
  <2>1. use_lbr' \in BOOLEAN /\ lbr' \in BOOLEAN /\ crashed' \in BOOLEAN
    BY <1>1 DEF Typed, TypeOK
  <2>2. data_head' \in [Cpu -> Nat]
    <3>1. PICK n \in Nat : n = Size(s)
      BY Sizes
    <3>2. data_head' = [data_head EXCEPT ![c] = @ + n]
      BY <3>1, WriteEffect
    <3>3. data_head \in [Cpu -> Nat]
      BY DEF Typed, TypeOK
    <3> QED
      BY <3>2, <3>3
  <2>3. ring' \in [Cpu -> [Pos -> (0..MaxRecords) \X (0..RingWords)]] /\ shape' \in Seq(Shape)
    BY WriteEffect
  <2>4. records' \in 0..MaxRecords
    BY <1>2, CaptureAssumption
  <2> QED
    BY <1>0, <2>1, <2>2, <2>3, <2>4 DEF Typed, TypeOK
<1>8. written' \in [Cpu -> Seq(Recorded')]
  <2>1. written[c] \in Seq(Recorded')
    BY <1>4 DEF Typed
  <2>2. Append(written[c], records + 1) \in Seq(Recorded')
    BY <1>3, <2>1, AppendProperties
  <2>3. \A d \in Cpu : written[d] \in Seq(Recorded')
    BY <1>4 DEF Typed
  <2>4. written \in [Cpu -> Seq(Recorded')]
    BY <2>3 DEF Typed
  <2> QED
    BY <2>2, <2>4, WriteEffect
<1>9. seen' \in [Cpu -> Seq(Recorded')]
  BY <1>0, <1>4 DEF Typed
<1>10. Typed'
  <2>1. (lbr => use_lbr)'
    BY <1>1 DEF Typed
  <2>2. /\ skipped' \subseteq Recorded' /\ dropped_nomem' \subseteq Recorded'
        /\ taken' \subseteq Recorded' /\ fifo' \in Seq(Sample')
    BY <1>0, <1>3, <1>6 DEF Typed
  <2>3. (pc' = "push" => sample' \in Sample') /\ (pc' # "push" => sample' = NoSample)
    BY <1>0, <1>5 DEF Typed
  <2>4. Len(shape') = records'
    BY <1>2, WriteEffect
  <2> QED
    BY <1>7, <1>8, <1>9, <2>1, <2>2, <2>3, <2>4 DEF Typed
<1>11. Opened'
  <2>1. use_lbr' = lbr' => use_lbr = lbr
    BY <1>1
  <2> QED
    BY <1>0, <2>1 DEF Opened, ManagerLifetime
<1>12. Unstarted'
  BY <1>0 DEF Unstarted
<1> QED
  BY <1>10, <1>11, <1>12

\* The record that the reader passes.
LEMMA PassTyped ==
    ASSUME Typed, NEW a, AtStart(a), Pass
    PROVE  /\ data_tail' \in [Cpu -> Nat] /\ head' \in Nat /\ cur' \in Pos
           /\ seen' \in [Cpu -> Seq(Recorded)]
           /\ UNCHANGED <<data_tail, head>>
           /\ cur' = (a + HdrSize) % RingWords
           /\ ring[cpu][cur][1] = Word(cpu, a)[1] /\ Word(cpu, a)[1] \in Recorded
           /\ seen' = [seen EXCEPT ![cpu] = Append(@, Word(cpu, a)[1])]
<1>1. /\ cpu \in Cpu /\ ring[cpu][cur] = Word(cpu, a) /\ Word(cpu, a)[1] \in Recorded
      /\ a + HdrSize \in Nat /\ Advance = (a + HdrSize) % RingWords
  BY DEF AtStart
<1>2. data_tail' \in [Cpu -> Nat] /\ head' \in Nat /\ UNCHANGED <<data_tail, head>>
  BY DEF Pass, Typed, TypeOK
<1>3. cur' = (a + HdrSize) % RingWords
  BY <1>1 DEF Pass
<1>4. cur' \in Pos
  BY <1>1, <1>3, ModRange DEF Pos
<1>5. seen' = [seen EXCEPT ![cpu] = Append(@, Word(cpu, a)[1])]
  BY <1>1 DEF Pass
<1>6. Append(seen[cpu], Word(cpu, a)[1]) \in Seq(Recorded)
  BY <1>1, AppendProperties DEF Typed
<1>7. seen' \in [Cpu -> Seq(Recorded)]
  BY <1>1, <1>5, <1>6 DEF Typed
<1> QED
  BY <1>1, <1>2, <1>3, <1>4, <1>5, <1>7

\* Every type of a sample's stack.
LEMMA ParsedType ==
    ASSUME Typed, NEW a, AtStart(a), shape[Word(cpu, a)[1]].type = "sample"
    PROVE  [rec |-> Word(cpu, a)[1], ips |-> parse_sample_data(RecordWords)] \in Sample
<1>1. PICK r \in Recorded : r = Word(cpu, a)[1]
  BY DEF AtStart
<1>2. r \in Record
  BY <1>1, ShapeOf
<1>3. PICK count \in Nat, n \in {1, 3} :
        /\ n = EntryWords(use_lbr)
        /\ parse_sample_data(RecordWords) =
             IF use_lbr THEN NonZero(FrameWords(r, count, n)) ELSE FrameWords(r, count, n)
        /\ \A j \in 1..count : 5 + n * (j - 1) \in 0..RingWords
  <2>1. EntryWords(use_lbr) \in {1, 3}
    BY DEF EntryWords
  <2> QED
    BY <1>1, <2>1, Parsed
<1>4. FrameWords(r, count, n) \in Seq(Record \X (0..RingWords))
  BY <1>2, <1>3 DEF FrameWords
<1>5. NonZero(FrameWords(r, count, n)) \in Seq(Record \X (0..RingWords))
  BY <1>4, AtIndicesType DEF NonZero
<1>6. parse_sample_data(RecordWords) \in Seq(Record \X (0..RingWords))
  BY <1>3, <1>4, <1>5
<1> QED
  BY <1>1, <1>6 DEF Sample

LEMMA FifoFacts ==
    ASSUME Typed
    PROVE  fifo \in Seq(Sample) /\ Len(fifo) \in Nat /\ Len(fifo) <= QueueCapacity
  BY DEF Typed, TypeOK

LEMMA PutFifo ==
    ASSUME Typed, NEW x \in Sample, Q!Put(<<x>>)
    PROVE  /\ fifo' \in Seq(Sample) /\ Len(fifo') = Len(fifo) + 1
           /\ Len(fifo') <= QueueCapacity
           /\ fifo'[Len(fifo) + 1] = x /\ \A i \in 1..Len(fifo) : fifo'[i] = fifo[i]
<1>1. fifo \in Seq(Sample) /\ Len(fifo) \in Nat
  BY FifoFacts
<1>2. fifo' = fifo \o <<x>> /\ Len(fifo) + Len(<<x>>) <= QueueCapacity
  BY DEF Q!Put
<1>3. <<x>> \in Seq(Sample) /\ Len(<<x>>) = 1
  OBVIOUS
<1>4. fifo \o <<x>> = Append(fifo, x)
  BY <1>1, AppendIsConcat
<1> QED
  BY <1>1, <1>2, <1>3, <1>4, AppendProperties

LEMMA TakeFifo ==
    ASSUME Typed, Q!Take("symbolizer", 1)
    PROVE  /\ Len(fifo) \in Nat /\ Len(fifo) >= 1 /\ Head(fifo) = fifo[1]
           /\ fifo[1] \in Sample
           /\ fifo' \in Seq(Sample) /\ Len(fifo') = Len(fifo) - 1
           /\ Len(fifo') <= QueueCapacity
           /\ \A i \in 1..Len(fifo') : fifo'[i] = fifo[i + 1]
<1>1. fifo \in Seq(Sample) /\ Len(fifo) \in Nat /\ Len(fifo) <= QueueCapacity
  BY FifoFacts
<1>2. 1 \in 1..Len(fifo) /\ fifo' = SubSeq(fifo, 1 + 1, Len(fifo))
  BY DEF Q!Take
<1>3. Len(fifo) >= 1 /\ fifo # <<>>
  BY <1>1, <1>2
<1>4. fifo' = Tail(fifo)
  BY <1>1, <1>2, <1>3, TailIsSubSeq
<1>5. /\ fifo' \in Seq(Sample) /\ Len(fifo') = Len(fifo) - 1
      /\ \A i \in 1..Len(fifo') : fifo'[i] = fifo[i + 1]
  BY <1>1, <1>3, <1>4, HeadTailProperties
<1>6. Head(fifo) = fifo[1] /\ fifo[1] \in Sample
  BY <1>1, <1>2, ElementOfSeq
<1>7. Len(fifo') <= QueueCapacity
  <2>1. PICK n \in Nat : n = Len(fifo)
    BY <1>1
  <2>2. Len(fifo') = n - 1 /\ n <= QueueCapacity /\ QueueCapacity \in Nat
    BY <1>1, <1>5, <2>1, CaptureAssumption
  <2> QED
    BY <2>2
<1> QED
  BY <1>1, <1>3, <1>5, <1>6, <1>7

\* What most steps of the loop leave alone.
LEMMA Quiet ==
    ASSUME Typed
    PROVE  /\ data_tail \in [Cpu -> Nat] /\ seen \in [Cpu -> Seq(Recorded)]
           /\ head \in Nat /\ cur \in Pos /\ cpu \in Cpu
           /\ skipped \subseteq Recorded /\ dropped_nomem \subseteq Recorded
           /\ taken \subseteq Recorded
           /\ fifo \in Seq(Sample) /\ Len(fifo) <= QueueCapacity
           /\ pc = "push" => sample \in Sample
           /\ pc # "push" => sample = NoSample
  BY DEF Typed, TypeOK

LEMMA LoopUnstarted ==
    ASSUME pc' \in {"loop", "consume", "push"} PROVE Unstarted'
  BY DEF Unstarted, StartUp

LEMMA StaticLoop ==
    ASSUME Static, RingInv,
           \/ StartLoop \/ RingEmpty \/ perf_event_consume_ring_buffer
           \/ SkipRecord \/ IgnoreRecord \/ dispatch_sample_event
           \/ PushSample \/ StoreTail
    PROVE  Static'
<1> USE DEF Static, tailVars, lostVars, queueVars
<1>0. UNCHANGED <<initVars, crashed, ringVars>>
  BY DEF StartLoop, RingEmpty, perf_event_consume_ring_buffer, SkipRecord, IgnoreRecord,
         dispatch_sample_event, PushSample, StoreTail
<1>1. /\ pc \in {"ready", "loop", "consume", "push"}
      /\ pc' \in {"loop", "consume", "push"}
  BY DEF StartLoop, RingEmpty, perf_event_consume_ring_buffer, SkipRecord, IgnoreRecord,
         dispatch_sample_event, PushSample, StoreTail
<1>2. UNCHANGED initVars /\ pc' \in {"ready", "loop", "consume", "push"}
  BY <1>0, <1>1
<1>3. Opened' /\ Unstarted'
  BY <1>1, <1>2, LoopOpened, LoopUnstarted
<1>4. CASE StartLoop
  <2>1. /\ pc = "ready" /\ pc' = "loop" /\ UNCHANGED <<cpu, sample>>
        /\ UNCHANGED <<data_tail, seen, head, cur, skipped, dropped_nomem, taken, fifo>>
    BY <1>4 DEF StartLoop
  <2> QED
    BY <1>0, <1>2, <1>3, <2>1, Quiet, LoopTyped
<1>5. CASE RingEmpty
  <2>1. /\ pc = "loop" /\ pc' = "loop" /\ NextCpu /\ UNCHANGED sample
        /\ UNCHANGED <<data_tail, seen, head, cur, skipped, dropped_nomem, taken, fifo>>
    BY <1>5 DEF RingEmpty
  <2> QED
    BY <1>0, <1>2, <1>3, <2>1, Quiet, LoopTyped, NextCpuType
<1>6. CASE perf_event_consume_ring_buffer
  <2>1. /\ pc = "loop" /\ pc' = "consume" /\ UNCHANGED <<cpu, sample>>
        /\ head' = data_head[cpu] /\ cur' = data_tail[cpu] % RingWords
        /\ UNCHANGED <<data_tail, seen, skipped, dropped_nomem, taken, fifo>>
    BY <1>6 DEF perf_event_consume_ring_buffer
  <2>2. data_head[cpu] \in Nat /\ data_tail[cpu] \in Nat
    BY DEF Typed, TypeOK
  <2>3. head' \in Nat /\ cur' \in Pos
    BY <2>1, <2>2, ModRange DEF Pos
  <2> QED
    BY <1>0, <1>2, <1>3, <2>1, <2>3, Quiet, LoopTyped
<1>7. CASE SkipRecord
  <2>1. /\ pc = "consume" /\ More /\ Pass /\ pc' = pc /\ UNCHANGED <<cpu, sample>>
        /\ skipped' = skipped \union {ring[cpu][cur][1]}
        /\ UNCHANGED <<dropped_nomem, taken, fifo>>
    BY <1>7 DEF SkipRecord
  <2>2. AtStart(ReadPos(cpu))
    BY <2>1, AtRecord
  <2>3. /\ data_tail' \in [Cpu -> Nat] /\ head' \in Nat /\ cur' \in Pos
        /\ seen' \in [Cpu -> Seq(Recorded)] /\ ring[cpu][cur][1] \in Recorded
    BY <2>1, <2>2, PassTyped
  <2>4. skipped' \subseteq Recorded
    BY <2>1, <2>3, Quiet
  <2> QED
    BY <1>0, <1>2, <1>3, <2>1, <2>3, <2>4, Quiet, LoopTyped
<1>8. CASE IgnoreRecord
  <2>1. /\ pc = "consume" /\ More /\ Pass /\ pc' = pc /\ UNCHANGED <<cpu, sample>>
        /\ UNCHANGED <<skipped, dropped_nomem, taken, fifo>>
    BY <1>8 DEF IgnoreRecord
  <2>2. AtStart(ReadPos(cpu))
    BY <2>1, AtRecord
  <2>3. /\ data_tail' \in [Cpu -> Nat] /\ head' \in Nat /\ cur' \in Pos
        /\ seen' \in [Cpu -> Seq(Recorded)]
    BY <2>1, <2>2, PassTyped
  <2> QED
    BY <1>0, <1>2, <1>3, <2>1, <2>3, Quiet, LoopTyped
<1>9. CASE dispatch_sample_event
  <2>1. /\ pc = "consume" /\ More /\ Pass /\ UNCHANGED cpu
        /\ shape[ring[cpu][cur][1]].type = "sample"
        /\ UNCHANGED <<skipped, taken, fifo>>
        /\ \/ /\ sample' = [rec |-> ring[cpu][cur][1], ips |-> parse_sample_data(RecordWords)]
              /\ pc' = "push" /\ UNCHANGED dropped_nomem
           \/ /\ dropped_nomem' = dropped_nomem \union {ring[cpu][cur][1]}
              /\ UNCHANGED <<pc, sample>>
    BY <1>9 DEF dispatch_sample_event
  <2>2. AtStart(ReadPos(cpu))
    BY <2>1, AtRecord
  <2>3. /\ data_tail' \in [Cpu -> Nat] /\ head' \in Nat /\ cur' \in Pos
        /\ seen' \in [Cpu -> Seq(Recorded)] /\ ring[cpu][cur][1] \in Recorded
        /\ ring[cpu][cur][1] = Word(cpu, ReadPos(cpu))[1]
    BY <2>1, <2>2, PassTyped
  <2>4. [rec |-> ring[cpu][cur][1], ips |-> parse_sample_data(RecordWords)] \in Sample
    BY <2>1, <2>2, <2>3, ParsedType
  <2>5. dropped_nomem' \subseteq Recorded
    BY <2>1, <2>3, Quiet
  <2>6. (pc' = "push" => sample' \in Sample) /\ (pc' # "push" => sample' = NoSample)
    BY <2>1, <2>4, Quiet
  <2> QED
    BY <1>0, <1>2, <1>3, <2>1, <2>3, <2>5, <2>6, Quiet, LoopTyped
<1>10. CASE PushSample
  <2>1. /\ pc = "push" /\ pc' = "consume" /\ UNCHANGED cpu /\ sample' = NoSample
        /\ Q!Put(<<sample>>)
        /\ UNCHANGED <<data_tail, seen, head, cur, skipped, dropped_nomem, taken>>
    BY <1>10 DEF PushSample
  <2>2. sample \in Sample
    BY <2>1, Quiet
  <2>3. fifo' \in Seq(Sample) /\ Len(fifo') <= QueueCapacity
    BY <2>1, <2>2, PutFifo
  <2> QED
    BY <1>0, <1>2, <1>3, <2>1, <2>3, Quiet, LoopTyped
<1>11. CASE StoreTail
  <2>1. /\ pc = "consume" /\ pc' = "loop" /\ NextCpu /\ UNCHANGED sample
        /\ data_tail' = [data_tail EXCEPT ![cpu] = head]
        /\ UNCHANGED <<seen, head, cur, skipped, dropped_nomem, taken, fifo>>
    BY <1>11 DEF StoreTail
  <2>2. data_tail' \in [Cpu -> Nat]
    BY <2>1, Quiet
  <2> QED
    BY <1>0, <1>2, <1>3, <2>1, <2>2, Quiet, LoopTyped, NextCpuType
<1> QED
  BY <1>4, <1>5, <1>6, <1>7, <1>8, <1>9, <1>10, <1>11

LEMMA StaticTakes ==
    ASSUME Static, SymbolizerTakes
    PROVE  Static'
<1> USE DEF Static
<1>1. /\ Q!Take("symbolizer", 1) /\ taken' = taken \union {Head(fifo).rec}
      /\ UNCHANGED <<pc, cpu, initVars, crashed, ringVars, data_tail, seen, head, cur,
                     sample, skipped, dropped_nomem>>
  BY DEF SymbolizerTakes, tailVars
<1>2. /\ Len(fifo) \in Nat /\ Len(fifo) >= 1 /\ Head(fifo) \in Sample
      /\ fifo' \in Seq(Sample) /\ Len(fifo') <= QueueCapacity
  BY <1>1, TakeFifo
<1>3. pc \in {"loop", "consume", "push"}
  <2>1. fifo # <<>>
    BY <1>2
  <2>2. pc \notin StartUp
    BY <2>1 DEF Unstarted
  <2> QED
    BY <2>2 DEF StartUp, Typed, TypeOK
<1>4. taken' \subseteq Recorded
  BY <1>1, <1>2, Quiet DEF Sample
<1>5. Typed'
  BY <1>1, <1>2, <1>3, <1>4, Quiet, LoopTyped
<1>6. Opened' /\ Unstarted'
  BY <1>1, <1>3, LoopOpened, LoopUnstarted
<1> QED
  BY <1>5, <1>6

LEMMA StaticStutter == ASSUME Static, UNCHANGED vars PROVE Static'
<1>1. UNCHANGED <<pc, cpu, manager, fds, maps, ring, data_head, written, shape, records,
                  data_tail, seen, head, cur, sample, skipped, dropped_nomem, taken, fifo>>
  BY DEF vars, initVars, ringVars, tailVars, lostVars, queueVars
<1>2. UNCHANGED <<use_lbr, lbr, crashed>>
  BY DEF vars, initVars
<1>3. Recorded' = Recorded /\ Sample' = Sample
  BY <1>1 DEF Recorded, Sample
<1>4. TypeOK'
  <2>1. use_lbr' \in BOOLEAN /\ lbr' \in BOOLEAN /\ crashed' \in BOOLEAN
    BY <1>2 DEF Static, Typed, TypeOK
  <2> QED
    BY <1>1, <2>1 DEF Static, Typed, TypeOK
<1>5. (lbr => use_lbr)'
  BY <1>2 DEF Static, Typed
<1>6. Typed'
  BY <1>1, <1>3, <1>4, <1>5 DEF Static, Typed
<1>7. use_lbr' = lbr' => use_lbr = lbr
  BY <1>2
<1>8. Opened' /\ Unstarted'
  BY <1>1, <1>7 DEF Static, Opened, ManagerLifetime, Unstarted
<1> QED
  BY <1>6, <1>8 DEF Static

LEMMA NextStatic == ASSUME Static, RingInv, [Next]_vars PROVE Static'
<1>1. ASSUME NEW c \in Cpu, NEW s \in Shape, KernelWrite(c, s)
      PROVE  Static'
  BY <1>1, StaticWrite
<1> QED
  BY <1>1, Steps, StaticStutter, StaticInitialize, StaticCreate, StaticRefused, StaticFails,
     StaticMmap, StaticLoop, StaticTakes

----------------------------------------------------------------------------
(* The rings.                                                              *)

\* What the invariant of a ring depends on.
SameRing(c) ==
    /\ ring'[c] = ring[c] /\ data_head'[c] = data_head[c]
    /\ written'[c] = written[c]
    /\ lbr' = lbr
    /\ Recorded \subseteq Recorded' /\ \A r \in Recorded : shape'[r] = shape[r]

LEMMA SameWhole ==
    ASSUME NEW c \in Cpu, SameRing(c)
    PROVE  \A p : /\ Word(c, p)' = Word(c, p)
                  /\ Whole(c, p) => Whole(c, p)' /\ SizeAt(c, p)' = SizeAt(c, p)
                  /\ Boundary(c, p) => Boundary(c, p)'
<1> TAKE p
<1>1. \A q : Word(c, q)' = Word(c, q)
  BY DEF Word, SameRing
<1>2. Boundary(c, p) => Boundary(c, p)'
  BY <1>1 DEF Boundary, SameRing
<1>3. Word(c, p)[1] \in Recorded =>
        SizeAt(c, p)' = SizeAt(c, p) /\ Word(c, p)[1] \in Recorded'
  <2>1. EntryWords(lbr)' = EntryWords(lbr)
    BY DEF SameRing, EntryWords
  <2>2. \A s : Size(s)' = Size(s)
    BY <2>1 DEF Size
  <2> QED
    BY <1>1, <2>2 DEF SizeAt, SameRing
<1>4. Whole(c, p) => Whole(c, p)'
  BY <1>1, <1>3 DEF Whole, SameRing
<1> QED
  BY <1>1, <1>2, <1>3, <1>4 DEF Whole

LEMMA SameLayout ==
    ASSUME NEW c \in Cpu, SameRing(c), data_tail'[c] = data_tail[c], Layout(c)
    PROVE  Layout(c)'
  BY SameWhole DEF Layout, SameRing

LEMMA SameRingOK ==
    ASSUME NEW c \in Cpu, NEW a, SameRing(c), RingOK(c, a),
           data_tail'[c] = data_tail[c], seen'[c] = seen[c]
    PROVE  RingOK(c, a)'
<1>1. Layout(c)' /\ Boundary(c, a)' /\ a \in data_tail'[c]..data_head'[c]
  BY SameLayout, SameWhole DEF RingOK, SameRing
<1>2. \A p : Word(c, p)' = Word(c, p)
  BY SameWhole
<1>3. written'[c] = written[c] /\ Rest(c)' = Rest(c) /\ Ahead(c, a)' = Ahead(c, a)
  BY <1>2 DEF SameRing, Rest, Ahead
<1>4. Prefix(c)' /\ Ascending(c)'
  BY <1>3 DEF RingOK, InOrder, Prefix, Ascending
<1>5. Known(c, a)' /\ Listed(c, a)' /\ Sorted(c, a)'
  BY <1>2, <1>3 DEF RingOK, InOrder, Known, Listed, Sorted
<1> QED
  BY <1>1, <1>4, <1>5 DEF RingOK, InOrder

LEMMA ReadPosIs ==
    ASSUME Typed, NEW c \in Cpu, NEW b \in Nat, InConsume(c), cur = b % RingWords,
           data_tail[c] <= b, b < data_tail[c] + RingWords
    PROVE  ReadPos(c) = b
<1>0. data_tail[c] \in Nat
  BY DEF Typed, TypeOK
<1>1. PICK t \in Nat : t = data_tail[c]
  BY <1>0
<1>2. ((b % RingWords) + RingWords - (t % RingWords)) % RingWords = b - t
  BY <1>1, ModDist
<1>3. ReadPos(c) = t + (b - t)
  BY <1>1, <1>2 DEF ReadPos
<1> QED
  BY <1>1, <1>3

LEMMA ReadPosIsNext ==
    (\A c \in Cpu, b \in Nat :
        Typed /\ InConsume(c) /\ cur = b % RingWords /\ data_tail[c] <= b
              /\ b < data_tail[c] + RingWords => ReadPos(c) = b)'
<1>1. \A c \in Cpu, b \in Nat :
        Typed /\ InConsume(c) /\ cur = b % RingWords /\ data_tail[c] <= b
              /\ b < data_tail[c] + RingWords => ReadPos(c) = b
  BY ReadPosIs
<1> QED
  BY <1>1, PTL

LEMMA RecordNumbers ==
    ASSUME Typed, NEW c \in Cpu
    PROVE  /\ \A r \in Recorded : r \in Nat
           /\ \A i \in 1..Len(written[c]) : written[c][i] \in Recorded
           /\ \A i \in 1..Len(seen[c]) : seen[c][i] \in Recorded
<1>1. written[c] \in Seq(Recorded) /\ seen[c] \in Seq(Recorded)
  BY DEF Typed
<1>2. \A r \in Recorded : r \in Nat
  BY DEF Recorded, Typed, TypeOK
<1> QED
  BY <1>1, <1>2, ElementOfSeq

\* The record at the reader's position is the next one of those written.
LEMMA NextWritten ==
    ASSUME Typed, NEW c \in Cpu, NEW a \in Nat, InOrder(c, a), a < data_head[c],
           Word(c, a)[2] = 0
    PROVE  /\ Len(seen[c]) + 1 <= Len(written[c])
           /\ written[c][Len(seen[c]) + 1] = Word(c, a)[1]
<1>0. /\ data_head[c] \in Nat /\ written[c] \in Seq(Recorded) /\ seen[c] \in Seq(Recorded)
      /\ Len(written[c]) \in Nat /\ Len(seen[c]) \in Nat
  <2>1. data_head[c] \in Nat
    BY DEF Typed, TypeOK
  <2>2. written[c] \in Seq(Recorded) /\ seen[c] \in Seq(Recorded)
    BY DEF Typed
  <2> QED
    BY <2>1, <2>2
<1>1. PICK n \in Nat, l \in Nat : n = Len(seen[c]) /\ l = Len(written[c])
  BY <1>0
<1>2. \A i \in 1..l : written[c][i] \in Nat
  BY <1>1, RecordNumbers
<1>3. a \in Ahead(c, a)
  BY <1>0 DEF Ahead
<1>4. PICK i \in (n + 1)..l : written[c][i] = Word(c, a)[1]
  BY <1>1, <1>3 DEF InOrder, Known, Rest
<1>5. n + 1 \in (n + 1)..l /\ n + 1 \in 1..l /\ i \in 1..l
  BY <1>4
<1>6. PICK p \in Ahead(c, a) : Word(c, p)[1] = written[c][n + 1]
  BY <1>1, <1>5 DEF InOrder, Listed, Rest
<1>7. p \in Nat /\ a <= p
  BY <1>0, <1>6 DEF Ahead
<1>8. p = a
  <2> SUFFICES ASSUME a < p
               PROVE  FALSE
    BY <1>7
  <2>1. Word(c, a)[1] < Word(c, p)[1]
    BY <1>3, <1>6 DEF InOrder, Sorted
  <2>2. written[c][i] < written[c][n + 1]
    BY <1>4, <1>6, <2>1
  <2>3. i = n + 1 \/ written[c][n + 1] < written[c][i]
    BY <1>1, <1>5 DEF InOrder, Ascending
  <2>4. written[c][i] \in Nat /\ written[c][n + 1] \in Nat
    BY <1>2, <1>5
  <2> QED
    BY <2>2, <2>3, <2>4
<1> QED
  BY <1>1, <1>5, <1>6, <1>8

\* The record at a is the only one that starts before the next one.
LEMMA PassedOne ==
    ASSUME Typed, NEW c \in Cpu, NEW a \in Nat, Whole(c, a), NEW b,
           b = a + SizeAt(c, a)
    PROVE  Ahead(c, b) = Ahead(c, a) \ {a} /\ a \in Ahead(c, a)
<1>0. data_head[c] \in Nat
  BY DEF Typed, TypeOK
<1>1. /\ SizeAt(c, a) \in Nat /\ SizeAt(c, a) >= 3 /\ Word(c, a)[2] = 0
      /\ a + SizeAt(c, a) <= data_head[c]
  BY WholeFacts
<1>2. b \in Nat /\ a < b /\ b <= data_head[c]
  BY <1>0, <1>1
<1>3. a \in Ahead(c, a) /\ a \notin Ahead(c, b)
  BY <1>0, <1>1, <1>2 DEF Ahead
<1>4. ASSUME NEW p \in Ahead(c, a), p # a
      PROVE  p \in Ahead(c, b)
  <2>1. p \in Nat /\ a < p /\ p \in a..(data_head[c] - 1) /\ Word(c, p)[2] = 0
    BY <1>0, <1>4 DEF Ahead
  <2>2. b <= p
    <3> SUFFICES ASSUME p < b
                 PROVE  FALSE
      BY <1>2, <2>1
    <3>1. Word(c, p)[2] = p - a
      BY <2>1, WholeWord
    <3> QED
      BY <2>1, <3>1
  <2> QED
    BY <1>0, <1>2, <2>1, <2>2 DEF Ahead
<1>5. Ahead(c, b) \subseteq Ahead(c, a)
  BY <1>0, <1>2 DEF Ahead
<1> QED
  BY <1>3, <1>4, <1>5

LEMMA PassRing ==
    ASSUME Typed, NEW c \in Cpu, NEW a \in Nat, RingOK(c, a), a < data_head[c],
           Whole(c, a), NEW b, b = a + SizeAt(c, a),
           SameRing(c), data_tail'[c] = data_tail[c],
           seen'[c] = Append(seen[c], Word(c, a)[1])
    PROVE  b \in Nat /\ b <= data_head[c] /\ a < b /\ RingOK(c, b)'
<1>0. /\ data_head[c] \in Nat /\ data_tail[c] \in Nat
      /\ written[c] \in Seq(Recorded) /\ seen[c] \in Seq(Recorded)
      /\ Len(written[c]) \in Nat /\ Len(seen[c]) \in Nat
  <2>1. data_head[c] \in Nat /\ data_tail[c] \in Nat
    BY DEF Typed, TypeOK
  <2>2. written[c] \in Seq(Recorded) /\ seen[c] \in Seq(Recorded)
    BY DEF Typed
  <2> QED
    BY <2>1, <2>2
<1>1. PICK n \in Nat, l \in Nat : n = Len(seen[c]) /\ l = Len(written[c])
  BY <1>0
<1>2. PICK r \in Recorded : r = Word(c, a)[1]
  BY DEF Whole
<1>3. /\ SizeAt(c, a) \in Nat /\ SizeAt(c, a) >= 3 /\ Word(c, a)[2] = 0
      /\ a + SizeAt(c, a) <= data_head[c]
  BY WholeFacts
<1>4. InOrder(c, a) /\ Layout(c) /\ data_tail[c] <= a
  BY <1>0 DEF RingOK
<1>5. n + 1 <= l /\ written[c][n + 1] = r
  BY <1>1, <1>2, <1>3, <1>4, NextWritten
<1>6. /\ Len(seen'[c]) = n + 1 /\ seen'[c][n + 1] = r
      /\ \A i \in 1..n : seen'[c][i] = seen[c][i]
  BY <1>0, <1>1, <1>2, AppendProperties
<1>7. /\ b \in Nat /\ b <= data_head[c] /\ a < b /\ b \in data_tail[c]..data_head[c]
      /\ Boundary(c, b)
  BY <1>0, <1>3, <1>4, NextBoundary
<1>8. \A p : Word(c, p)' = Word(c, p)
  BY SameWhole
<1>9. written'[c] = written[c] /\ Ahead(c, b)' = Ahead(c, b) /\ data_head'[c] = data_head[c]
  BY <1>8 DEF SameRing, Ahead
<1>10. Ahead(c, b) = Ahead(c, a) \ {a} /\ a \in Ahead(c, a)
  BY PassedOne
<1>11. Rest(c)' = (n + 2)..l /\ Rest(c) = (n + 1)..l
  <2>1. (n + 1) + 1 = n + 2
    OBVIOUS
  <2> QED
    BY <1>1, <1>6, <1>9, <2>1 DEF Rest
<1>12. Prefix(c)'
  <2>1. \A i \in 1..(n + 1) : i \in 1..n \/ i = n + 1
    OBVIOUS
  <2>2. \A i \in 1..(n + 1) : seen'[c][i] = written[c][i]
    BY <1>1, <1>4, <1>5, <1>6, <2>1 DEF InOrder, Prefix
  <2> QED
    BY <1>1, <1>5, <1>6, <1>9, <2>2 DEF Prefix
<1>13. \A i, j \in 1..l : /\ i < j => written[c][i] < written[c][j]
                          /\ written[c][i] \in Nat
  BY <1>1, <1>4, RecordNumbers DEF InOrder, Ascending
<1>14. Known(c, b)'
  <2> SUFFICES ASSUME NEW p \in Ahead(c, b)
               PROVE  \E i \in (n + 2)..l : written[c][i] = Word(c, p)[1]
    BY <1>8, <1>9, <1>11 DEF Known
  <2>1. p \in Ahead(c, a) /\ p # a
    BY <1>10
  <2>2. a < p
    BY <1>0, <2>1 DEF Ahead
  <2>3. r < Word(c, p)[1]
    BY <1>2, <1>4, <1>10, <2>1, <2>2 DEF InOrder, Sorted
  <2>4. PICK i \in (n + 1)..l : written[c][i] = Word(c, p)[1]
    BY <1>4, <1>11, <2>1 DEF InOrder, Known
  <2>5. i # n + 1
    <3>1. r \in Nat
      BY <1>2 DEF Recorded
    <3> QED
      BY <1>5, <2>3, <2>4, <3>1
  <2> QED
    BY <2>4, <2>5
<1>15. Listed(c, b)'
  <2> SUFFICES ASSUME NEW i \in (n + 2)..l
               PROVE  \E p \in Ahead(c, b) : Word(c, p)[1] = written[c][i]
    BY <1>8, <1>9, <1>11 DEF Listed
  <2>1. i \in (n + 1)..l /\ i \in 1..l /\ n + 1 \in 1..l /\ n + 1 < i
    OBVIOUS
  <2>2. PICK p \in Ahead(c, a) : Word(c, p)[1] = written[c][i]
    BY <1>4, <1>11, <2>1 DEF InOrder, Listed
  <2>3. r < written[c][i] /\ r \in Nat
    BY <1>5, <1>13, <2>1
  <2>4. p # a
    BY <1>2, <2>2, <2>3
  <2> QED
    BY <1>10, <2>2, <2>4
<1>16. Sorted(c, b)'
  BY <1>4, <1>8, <1>9, <1>10 DEF InOrder, Sorted
<1>17. Ascending(c)'
  BY <1>4, <1>9 DEF InOrder, Ascending
<1>18. Layout(c)' /\ Boundary(c, b)'
  BY <1>4, <1>7, SameLayout, SameWhole
<1> QED
  BY <1>7, <1>9, <1>12, <1>14, <1>15, <1>16, <1>17, <1>18 DEF RingOK, InOrder

LEMMA ModPeriod == \A a \in Nat : (a + RingWords) % RingWords = a % RingWords
<1> TAKE a \in Nat
<1>0. RingWords \in Nat /\ RingWords > 0
  BY CaptureAssumption
<1>1. PICK q \in Nat : a = q * RingWords + (a % RingWords)
  BY ModDef
<1>2. PICK x \in 0..(RingWords - 1) : x = a % RingWords
  BY ModRange
<1>3. a + RingWords = (q + 1) * RingWords + x
  BY <1>0, <1>1, <1>2
<1>4. a + RingWords \in Nat /\ q + 1 \in Nat
  BY <1>0
<1>5. (a + RingWords) % RingWords = x
  BY <1>3, <1>4, ModIs
<1> QED
  BY <1>2, <1>5

\* The kernel overwrites nothing between data_tail and data_head.
LEMMA WriteWords ==
    ASSUME Typed, NEW c \in Cpu, NEW s \in Shape, KernelWrite(c, s), Layout(c)
    PROVE  /\ \A p \in data_tail[c]..(data_head[c] - 1) : Word(c, p)' = Word(c, p)
           /\ \A h, m \in Nat : h = data_head[c] /\ m < Size(s)
                                => Word(c, h + m)' = <<records + 1, m>>
           /\ data_head[c] + Size(s) < data_tail[c] + RingWords
<1>0. /\ RingWords \in Nat /\ RingWords > 0
      /\ Size(s) \in Nat /\ Size(s) >= 3
  BY CaptureAssumption, Sizes
<1>1. PICK t \in Nat, h \in Nat, n \in Nat :
         t = data_tail[c] /\ h = data_head[c] /\ n = Size(s)
  BY <1>0 DEF Typed, TypeOK
<1>2. t <= h /\ h < t + RingWords
  BY <1>1 DEF Layout
<1>3. h + n < t + RingWords
  <2>1. h + n - t < RingWords
    BY <1>1, WriteEffect
  <2> QED
    BY <1>0, <2>1
<1>4. \A p \in Pos : ring'[c][p] = IF Behind(p, h) < n
                                   THEN <<records + 1, Behind(p, h)>> ELSE ring[c][p]
  BY <1>1, WriteEffect
<1>5. ASSUME NEW p \in t..(h - 1)
      PROVE  Word(c, p)' = Word(c, p)
  <2>1. p \in Nat /\ p + RingWords \in Nat /\ h <= p + RingWords /\ p + RingWords < h + RingWords
    BY <1>0, <1>2
  <2>2. (((p + RingWords) % RingWords) + RingWords - (h % RingWords)) % RingWords
          = (p + RingWords) - h
    BY <2>1, ModDist
  <2>3. Behind(p % RingWords, h) = (p + RingWords) - h
    BY <2>1, <2>2, ModPeriod DEF Behind
  <2>4. ~((p + RingWords) - h < n)
    BY <1>0, <1>2, <1>3
  <2>5. p % RingWords \in Pos
    BY <2>1, WordType
  <2>6. ring'[c][p % RingWords] = ring[c][p % RingWords]
    BY <1>4, <2>3, <2>4, <2>5
  <2> QED
    BY <2>6 DEF Word
<1>6. ASSUME NEW m \in 0..(n - 1)
      PROVE  Word(c, h + m)' = <<records + 1, m>>
  <2>1. h + m \in Nat /\ h <= h + m /\ h + m < h + RingWords
    BY <1>0, <1>2, <1>3
  <2>2. (((h + m) % RingWords) + RingWords - (h % RingWords)) % RingWords = (h + m) - h
    BY <2>1, ModDist
  <2>3. Behind((h + m) % RingWords, h) = m /\ m < n
    <3>1. (h + m) - h = m /\ m < n
      OBVIOUS
    <3> QED
      BY <2>2, <3>1 DEF Behind
  <2>4. (h + m) % RingWords \in Pos
    BY <2>1, WordType
  <2>5. ring'[c][(h + m) % RingWords] = <<records + 1, m>>
    BY <1>4, <2>3, <2>4
  <2> QED
    BY <2>5 DEF Word
<1>7. \A p \in data_tail[c]..(data_head[c] - 1) : Word(c, p)' = Word(c, p)
  BY <1>1, <1>5
<1>8. ASSUME NEW m \in Nat, m < Size(s)
      PROVE  Word(c, h + m)' = <<records + 1, m>>
  <2>1. m \in 0..(n - 1)
    BY <1>1, <1>8
  <2> QED
    BY <1>6, <2>1
<1> QED
  BY <1>1, <1>3, <1>7, <1>8

LEMMA WriteRing ==
    ASSUME Typed, NEW c \in Cpu, NEW s \in Shape, KernelWrite(c, s), NEW a, RingOK(c, a)
    PROVE  RingOK(c, a)'
<1>0. /\ RingWords \in Nat /\ Size(s) \in Nat /\ Size(s) >= 3 /\ records \in Nat
      /\ data_tail[c] \in Nat /\ data_head[c] \in Nat
      /\ written[c] \in Seq(Recorded) /\ seen[c] \in Seq(Recorded)
      /\ Len(written[c]) \in Nat /\ Len(seen[c]) \in Nat
  <2>1. RingWords \in Nat /\ Size(s) \in Nat /\ Size(s) >= 3
    BY CaptureAssumption, Sizes
  <2>2. written[c] \in Seq(Recorded) /\ seen[c] \in Seq(Recorded)
    BY DEF Typed
  <2>3. Len(written[c]) \in Nat /\ Len(seen[c]) \in Nat
    BY <2>2
  <2>4. records \in Nat /\ data_tail[c] \in Nat /\ data_head[c] \in Nat
    BY DEF Typed, TypeOK
  <2> QED
    BY <2>1, <2>2, <2>3, <2>4
<1>1. PICK t \in Nat, h \in Nat, n \in Nat, r \in Nat, k \in Nat, l \in Nat :
         /\ t = data_tail[c] /\ h = data_head[c] /\ n = Size(s)
         /\ r = records + 1 /\ k = Len(seen[c]) /\ l = Len(written[c])
  <2>1. records + 1 \in Nat
    BY <1>0
  <2> QED
    BY <1>0, <2>1
<1>2. Layout(c) /\ InOrder(c, a) /\ a \in t..h /\ Boundary(c, a) /\ t <= h /\ n >= 3
  BY <1>0, <1>1 DEF RingOK, Layout
<1>3. /\ \A p \in t..(h - 1) : Word(c, p)' = Word(c, p)
      /\ \A m \in 0..(n - 1) : Word(c, h + m)' = <<r, m>>
      /\ h + n < t + RingWords
  <2>1. \A m \in 0..(n - 1) : m \in Nat /\ m < n
    OBVIOUS
  <2>2. /\ \A p \in data_tail[c]..(data_head[c] - 1) : Word(c, p)' = Word(c, p)
        /\ \A x, m \in Nat : x = data_head[c] /\ m < Size(s)
                              => Word(c, x + m)' = <<records + 1, m>>
        /\ data_head[c] + Size(s) < data_tail[c] + RingWords
    BY <1>2, WriteWords
  <2>3. \A m \in Nat : m < n => Word(c, h + m)' = <<r, m>>
    BY <1>1, <2>2
  <2>4. \A p \in t..(h - 1) : Word(c, p)' = Word(c, p)
    BY <1>1, <2>2
  <2>5. h + n < t + RingWords
    BY <1>1, <2>2
  <2> QED
    BY <2>1, <2>3, <2>4, <2>5
<1>4. Word(c, h)' = <<r, 0>>
  <2>1. 0 \in 0..(n - 1) /\ h + 0 = h
    BY <1>2
  <2> QED
    BY <1>3, <2>1
<1>5. data_head'[c] = h + n /\ data_tail'[c] = t /\ seen'[c] = seen[c]
  <2>1. data_head' = [data_head EXCEPT ![c] = h + n] /\ data_head \in [Cpu -> Nat]
    BY <1>1, WriteEffect DEF Typed, TypeOK
  <2>2. UNCHANGED <<data_tail, seen>>
    BY DEF KernelWrite, tailVars
  <2> QED
    BY <1>1, <2>1, <2>2
<1>6. /\ Recorded \subseteq Recorded' /\ r \in Recorded' /\ shape'[r] = s
      /\ \A x \in Recorded : shape'[x] = shape[x]
  <2>1. records' = records + 1
    BY WriteEffect
  <2>2. Recorded \subseteq Recorded' /\ r \in Recorded'
    BY <1>0, <1>1, <2>1 DEF Recorded
  <2> QED
    BY <1>1, <2>2, WriteEffect
<1>7. \A x : Size(x)' = Size(x)
  <2>1. lbr' = lbr
    BY DEF KernelWrite, initVars
  <2>2. EntryWords(lbr)' = EntryWords(lbr)
    BY <2>1 DEF EntryWords
  <2> QED
    BY <2>2 DEF Size
<1>8. ASSUME NEW q \in t..(h - 1), Whole(c, q)
      PROVE  Whole(c, q)' /\ SizeAt(c, q)' = SizeAt(c, q)
  <2>1. q \in Nat /\ Word(c, q)' = Word(c, q) /\ Word(c, q)[1] \in Recorded
    BY <1>3, <1>8 DEF Whole
  <2>2. SizeAt(c, q)' = SizeAt(c, q)
    BY <1>6, <1>7, <2>1 DEF SizeAt
  <2>3. PICK m \in Nat : m = SizeAt(c, q) /\ q + m <= h
    BY <1>1, <1>8, <2>1, WholeFacts
  <2>4. \A i \in 0..(m - 1) : q + i \in t..(h - 1)
    BY <2>3
  <2>5. \A i \in 0..(m - 1) : Word(c, q + i)' = <<Word(c, q)[1], i>>
    BY <1>3, <1>8, <2>3, <2>4 DEF Whole
  <2>6. q + m <= h + n
    BY <2>3
  <2> QED
    BY <1>5, <1>6, <2>1, <2>2, <2>3, <2>5, <2>6 DEF Whole
<1>9. Whole(c, h)' /\ SizeAt(c, h)' = n
  <2>1. Word(c, h)'[1] = r
    BY <1>4
  <2>2. SizeAt(c, h)' = n
    BY <1>1, <1>6, <1>7, <2>1 DEF SizeAt
  <2>3. h + n <= h + n
    OBVIOUS
  <2> QED
    BY <1>3, <1>5, <1>6, <2>1, <2>2, <2>3 DEF Whole
<1>10. Layout(c)'
  <2>1. ASSUME NEW p \in t..((h + n) - 1)
        PROVE  \E q \in t..p : Whole(c, q)' /\ p < q + SizeAt(c, q)'
    <3>1. CASE p < h
      <4>1. p \in t..(h - 1)
        BY <3>1
      <4>2. PICK q \in t..p : Whole(c, q) /\ p < q + SizeAt(c, q)
        BY <1>1, <1>2, <4>1 DEF Layout
      <4>3. q \in t..(h - 1)
        BY <4>1
      <4> QED
        BY <1>8, <4>2, <4>3
    <3>2. CASE ~(p < h)
      <4>1. h \in t..p /\ p < h + n
        BY <1>2, <3>2
      <4> QED
        BY <1>9, <4>1
    <3> QED
      BY <3>1, <3>2
  <2>2. t <= h + n
    BY <1>2
  <2> QED
    BY <1>3, <1>5, <2>1, <2>2 DEF Layout
<1>11. Boundary(c, a)' /\ a \in t..(h + n)
  <2>1. CASE a = h
    BY <1>2, <1>4, <2>1 DEF Boundary
  <2>2. CASE a # h
    <3>1. a \in t..(h - 1) /\ a \in t..(h + n)
      BY <1>2, <2>2
    <3> QED
      BY <1>1, <1>2, <1>3, <2>2, <3>1 DEF Boundary
  <2> QED
    BY <2>1, <2>2
<1>12. Ahead(c, a)' = Ahead(c, a) \union {h}
  <2>1. ASSUME NEW p \in a..((h + n) - 1)
        PROVE  Word(c, p)'[2] = 0 <=> (p \in Ahead(c, a) \/ p = h)
    <3>1. CASE p < h
      <4>1. p \in t..(h - 1) /\ p \in a..(h - 1) /\ p # h
        BY <1>2, <3>1
      <4> QED
        BY <1>1, <1>3, <4>1 DEF Ahead
    <3>2. CASE ~(p < h)
      <4>1. p - h \in 0..(n - 1) /\ h + (p - h) = p
        BY <1>2, <3>2
      <4>2. Word(c, p)' = <<r, p - h>>
        BY <1>3, <4>1
      <4>3. p \notin Ahead(c, a)
        BY <1>1, <3>2 DEF Ahead
      <4>4. Word(c, p)'[2] = p - h
        BY <4>2
      <4> QED
        BY <4>1, <4>3, <4>4
    <3> QED
      BY <3>1, <3>2
  <2>2. Ahead(c, a)' = { p \in a..((h + n) - 1) : Word(c, p)'[2] = 0 }
    BY <1>5 DEF Ahead
  <2>3. Ahead(c, a) \union {h} \subseteq a..((h + n) - 1)
    BY <1>1, <1>2 DEF Ahead
  <2> QED
    BY <2>1, <2>2, <2>3
<1>13. /\ Len(written'[c]) = l + 1 /\ written'[c][l + 1] = r
       /\ \A i \in 1..l : written'[c][i] = written[c][i]
       /\ \A i \in 1..l : written[c][i] \in Nat /\ written[c][i] < r
  <2>1. written'[c] = Append(written[c], r)
    BY <1>1, WriteEffect DEF Typed
  <2>2. \A i \in 1..l : written[c][i] \in Recorded
    BY <1>1, RecordNumbers
  <2>3. \A x \in Recorded : x \in Nat /\ x < r
    BY <1>0, <1>1 DEF Recorded
  <2>4. r \in Int /\ Len(written[c]) = l
    BY <1>1
  <2>5. /\ Len(written'[c]) = l + 1 /\ written'[c][l + 1] = r
        /\ \A i \in 1..l : written'[c][i] = written[c][i]
    BY <1>0, <2>1, <2>4
  <2> QED
    BY <2>2, <2>3, <2>5
<1>14. (k + 1)..(l + 1) = ((k + 1)..l) \union {l + 1} /\ k <= l
  <2>1. k <= l
    BY <1>1, <1>2 DEF InOrder, Prefix
  <2> QED
    BY <2>1
<1>15. /\ Rest(c) = (k + 1)..l /\ Rest(c)' = Rest(c) \union {l + 1}
       /\ \A i \in Rest(c) : i \in 1..l
  BY <1>1, <1>5, <1>13, <1>14 DEF Rest
<1>16. \A p \in Ahead(c, a) : p \in t..(h - 1) /\ p < h /\ Word(c, p)' = Word(c, p)
  <2>1. \A p \in Ahead(c, a) : p \in t..(h - 1) /\ p < h
    BY <1>1, <1>2 DEF Ahead
  <2> QED
    BY <1>3, <2>1
<1>17. Prefix(c)'
  <2>1. k <= l + 1 /\ \A i \in 1..k : i \in 1..l
    BY <1>14
  <2>2. \A i \in 1..k : seen[c][i] = written[c][i]
    BY <1>1, <1>2 DEF InOrder, Prefix
  <2> QED
    BY <1>1, <1>5, <1>13, <2>1, <2>2 DEF Prefix
<1>18. Word(c, h)'[1] = r
  BY <1>4
<1>19. Known(c, a)'
  <2>1. ASSUME NEW p \in Ahead(c, a)
        PROVE  \E i \in Rest(c)' : written'[c][i] = Word(c, p)'[1]
    BY <1>2, <1>13, <1>15, <1>16 DEF InOrder, Known
  <2>2. \E i \in Rest(c)' : written'[c][i] = Word(c, h)'[1]
    BY <1>13, <1>15, <1>18
  <2> QED
    BY <1>12, <2>1, <2>2 DEF Known
<1>20. Listed(c, a)'
  <2>1. ASSUME NEW i \in Rest(c)
        PROVE  \E p \in Ahead(c, a)' : Word(c, p)'[1] = written'[c][i]
    BY <1>2, <1>12, <1>13, <1>15, <1>16 DEF InOrder, Listed
  <2>2. \E p \in Ahead(c, a)' : Word(c, p)'[1] = written'[c][l + 1]
    BY <1>12, <1>13, <1>18
  <2> QED
    BY <1>15, <2>1, <2>2 DEF Listed
<1>21. Sorted(c, a)'
  <2>1. ASSUME NEW p \in Ahead(c, a)
        PROVE  Word(c, p)'[1] < r
    BY <1>2, <1>13, <1>15, <1>16 DEF InOrder, Known
  <2>2. ASSUME NEW p \in Ahead(c, a), NEW q \in Ahead(c, a), p < q
        PROVE  Word(c, p)'[1] < Word(c, q)'[1]
    BY <1>2, <1>16, <2>2 DEF InOrder, Sorted
  <2>3. \A q \in Ahead(c, a) : ~(h < q)
    BY <1>1, <1>16
  <2>4. ~(h < h)
    OBVIOUS
  <2> QED
    BY <1>12, <1>18, <2>1, <2>2, <2>3, <2>4 DEF Sorted
<1>22. Ascending(c)'
  <2>1. ASSUME NEW i \in 1..(l + 1), NEW j \in 1..(l + 1), i < j
        PROVE  written'[c][i] < written'[c][j]
    <3>1. i \in 1..l
      BY <2>1
    <3>2. CASE j = l + 1
      BY <1>13, <3>1, <3>2
    <3>3. CASE j # l + 1
      <4>1. j \in 1..l
        BY <3>3
      <4> QED
        BY <1>1, <1>2, <1>13, <2>1, <3>1, <4>1 DEF InOrder, Ascending
    <3> QED
      BY <3>2, <3>3
  <2> QED
    BY <1>13, <2>1 DEF Ascending
<1> QED
  BY <1>5, <1>10, <1>11, <1>17, <1>19, <1>20, <1>21, <1>22 DEF RingOK, InOrder

\* Outside perf_event_consume_ring_buffer the reader is at data_tail.
LEMMA ReadPosTail ==
    /\ \A c : ~InConsume(c) => ReadPos(c) = data_tail[c]
    /\ \A c : ~InConsume(c)' => ReadPos(c)' = data_tail'[c]
  BY DEF ReadPos

LEMMA SameRings ==
    ASSUME UNCHANGED <<ringVars, lbr>>
    PROVE  \A c \in Cpu : SameRing(c)
<1>1. UNCHANGED <<ring, data_head, written, shape, records>>
  BY DEF ringVars
<1>2. Recorded' = Recorded
  BY <1>1 DEF Recorded
<1>3. lbr' = lbr
  OBVIOUS
<1> QED
  BY <1>1, <1>2, <1>3 DEF SameRing

\* A ring that no step of the reader or of the kernel touches.
LEMMA RingKept ==
    ASSUME Static, NEW c \in maps, RingOK(c, ReadPos(c)), SameRing(c),
           data_tail'[c] = data_tail[c], seen'[c] = seen[c], ReadPos(c)' = ReadPos(c)
    PROVE  RingOK(c, ReadPos(c))'
<1>0. c \in Cpu
  BY DEF Static, Typed, TypeOK
<1>1. PICK a : a = ReadPos(c)
  OBVIOUS
<1>2. RingOK(c, a)'
  BY <1>0, <1>1, SameRingOK
<1> QED
  BY <1>1, <1>2

\* Steps of the start-up, and those that only move between the rings.
LEMMA RingQuiet ==
    ASSUME Static, RingInv, maps' \subseteq maps, UNCHANGED <<ringVars, lbr, data_tail, seen>>,
           pc \notin {"consume", "push"}, pc' \notin {"consume", "push"}
    PROVE  RingInv'
<1>1. maps \subseteq Cpu
  BY DEF Static, Typed, TypeOK
<1>2. ASSUME NEW c \in maps'
      PROVE  RingOK(c, ReadPos(c))'
  <2>1. c \in maps /\ c \in Cpu /\ data_tail'[c] = data_tail[c] /\ seen'[c] = seen[c]
    BY <1>1
  <2>2. ReadPos(c)' = ReadPos(c)
    BY ReadPosTail DEF InConsume
  <2>3. SameRing(c)
    BY <2>1, SameRings
  <2> QED
    BY <2>1, <2>2, <2>3, RingKept DEF RingInv
<1> QED
  BY <1>2 DEF RingInv, Reading

LEMMA RingGone ==
    ASSUME maps' = {}, pc' \notin {"consume", "push"}
    PROVE  RingInv'
  BY DEF RingInv, Reading

LEMMA RingMmap ==
    ASSUME Static, RingInv, perf_add_sample_event_mmap
    PROVE  RingInv'
<1>0. /\ pc = "map" /\ pc' \in {"open", "ready"} /\ cpu \in Cpu /\ maps' = maps \union {cpu}
      /\ maps \subseteq Cpu /\ lbr' = lbr /\ UNCHANGED <<shape, records>>
  BY DEF perf_add_sample_event_mmap, Static, Typed, TypeOK
<1>1. cpu \notin maps
  BY <1>0, CpuRange DEF Static, Opened
<1>2. ASSUME NEW c \in maps
      PROVE  RingOK(c, ReadPos(c))'
  <2>1. c # cpu /\ c \in Cpu
    BY <1>0, <1>1
  <2>2. /\ ring'[c] = ring[c] /\ data_head'[c] = data_head[c] /\ written'[c] = written[c]
        /\ data_tail'[c] = data_tail[c] /\ seen'[c] = seen[c]
    BY <2>1 DEF perf_add_sample_event_mmap, Static, Typed, TypeOK
  <2>3. Recorded' = Recorded
    BY <1>0 DEF Recorded
  <2>4. SameRing(c)
    BY <1>0, <2>2, <2>3 DEF SameRing
  <2>5. ReadPos(c)' = ReadPos(c)
    BY <1>0, <2>2, ReadPosTail DEF InConsume
  <2> QED
    BY <2>2, <2>4, <2>5, RingKept DEF RingInv
<1>3. ASSUME NEW c, c = cpu
      PROVE  RingOK(c, ReadPos(c))'
  <2>1. /\ data_head'[c] = 0 /\ data_tail'[c] = 0 /\ written'[c] = <<>> /\ seen'[c] = <<>>
    BY <1>0, <1>3 DEF perf_add_sample_event_mmap, Static, Typed, TypeOK
  <2>2. ReadPos(c)' = 0
    BY <1>0, <2>1, ReadPosTail DEF InConsume
  <2>3. RingWords \in Nat /\ 0 < 0 + RingWords /\ 0 \in 0..0 /\ \A p \in 0..(0 - 1) : FALSE
    BY CaptureAssumption
  <2>4. Layout(c)'
    BY <2>1, <2>3 DEF Layout
  <2>5. Boundary(c, 0)'
    BY <2>1 DEF Boundary
  <2>6. Len(<<>>) = 0 /\ \A i \in 1..0 : FALSE
    OBVIOUS
  <2>7. Prefix(c)' /\ Ascending(c)'
    BY <2>1, <2>6 DEF Prefix, Ascending
  <2>8. Rest(c)' = {} /\ Ahead(c, 0)' = {}
    BY <2>1, <2>3, <2>6 DEF Rest, Ahead
  <2>9. Known(c, 0)' /\ Listed(c, 0)' /\ Sorted(c, 0)'
    BY <2>8 DEF Known, Listed, Sorted
  <2>10. RingOK(c, 0)'
    BY <2>1, <2>3, <2>4, <2>5, <2>7, <2>9 DEF RingOK, InOrder
  <2> QED
    BY <2>2, <2>10
<1> QED
  BY <1>0, <1>2, <1>3 DEF RingInv, Reading

LEMMA RingWrite ==
    ASSUME Static, RingInv, NEW d \in Cpu, NEW s \in Shape, KernelWrite(d, s)
    PROVE  RingInv'
<1>0. UNCHANGED <<pc, cpu, maps, data_tail, seen, head, cur>>
  BY DEF KernelWrite, initVars, tailVars
<1>1. \A c : ReadPos(c)' = ReadPos(c)
  BY <1>0 DEF ReadPos, InConsume
<1>2. Typed /\ maps \subseteq Cpu /\ d \in maps
  BY WriteEffect DEF Static, Typed, TypeOK
<1>3. ASSUME NEW c \in maps, c # d
      PROVE  SameRing(c)
  <2>1. c \in Cpu /\ records' = records + 1 /\ records \in Nat /\ lbr' = lbr
    BY <1>2, WriteEffect DEF KernelWrite, initVars
  <2>2. ring'[c] = ring[c] /\ data_head'[c] = data_head[c] /\ written'[c] = written[c]
    BY <1>2, <1>3, <2>1, WriteEffect DEF Typed, TypeOK
  <2>3. Recorded \subseteq Recorded'
    BY <2>1 DEF Recorded
  <2>4. \A r \in Recorded : shape'[r] = shape[r]
    BY <1>2, WriteEffect
  <2> QED
    BY <2>1, <2>2, <2>3, <2>4 DEF SameRing
<1>4. ASSUME NEW c \in maps
      PROVE  RingOK(c, ReadPos(c))'
  <2>1. CASE c = d
    <3>1. PICK a : a = ReadPos(c)
      OBVIOUS
    <3>2. RingOK(c, a)'
      BY <1>2, <2>1, <3>1, WriteRing DEF RingInv
    <3> QED
      BY <1>1, <3>1, <3>2
  <2>2. CASE c # d
    BY <1>0, <1>1, <1>3, <2>2, RingKept DEF RingInv
  <2> QED
    BY <2>1, <2>2
<1>5. Reading'
  <2> SUFFICES ASSUME pc \in {"consume", "push"}
               PROVE  /\ cur = ReadPos(cpu) % RingWords
                      /\ head \in ReadPos(cpu)..data_head'[cpu]
                      /\ Boundary(cpu, head)'
    BY <1>0, <1>1 DEF Reading
  <2>1. /\ cur = ReadPos(cpu) % RingWords /\ head \in ReadPos(cpu)..data_head[cpu]
        /\ Boundary(cpu, head) /\ cpu \in maps /\ cpu \in Cpu /\ RingOK(cpu, ReadPos(cpu))
    BY <1>2 DEF RingInv, Reading, Static, Opened, Typed, TypeOK
  <2>2. PICK c \in Cpu, h \in Nat, a \in Nat : c = cpu /\ h = head /\ a = ReadPos(cpu)
    BY <1>2, <2>1, Numbers
  <2>3. CASE c # d
    <3>1. SameRing(c) /\ data_head'[c] = data_head[c]
      BY <1>3, <2>1, <2>2, <2>3 DEF SameRing
    <3>2. Boundary(c, h)'
      BY <2>1, <2>2, <3>1, SameWhole
    <3> QED
      BY <1>0, <2>1, <2>2, <3>1, <3>2
  <2>4. CASE c = d
    <3>1. Layout(c) /\ data_tail[c] <= a /\ a <= h /\ h <= data_head[c]
      BY <1>2, <2>1, <2>2, Numbers DEF RingOK
    <3>2. PICK n \in Nat, x \in Nat, t \in Nat : n = Size(s) /\ n >= 3 /\ x = data_head[c] /\ t = data_tail[c]
      BY <1>2, <2>4, Sizes, Numbers
    <3>3. data_head'[c] = x + n
      <4>1. data_head' = [data_head EXCEPT ![c] = @ + n] /\ data_head \in [Cpu -> Nat]
        BY <1>2, <2>4, <3>2, WriteEffect DEF Typed, TypeOK
      <4> QED
        BY <3>2, <4>1
    <3>4. h \in a..(x + n)
      BY <3>1, <3>2
    <3>5. Boundary(c, h)'
      <4>1. CASE h = x
        <5>1. Word(c, h + 0)' = <<records + 1, 0>>
          BY <1>2, <2>4, <3>1, <3>2, <4>1, WriteWords
        <5>2. h + 0 = h
          OBVIOUS
        <5>3. Word(c, h)' = <<records + 1, 0>>
          BY <5>1, <5>2
        <5> QED
          BY <5>3 DEF Boundary
      <4>2. CASE h # x
        <5>1. h \in t..(x - 1)
          BY <3>1, <3>2, <4>2
        <5>2. Word(c, h)' = Word(c, h)
          BY <1>2, <2>4, <3>1, <3>2, <5>1, WriteWords
        <5>3. Word(c, h)[2] = 0
          BY <2>1, <2>2, <3>2, <4>2 DEF Boundary
        <5> QED
          BY <5>2, <5>3 DEF Boundary
      <4> QED
        BY <4>1, <4>2
    <3> QED
      BY <1>0, <2>1, <2>2, <3>3, <3>4, <3>5
  <2> QED
    BY <2>3, <2>4
<1> QED
  BY <1>0, <1>4, <1>5 DEF RingInv

LEMMA RingConsume ==
    ASSUME Static, RingInv, perf_event_consume_ring_buffer, Typed'
    PROVE  RingInv'
<1>0. /\ pc = "loop" /\ pc' = "consume" /\ UNCHANGED <<cpu, maps, data_tail, seen>>
      /\ UNCHANGED <<ringVars, lbr>> /\ UNCHANGED <<data_head, ring>>
      /\ head' = data_head[cpu] /\ cur' = data_tail[cpu] % RingWords
  BY DEF perf_event_consume_ring_buffer, initVars, ringVars
<1>1. Typed /\ maps = Cpu /\ cpu \in Cpu
  BY <1>0 DEF Static, Opened, Typed, TypeOK
<1>2. \A c \in Cpu : ReadPos(c) = data_tail[c]
  BY <1>0, ReadPosTail DEF InConsume
<1>3. PICK c \in Cpu, t \in Nat, h \in Nat :
         c = cpu /\ t = data_tail[cpu] /\ h = data_head[cpu]
  BY <1>1, Numbers
<1>4. RingOK(c, t) /\ t <= h /\ t < t + RingWords
  BY <1>1, <1>2, <1>3, CaptureAssumption DEF RingInv, RingOK, Layout
<1>5. ReadPos(c)' = t
  BY <1>0, <1>3, <1>4, ReadPosIsNext DEF InConsume
<1>6. \A d \in Cpu : ReadPos(d)' = ReadPos(d)
  <2>1. \A d \in Cpu : d # c => ReadPos(d)' = data_tail'[d]
    BY <1>0, <1>3, ReadPosTail DEF InConsume
  <2> QED
    BY <1>0, <1>2, <1>3, <1>5, <2>1
<1>7. \A d \in Cpu : RingOK(d, ReadPos(d))'
  BY <1>0, <1>1, <1>6, SameRings, RingKept DEF RingInv
<1>8. Reading'
  <2>1. Boundary(c, h)'
    BY <1>0, <1>3 DEF Boundary
  <2>2. h \in t..h
    BY <1>4
  <2>3. cpu' = c /\ head' = h /\ cur' = t % RingWords /\ data_head'[c] = h
    BY <1>0, <1>3
  <2>4. ReadPos(cpu)' = t /\ Boundary(cpu, head)'
    BY <1>5, <2>1, <2>3
  <2> QED
    BY <2>2, <2>3, <2>4 DEF Reading
<1> QED
  BY <1>0, <1>1, <1>7, <1>8 DEF RingInv

LEMMA RingPass ==
    ASSUME Static, RingInv, pc = "consume", More, Pass, pc' \in {"consume", "push"},
           UNCHANGED <<cpu, initVars, ringVars>>, Typed'
    PROVE  RingInv'
<1>0. /\ UNCHANGED <<ringVars, lbr>> /\ UNCHANGED <<maps, data_head>>
      /\ UNCHANGED <<cpu, data_tail, head>>
  BY DEF initVars, ringVars, Pass
<1>1. Typed /\ Opened /\ maps = Cpu /\ cpu \in Cpu
  BY DEF Static, Opened, Typed, TypeOK
<1>2. AtStart(ReadPos(cpu))
  BY <1>1, AtRecord
<1>3. PICK c \in Cpu, a \in Nat, b \in Nat :
         c = cpu /\ a = ReadPos(cpu) /\ b = a + SizeAt(c, a)
  <2>1. ReadPos(cpu) \in Nat /\ SizeAt(cpu, ReadPos(cpu)) \in Nat
    BY <1>2 DEF AtStart
  <2>2. ReadPos(cpu) + SizeAt(cpu, ReadPos(cpu)) \in Nat
    BY <2>1
  <2> QED
    BY <1>1, <2>1, <2>2
<1>4. /\ Whole(c, a) /\ a < head /\ b <= head /\ HdrSize = SizeAt(c, a)
      /\ Boundary(c, b) /\ data_tail[c] <= a
  BY <1>2, <1>3 DEF AtStart
<1>5. /\ RingOK(c, a) /\ head \in a..data_head[c] /\ Boundary(c, head)
  BY <1>1, <1>3 DEF RingInv, Reading
<1>6. /\ data_head[c] \in Nat /\ data_tail[c] \in Nat /\ head \in Nat /\ RingWords \in Nat
  BY <1>1, Numbers
<1>7. a < data_head[c] /\ data_head[c] < data_tail[c] + RingWords
  BY <1>4, <1>5, <1>6 DEF RingOK, Layout
<1>8. SameRing(c) /\ data_tail'[c] = data_tail[c]
  BY <1>0, SameRings
<1>9. cur' = b % RingWords /\ seen' = [seen EXCEPT ![c] = Append(@, Word(c, a)[1])]
  <2>1. /\ cur' = (ReadPos(cpu) + HdrSize) % RingWords
        /\ seen' = [seen EXCEPT ![cpu] = Append(@, Word(cpu, ReadPos(cpu))[1])]
    BY <1>1, <1>2, PassTyped
  <2> QED
    BY <1>3, <1>4, <2>1
<1>10. seen'[c] = Append(seen[c], Word(c, a)[1]) /\ \A d \in Cpu : d # c => seen'[d] = seen[d]
  BY <1>1, <1>9 DEF Typed
<1>11. RingOK(c, b)' /\ b <= data_head[c] /\ a < b
  BY <1>1, <1>3, <1>4, <1>5, <1>7, <1>8, <1>10, PassRing
<1>12. ReadPos(c)' = b
  <2>1. data_tail'[c] <= b /\ b < data_tail'[c] + RingWords
    BY <1>4, <1>6, <1>7, <1>8, <1>11
  <2>2. InConsume(c)'
    BY <1>0, <1>3 DEF InConsume
  <2> QED
    BY <1>9, <2>1, <2>2, ReadPosIsNext
<1>13. ASSUME NEW d \in Cpu
       PROVE  RingOK(d, ReadPos(d))'
  <2>1. CASE d = c
    BY <1>11, <1>12, <2>1
  <2>2. CASE d # c
    <3>1. ReadPos(d)' = ReadPos(d) /\ data_tail'[d] = data_tail[d]
      BY <1>0, <1>3, <2>2, ReadPosTail DEF InConsume
    <3>2. SameRing(d)
      BY <1>0, SameRings
    <3> QED
      BY <1>1, <1>10, <2>2, <3>1, <3>2, RingKept DEF RingInv
  <2> QED
    BY <2>1, <2>2
<1>14. Reading'
  <2>1. head \in b..data_head[c]
    BY <1>4, <1>5, <1>6
  <2>2. PICK h : h = head
    OBVIOUS
  <2>3. Boundary(c, h)'
    BY <1>5, <1>8, <2>2, SameWhole
  <2>4. cpu' = c /\ head' = h /\ data_head'[c] = data_head[c]
    BY <1>0, <1>3, <2>2
  <2>5. ReadPos(cpu)' = b /\ Boundary(cpu, head)'
    BY <1>12, <2>3, <2>4
  <2> QED
    BY <1>9, <2>1, <2>2, <2>4, <2>5 DEF Reading
<1> QED
  BY <1>0, <1>1, <1>13, <1>14 DEF RingInv

LEMMA RingStoreTail ==
    ASSUME Static, RingInv, StoreTail
    PROVE  RingInv'
<1>0. /\ pc = "consume" /\ ~More /\ pc' = "loop"
      /\ UNCHANGED <<ringVars, lbr>> /\ UNCHANGED <<maps, seen, data_head>>
      /\ data_tail' = [data_tail EXCEPT ![cpu] = head]
  BY DEF StoreTail, initVars, ringVars
<1>1. Typed /\ Opened /\ maps = Cpu /\ cpu \in Cpu
  BY <1>0 DEF Static, Opened, Typed, TypeOK
<1>2. PICK c \in Cpu, h \in Nat : c = cpu /\ h = head /\ ReadPos(c) = h
  BY <1>0, <1>1, AtHead, Numbers
<1>3. \A d \in Cpu : ReadPos(d)' = data_tail'[d]
  BY <1>0, ReadPosTail DEF InConsume
<1>4. data_tail'[c] = h /\ \A d \in Cpu : d # c => data_tail'[d] = data_tail[d]
  BY <1>0, <1>1, <1>2 DEF Typed, TypeOK
<1>5. PICK t \in Nat, x \in Nat : t = data_tail[c] /\ x = data_head[c] /\ RingWords \in Nat
  BY <1>1, Numbers
<1>6. RingOK(c, h) /\ t <= h /\ h <= x /\ x < t + RingWords /\ Boundary(c, h)
  BY <1>1, <1>2, <1>5 DEF RingInv, RingOK, Layout
<1>7. SameRing(c) /\ data_head'[c] = x
  BY <1>0, <1>5, SameRings
<1>8. Layout(c)'
  <2>1. ASSUME NEW p \in h..(x - 1)
        PROVE  \E q \in h..p : Whole(c, q)' /\ p < q + SizeAt(c, q)'
    <3>1. p \in t..(x - 1) /\ p \in Nat
      BY <1>6
    <3>2. PICK q \in t..p : Whole(c, q) /\ p < q + SizeAt(c, q)
      BY <1>5, <1>6, <3>1 DEF RingOK, Layout
    <3>3. q \in Nat /\ SizeAt(c, q) \in Nat
      BY <1>1, <3>2, WholeFacts
    <3>4. h <= q
      <4> SUFFICES ASSUME q < h
                   PROVE  FALSE
        BY <3>3
      <4>1. q + SizeAt(c, q) <= h
        BY <1>1, <1>6, <3>2, <3>3, BoundaryOutside
      <4> QED
        BY <3>2, <3>3, <4>1
    <3>5. q \in h..p
      BY <3>1, <3>2, <3>4
    <3> QED
      BY <1>7, <3>2, <3>5, SameWhole
  <2>2. x < h + RingWords
    BY <1>5, <1>6
  <2> QED
    BY <1>4, <1>6, <1>7, <2>1, <2>2 DEF Layout
<1>9. RingOK(c, h)'
  <2>1. \A p : Word(c, p)' = Word(c, p)
    BY <1>7, SameWhole
  <2>2. /\ written'[c] = written[c] /\ seen'[c] = seen[c] /\ Rest(c)' = Rest(c)
        /\ Ahead(c, h)' = Ahead(c, h)
    BY <1>0, <1>7, <2>1 DEF SameRing, Rest, Ahead
  <2>3. Prefix(c)' /\ Ascending(c)'
    BY <1>6, <2>2 DEF RingOK, InOrder, Prefix, Ascending
  <2>4. Known(c, h)' /\ Listed(c, h)' /\ Sorted(c, h)'
    BY <1>6, <2>1, <2>2 DEF RingOK, InOrder, Known, Listed, Sorted
  <2>5. Boundary(c, h)' /\ h \in h..x
    BY <1>6, <1>7, SameWhole
  <2> QED
    BY <1>4, <1>7, <1>8, <2>3, <2>4, <2>5 DEF RingOK, InOrder
<1>10. ASSUME NEW d \in Cpu
       PROVE  RingOK(d, ReadPos(d))'
  <2>1. CASE d = c
    BY <1>3, <1>4, <1>9, <2>1
  <2>2. CASE d # c
    <3>1. ReadPos(d) = data_tail[d]
      BY <1>2, <2>2, ReadPosTail DEF InConsume
    <3>2. ReadPos(d)' = ReadPos(d) /\ data_tail'[d] = data_tail[d] /\ seen'[d] = seen[d]
      BY <1>0, <1>3, <1>4, <2>2, <3>1
    <3>3. SameRing(d)
      BY <1>0, SameRings
    <3> QED
      BY <1>1, <3>2, <3>3, RingKept DEF RingInv
  <2> QED
    BY <2>1, <2>2
<1> QED
  BY <1>0, <1>1, <1>10 DEF RingInv, Reading

\* Steps that do not move the reader.
LEMMA RingStill ==
    ASSUME Static, RingInv, UNCHANGED <<ringVars, lbr>>,
           UNCHANGED <<cpu, maps, data_tail, seen, head, cur>>,
           pc' \in {"consume", "push"} <=> pc \in {"consume", "push"}
    PROVE  RingInv'
<1>1. \A c : ReadPos(c)' = ReadPos(c)
  BY DEF ReadPos, InConsume
<1>2. Typed /\ maps \subseteq Cpu /\ cpu \in Cpu
  BY DEF Static, Typed, TypeOK
<1>3. \A c \in maps : RingOK(c, ReadPos(c))'
  BY <1>1, <1>2, SameRings, RingKept DEF RingInv
<1>4. Reading'
  <2> SUFFICES ASSUME pc \in {"consume", "push"}
               PROVE  /\ cur = ReadPos(cpu) % RingWords
                      /\ head \in ReadPos(cpu)..data_head'[cpu]
                      /\ Boundary(cpu, head)'
    BY <1>1 DEF Reading
  <2>1. /\ cur = ReadPos(cpu) % RingWords /\ head \in ReadPos(cpu)..data_head[cpu]
        /\ Boundary(cpu, head)
    BY DEF RingInv, Reading
  <2>2. UNCHANGED <<data_head, ring>>
    BY DEF ringVars
  <2>3. Boundary(cpu, head)'
    BY <2>1, <2>2 DEF Boundary, Word
  <2> QED
    BY <2>1, <2>2, <2>3
<1> QED
  BY <1>3, <1>4 DEF RingInv

LEMMA InitRing == Init => RingInv
  BY DEF Init, RingInv, Reading

LEMMA NextRing == ASSUME Static, RingInv, [Next]_vars, Typed' PROVE RingInv'
<1> USE DEF tailVars, initVars
<1>1. CASE UNCHANGED vars \/ SymbolizerTakes \/ PushSample
  <2>1. /\ UNCHANGED <<ringVars, lbr>> /\ UNCHANGED <<cpu, maps, data_tail, seen, head, cur>>
        /\ pc' = pc \/ (pc = "push" /\ pc' = "consume")
    BY <1>1 DEF vars, SymbolizerTakes, PushSample
  <2>2. pc' \in {"consume", "push"} <=> pc \in {"consume", "push"}
    BY <2>1
  <2> QED
    BY <2>1, <2>2, RingStill
<1>2. CASE initialize_manager \/ create_perf_event \/ StartLoop \/ RingEmpty
  <2>1. /\ UNCHANGED <<ringVars, lbr, data_tail, seen>> /\ UNCHANGED maps
        /\ pc \notin {"consume", "push"} /\ pc' \notin {"consume", "push"}
    BY <1>2 DEF initialize_manager, create_perf_event, StartLoop, RingEmpty
  <2> QED
    BY <2>1, RingQuiet
<1>3. CASE LbrRefused
  <2>1. maps' = {} /\ pc' = "open"
    BY <1>3, CleanedUp DEF LbrRefused, Static, Opened
  <2> QED
    BY <2>1, RingGone
<1>4. CASE OpenFails \/ MapFails \/ perf_event_cleanup_manager
  <2>1. maps' = {} /\ pc' \in {"failed", "cleaned"}
    BY <1>4, StaticFails DEF OpenFails, MapFails, perf_event_cleanup_manager
  <2> QED
    BY <2>1, RingGone
<1>5. CASE SkipRecord \/ IgnoreRecord \/ dispatch_sample_event
  <2>1. /\ pc = "consume" /\ More /\ Pass /\ pc' \in {"consume", "push"}
        /\ UNCHANGED <<cpu, initVars, ringVars>>
    BY <1>5 DEF SkipRecord, IgnoreRecord, dispatch_sample_event
  <2> QED
    BY <2>1, RingPass
<1>6. ASSUME NEW c \in Cpu, NEW s \in Shape, KernelWrite(c, s)
      PROVE  RingInv'
  BY <1>6, RingWrite
<1> QED
  BY <1>1, <1>2, <1>3, <1>4, <1>5, <1>6, Steps, RingMmap, RingConsume, RingStoreTail

\* The invariant of the rings says what RingInOrder says.
LEMMA RingInvInOrder == ASSUME Static, RingInv PROVE RingInOrder
<1>1. Typed /\ maps \subseteq Cpu
  BY DEF Static, Typed, TypeOK
<1> SUFFICES ASSUME NEW c \in maps
             PROVE  /\ Len(seen[c]) <= Len(written[c])
                    /\ seen[c] = SubSeq(written[c], 1, Len(seen[c]))
                    /\ { Word(c, p)[1] : p \in Unread(c) }
                          = { written[c][i] : i \in (Len(seen[c]) + 1)..Len(written[c]) }
                    /\ \A p, q \in Unread(c) : p < q => Word(c, p)[1] < Word(c, q)[1]
                    /\ \A i, j \in DOMAIN written[c] :
                          i < j => written[c][i] < written[c][j]
  BY DEF RingInOrder
<1>2. /\ c \in Cpu /\ ReadPos(c) \in Nat /\ data_tail[c] \in Nat /\ data_head[c] \in Nat
      /\ written[c] \in Seq(Recorded) /\ seen[c] \in Seq(Recorded)
  BY <1>1, Numbers DEF Typed
<1>3. PICK a \in Nat : a = ReadPos(c)
  BY <1>2
<1>4. RingOK(c, a) /\ Layout(c) /\ InOrder(c, a) /\ data_tail[c] <= a
  BY <1>2, <1>3 DEF RingInv, RingOK
<1>5. Unread(c) = Ahead(c, a)
  <2>1. ASSUME NEW p \in Ahead(c, a)
        PROVE  Word(c, p) # Zero
    <3>1. p \in data_tail[c]..(data_head[c] - 1) /\ Word(c, p)[2] = 0
      BY <1>2, <1>4 DEF Ahead
    <3>2. Word(c, p)[1] \in Recorded
      BY <1>1, <1>2, <1>4, <3>1, StartsWhole DEF Whole
    <3>3. Word(c, p)[1] # 0
      BY <3>2 DEF Recorded
    <3> QED
      BY <3>3 DEF Zero
  <2> QED
    BY <1>3, <2>1 DEF Unread, Ahead
<1>6. /\ \A p \in Ahead(c, a) : \E i \in Rest(c) : written[c][i] = Word(c, p)[1]
      /\ \A i \in Rest(c) : \E p \in Ahead(c, a) : Word(c, p)[1] = written[c][i]
  BY <1>4 DEF InOrder, Known, Listed
<1>7. { Word(c, p)[1] : p \in Ahead(c, a) } = { written[c][i] : i \in Rest(c) }
  BY <1>6
<1>8. \A p, q \in Ahead(c, a) : p < q => Word(c, p)[1] < Word(c, q)[1]
  BY <1>4 DEF InOrder, Sorted
<1>9. DOMAIN written[c] = 1..Len(written[c])
  BY <1>2
<1>10. \A i, j \in DOMAIN written[c] : i < j => written[c][i] < written[c][j]
  BY <1>4, <1>9 DEF InOrder, Ascending
<1>11. Len(seen[c]) <= Len(written[c]) /\ seen[c] = SubSeq(written[c], 1, Len(seen[c]))
  <2>1. PICK n \in Nat : n = Len(seen[c])
    BY <1>2
  <2>2. n <= Len(written[c]) /\ \A i \in 1..n : seen[c][i] = written[c][i]
    BY <1>4, <2>1 DEF InOrder, Prefix
  <2>3. /\ SubSeq(written[c], 1, n) \in Seq(Recorded) /\ Len(SubSeq(written[c], 1, n)) = n
        /\ \A i \in 1..n : SubSeq(written[c], 1, n)[i] = written[c][i]
    BY <1>2, <2>2
  <2>4. seen[c] = SubSeq(written[c], 1, n)
    BY <1>2, <2>1, <2>2, <2>3, SeqEqual
  <2> QED
    BY <2>1, <2>2, <2>4
<1> QED
  BY <1>5, <1>7, <1>8, <1>10, <1>11 DEF Rest

----------------------------------------------------------------------------
(* The numbers of the records.                                             *)

LEMMA SeqIndices ==
    ASSUME Typed, NEW c \in Cpu
    PROVE  /\ written[c] \in Seq(Recorded) /\ Len(written[c]) \in Nat
           /\ DOMAIN written[c] = 1..Len(written[c])
           /\ \A i \in DOMAIN written[c] : written[c][i] \in Recorded
           /\ seen[c] \in Seq(Recorded) /\ Len(seen[c]) \in Nat
           /\ DOMAIN seen[c] = 1..Len(seen[c])
           /\ \A i \in DOMAIN seen[c] : seen[c][i] \in Recorded
<1>1. written[c] \in Seq(Recorded) /\ seen[c] \in Seq(Recorded)
  BY DEF Typed
<1> QED
  BY <1>1, LenProperties, ElementOfSeq

LEMMA DistinctWrite ==
    ASSUME Static, Distinct, NEW e \in Cpu, NEW s \in Shape, KernelWrite(e, s)
    PROVE  Distinct'
<1>0. Typed /\ records \in Nat /\ written \in [Cpu -> Seq(Recorded)]
  BY WriteEffect DEF Static, Typed
<1>1. written' = [written EXCEPT ![e] = Append(@, records + 1)]
  BY <1>0, WriteEffect
<1>2. PICK n \in Nat : n = Len(written[e])
  BY <1>0, SeqIndices
<1>3. /\ DOMAIN written'[e] = 1..(n + 1) /\ written'[e][n + 1] = records + 1
      /\ \A i \in 1..n : written'[e][i] = written[e][i]
      /\ \A d \in Cpu : d # e => written'[d] = written[d]
  BY <1>0, <1>1, <1>2, SeqIndices, AppendProperties
<1>4. /\ DOMAIN written[e] = 1..n
      /\ \A d \in Cpu : \A i \in DOMAIN written[d] : written[d][i] # records + 1
  BY <1>0, <1>2, SeqIndices DEF Recorded
<1>5. ASSUME NEW d \in Cpu, NEW i \in DOMAIN written'[d]
      PROVE  \/ d = e /\ i = n + 1 /\ written'[d][i] = records + 1
             \/ i \in DOMAIN written[d] /\ written'[d][i] = written[d][i]
  BY <1>3, <1>4
<1> SUFFICES ASSUME NEW c \in Cpu, NEW d \in Cpu,
                    NEW i \in DOMAIN written'[c], NEW j \in DOMAIN written'[d],
                    written'[c][i] = written'[d][j]
             PROVE  c = d /\ i = j
  BY DEF Distinct
<1> QED
  BY <1>4, <1>5 DEF Distinct

LEMMA NextDistinct == ASSUME Static, Distinct, [Next]_vars PROVE Distinct'
<1>1. CASE UNCHANGED written
  BY <1>1 DEF Distinct
<1>2. CASE perf_add_sample_event_mmap
  <2>1. written' = [written EXCEPT ![cpu] = <<>>] /\ written \in [Cpu -> Seq(Recorded)]
    BY <1>2 DEF perf_add_sample_event_mmap, Static, Typed
  <2>2. \A c \in Cpu : written'[c] = <<>> \/ written'[c] = written[c]
    BY <2>1
  <2>3. \A c \in Cpu : DOMAIN written'[c] = {} \/ written'[c] = written[c]
    BY <2>2
  <2> QED
    BY <2>3 DEF Distinct
<1>3. ASSUME NEW c \in Cpu, NEW s \in Shape, KernelWrite(c, s)
      PROVE  Distinct'
  BY <1>3, DistinctWrite
<1>4. \/ UNCHANGED written \/ perf_add_sample_event_mmap
      \/ \E c \in Cpu, s \in Shape : KernelWrite(c, s)
  BY Steps DEF vars, ringVars, initialize_manager, create_perf_event, LbrRefused, OpenFails,
     MapFails, perf_event_cleanup_manager, StartLoop, RingEmpty,
     perf_event_consume_ring_buffer, SkipRecord, IgnoreRecord, dispatch_sample_event,
     PushSample, StoreTail, SymbolizerTakes
<1> QED
  BY <1>1, <1>2, <1>3, <1>4

\* The record at the reader's position was not passed before.
LEMMA Unpassed ==
    ASSUME Static, RingInv, Distinct, pc = "consume", NEW a, AtStart(a), a = ReadPos(cpu)
    PROVE  ~Member(Word(cpu, a)[1], seen)
<1>0. Typed /\ maps = Cpu /\ cpu \in Cpu /\ a \in Nat
  BY DEF Static, Opened, AtStart
<1>1. PICK c \in Cpu, r \in Recorded : c = cpu /\ r = Word(c, a)[1]
  BY <1>0 DEF AtStart
<1>2. \A d \in Cpu : RingOK(d, ReadPos(d))
  BY <1>0 DEF RingInv
<1>3. PICK i \in Rest(c) : written[c][i] = r
  <2>1. Whole(c, a) /\ a < head /\ head <= data_head[c] /\ data_head[c] \in Nat /\ head \in Nat
    BY <1>0, <1>1, Numbers DEF AtStart, RingInv, Reading
  <2>2. Word(c, a)[2] = 0
    BY <1>0, <2>1, WholeFacts
  <2>3. a \in Ahead(c, a)
    BY <1>0, <2>1, <2>2 DEF Ahead
  <2>4. Known(c, a)
    BY <1>1, <1>2 DEF RingOK, InOrder
  <2> QED
    BY <1>1, <2>3, <2>4 DEF Known
<1> SUFFICES ASSUME NEW d \in Cpu, NEW k \in DOMAIN seen[d], seen[d][k] = r
             PROVE  FALSE
  BY <1>1 DEF Member
<1>4. Prefix(d)
  BY <1>2 DEF RingOK, InOrder
<1>5. k \in DOMAIN written[d] /\ written[d][k] = r
  <2>1. PICK m \in Nat, n \in Nat :
          /\ m = Len(seen[d]) /\ DOMAIN seen[d] = 1..m
          /\ n = Len(written[d]) /\ DOMAIN written[d] = 1..n
    BY <1>0, SeqIndices
  <2>2. m <= n /\ \A j \in 1..m : seen[d][j] = written[d][j]
    BY <1>4, <2>1 DEF Prefix
  <2> QED
    BY <2>1, <2>2
<1>6. i \in DOMAIN written[c] /\ i \notin DOMAIN seen[c]
  <2>1. PICK m \in Nat, n \in Nat :
          /\ m = Len(seen[c]) /\ DOMAIN seen[c] = 1..m
          /\ n = Len(written[c]) /\ DOMAIN written[c] = 1..n
    BY <1>0, SeqIndices
  <2>2. i \in (m + 1)..n
    BY <2>1 DEF Rest
  <2> QED
    BY <2>1, <2>2
<1> QED
  BY <1>3, <1>5, <1>6 DEF Distinct

----------------------------------------------------------------------------
(* The fates of the records.                                               *)

LEMMA FateMembers ==
    \A r : /\ Fate(r) \subseteq 1..5
           /\ 1 \in Fate(r) <=> r \in skipped
           /\ 2 \in Fate(r) <=> r \in dropped_nomem
           /\ 3 \in Fate(r) <=> r \in taken
           /\ 4 \in Fate(r) <=> \E i \in DOMAIN fifo : fifo[i].rec = r
           /\ 5 \in Fate(r) <=> sample.rec = r
  BY DEF Fate

LEMMA FateMembersNext ==
   (\A r : /\ Fate(r) \subseteq 1..5
           /\ 1 \in Fate(r) <=> r \in skipped
           /\ 2 \in Fate(r) <=> r \in dropped_nomem
           /\ 3 \in Fate(r) <=> r \in taken
           /\ 4 \in Fate(r) <=> \E i \in DOMAIN fifo : fifo[i].rec = r
           /\ 5 \in Fate(r) <=> sample.rec = r)'
  BY FateMembers, PTL

LEMMA SameFates ==
    ASSUME UNCHANGED <<skipped, dropped_nomem, taken, fifo, sample>>
    PROVE  \A r : Fate(r)' = Fate(r)
  BY DEF Fate

\* Before the main loop there are no fates and no stacks.
LEMMA UnstartedFates ==
    ASSUME Static, pc \in StartUp
    PROVE  Fates /\ StacksFaithful
<1>1. /\ fifo = <<>> /\ skipped = {} /\ dropped_nomem = {} /\ taken = {}
      /\ \A c \in Cpu : seen[c] = <<>>
      /\ sample = NoSample
  BY DEF Static, Unstarted, Typed, StartUp
<1>2. DOMAIN fifo = {} /\ \A c \in Cpu : DOMAIN seen[c] = {}
  BY <1>1
<1>3. \A r \in Recorded : Fate(r) = {}
  <2> TAKE r \in Recorded
  <2>1. sample.rec # r
    BY <1>1 DEF NoSample, Recorded
  <2> QED
    BY <1>1, <1>2, <2>1 DEF Fate
<1>4. \A r : ~Member(r, seen)
  BY <1>2 DEF Member
<1>5. Fates
  BY <1>1, <1>2, <1>3, <1>4 DEF Fates, OfPassed, AtMostOne, SomeFate, QueuedOnce, SkippedLong
<1>6. StacksFaithful
  BY <1>1, <1>2 DEF StacksFaithful
<1> QED
  BY <1>5, <1>6

LEMMA UnstartedFatesNext ==
    (Static /\ pc \in StartUp => Fates /\ StacksFaithful)'
<1>1. Static /\ pc \in StartUp => Fates /\ StacksFaithful
  BY UnstartedFates
<1> QED
  BY <1>1, PTL

LEMMA SameSizes ==
    ASSUME UNCHANGED lbr
    PROVE  \A s : Size(s)' = Size(s)
  BY DEF Size, EntryWords

\* The reader passes r, which gets the fate that it must have.
LEMMA PassFates ==
    ASSUME Fates, UNCHANGED <<shape, records, lbr, fifo>>,
           NEW r \in Recorded,
           \A q : Member(q, seen)' <=> Member(q, seen) \/ q = r,
           \A q \in Recorded : q # r => Fate(q)' = Fate(q),
           \A f, g \in Fate(r)' : f = g,
           shape[r].type = "sample" => Fate(r)' # {},
           skipped' \subseteq skipped \union {r},
           r \in skipped' /\ r \notin skipped => Size(shape[r]) > TempWords
    PROVE  Fates'
<1>1. Recorded' = Recorded /\ \A s : Size(s)' = Size(s)
  BY SameSizes DEF Recorded
<1>2. OfPassed' /\ AtMostOne'
  BY <1>1 DEF Fates, OfPassed, AtMostOne
<1>3. SomeFate'
  BY <1>1 DEF Fates, SomeFate
<1>4. QueuedOnce' /\ SkippedLong'
  BY <1>1 DEF Fates, QueuedOnce, SkippedLong
<1> QED
  BY <1>2, <1>3, <1>4 DEF Fates

LEMMA PassMember ==
    ASSUME Typed, NEW c \in Cpu, NEW r, seen' = [seen EXCEPT ![c] = Append(@, r)]
    PROVE  \A q : Member(q, seen)' <=> Member(q, seen) \/ q = r
<1> TAKE q
<1>1. PICK n \in Nat : n = Len(seen[c]) /\ DOMAIN seen[c] = 1..n
  BY SeqIndices
<1>2. seen'[c] = Append(seen[c], r) /\ \A d \in Cpu : d # c => seen'[d] = seen[d]
  BY DEF Typed
<1>3. /\ DOMAIN seen'[c] = 1..(n + 1) /\ seen'[c][n + 1] = r
      /\ \A i \in 1..n : seen'[c][i] = seen[c][i]
  <2>1. seen[c] \in Seq(Recorded)
    BY SeqIndices
  <2> QED
    BY <1>1, <1>2, <2>1
<1>4. ASSUME NEW d \in Cpu, NEW k \in DOMAIN seen'[d], seen'[d][k] = q
      PROVE  Member(q, seen) \/ q = r
  <2>1. CASE d = c /\ k = n + 1
    BY <1>3, <1>4, <2>1
  <2>2. CASE ~(d = c /\ k = n + 1)
    <3>1. k \in DOMAIN seen[d] /\ seen'[d][k] = seen[d][k]
      BY <1>1, <1>2, <1>3, <2>2
    <3> QED
      BY <1>4, <3>1 DEF Member
  <2> QED
    BY <2>1, <2>2
<1>5. ASSUME NEW d \in Cpu, NEW k \in DOMAIN seen[d], seen[d][k] = q
      PROVE  Member(q, seen')
  <2>1. k \in DOMAIN seen'[d] /\ seen'[d][k] = seen[d][k]
    BY <1>1, <1>2, <1>3
  <2> QED
    BY <1>5, <2>1 DEF Member
<1>6. Member(r, seen')
  <2>1. n + 1 \in DOMAIN seen'[c]
    BY <1>3
  <2> QED
    BY <1>3, <2>1 DEF Member
<1> QED
  BY <1>4, <1>5, <1>6 DEF Member

LEMMA FatesPass ==
    ASSUME Static, RingInv, Distinct, Fates,
           SkipRecord \/ IgnoreRecord \/ dispatch_sample_event
    PROVE  Fates'
<1> USE DEF initVars, ringVars, lostVars, queueVars
<1>0. /\ pc = "consume" /\ More /\ Pass /\ UNCHANGED <<shape, records, lbr, fifo, taken>>
  BY DEF SkipRecord, IgnoreRecord, dispatch_sample_event
<1>1. PICK a \in Nat : a = ReadPos(cpu) /\ AtStart(a)
  BY <1>0, AtRecord DEF Static, AtStart
<1>2. PICK r \in Recorded :
         /\ r = Word(cpu, a)[1] /\ ring[cpu][cur][1] = r
         /\ seen' = [seen EXCEPT ![cpu] = Append(@, r)] /\ cpu \in Cpu
  BY <1>0, <1>1, PassTyped DEF Static, AtStart
<1>3. \A q : Member(q, seen)' <=> Member(q, seen) \/ q = r
  BY <1>2, PassMember DEF Static
<1>4. ~Member(r, seen)
  BY <1>0, <1>1, <1>2, Unpassed
<1>5. Fate(r) = {}
  BY <1>4 DEF Fates, OfPassed
<1>6. sample.rec = 0 /\ \A q \in Recorded : q # 0
  BY <1>0 DEF Static, Typed, NoSample, Recorded
<1>7. CASE SkipRecord
  <2>1. skipped' = skipped \union {r} /\ UNCHANGED <<dropped_nomem, sample>>
    BY <1>2, <1>7 DEF SkipRecord
  <2>2. \A q : q # r => Fate(q)' = Fate(q)
    BY <1>0, <2>1 DEF Fate
  <2>3. Fate(r)' = Fate(r) \union {1}
    BY <1>0, <2>1, FateMembers, FateMembersNext
  <2>4. Size(shape[r]) > TempWords
    BY <1>1, <1>2, <1>7 DEF SkipRecord, TooLong, AtStart, SizeAt
  <2>5. Fate(r)' = {1}
    BY <1>5, <2>3
  <2> QED
    BY <1>0, <1>2, <1>3, <2>1, <2>2, <2>4, <2>5, PassFates
<1>8. CASE IgnoreRecord
  <2>1. UNCHANGED <<skipped, dropped_nomem, taken, fifo, sample>> /\ shape[r].type = "other"
    BY <1>2, <1>8 DEF IgnoreRecord
  <2>2. \A q : Fate(q)' = Fate(q)
    BY <2>1, SameFates
  <2>3. Fate(r)' = {} /\ shape[r].type # "sample" /\ skipped' = skipped
    BY <1>5, <2>1, <2>2
  <2> QED
    BY <1>0, <1>2, <1>3, <2>2, <2>3, PassFates
<1>9. CASE dispatch_sample_event
  <2>1. /\ skipped' = skipped
        /\ \/ sample'.rec = r /\ dropped_nomem' = dropped_nomem
           \/ sample' = sample /\ dropped_nomem' = dropped_nomem \union {r}
    BY <1>2, <1>9 DEF dispatch_sample_event
  <2>2. \A q \in Recorded : q # r => Fate(q)' = Fate(q)
    BY <1>0, <1>6, <2>1 DEF Fate
  <2>3. Fate(r)' = {5} \/ Fate(r)' = {2}
    <3>1. CASE sample'.rec = r /\ dropped_nomem' = dropped_nomem
      BY <1>0, <1>5, <2>1, <3>1, FateMembers, FateMembersNext
    <3>2. CASE sample' = sample /\ dropped_nomem' = dropped_nomem \union {r}
      BY <1>0, <1>5, <2>1, <3>2, FateMembers, FateMembersNext
    <3> QED
      BY <2>1, <3>1, <3>2
  <2> QED
    BY <1>0, <1>2, <1>3, <2>1, <2>2, <2>3, PassFates
<1> QED
  BY <1>7, <1>8, <1>9

\* Record r exchanges its fate for another one.
LEMMA MoveFates ==
    ASSUME Fates, UNCHANGED <<shape, records, lbr, seen, skipped>>,
           NEW r \in Recorded, Fate(r) # {},
           \A q \in Recorded : q # r => Fate(q)' = Fate(q),
           NEW g, Fate(r)' = {g}, QueuedOnce'
    PROVE  Fates'
<1>1. Recorded' = Recorded /\ \A s : Size(s)' = Size(s)
  BY SameSizes DEF Recorded
<1>2. OfPassed' /\ AtMostOne' /\ SomeFate'
  BY <1>1 DEF Fates, OfPassed, AtMostOne, SomeFate
<1>3. SkippedLong'
  BY <1>1 DEF Fates, SkippedLong
<1> QED
  BY <1>2, <1>3 DEF Fates

LEMMA OnlyFate ==
    ASSUME Fates, NEW r \in Recorded, NEW f \in Fate(r)
    PROVE  Fate(r) = {f}
  BY DEF Fates, AtMostOne

LEMMA FatesPush == ASSUME Static, Fates, PushSample PROVE Fates'
<1>0. /\ pc = "push" /\ Q!Put(<<sample>>) /\ sample' = NoSample
      /\ UNCHANGED <<shape, records, lbr, seen, skipped, dropped_nomem, taken>>
  BY DEF PushSample, initVars, ringVars, tailVars, lostVars
<1>1. Typed /\ sample \in Sample /\ sample.rec \in Recorded
  BY <1>0 DEF Static, Typed, Sample
<1>2. PICK r \in Recorded : r = sample.rec
  BY <1>1
<1>3. /\ fifo' \in Seq(Sample) /\ Len(fifo') = Len(fifo) + 1
      /\ fifo'[Len(fifo) + 1] = sample /\ \A i \in 1..Len(fifo) : fifo'[i] = fifo[i]
      /\ fifo \in Seq(Sample) /\ Len(fifo) \in Nat
  BY <1>0, <1>1, PutFifo, FifoFacts
<1>4. PICK n \in Nat : n = Len(fifo)
  BY <1>3
<1>5. DOMAIN fifo = 1..n /\ DOMAIN fifo' = 1..(n + 1)
  BY <1>3, <1>4
<1>6. fifo'[n + 1].rec = r /\ \A i \in 1..n : fifo'[i].rec = fifo[i].rec
  BY <1>2, <1>3, <1>4
<1>7. Fate(r) = {5}
  BY <1>2, FateMembers, OnlyFate
<1>8. \A i \in 1..n : fifo[i].rec # r
  <2>1. 4 \notin Fate(r)
    BY <1>7
  <2>2. ~(\E i \in DOMAIN fifo : fifo[i].rec = r)
    BY <2>1, FateMembers, Zenon
  <2> QED
    BY <1>5, <2>2
<1>9. \A q : (\E i \in DOMAIN fifo' : fifo'[i].rec = q)
                <=> (\E i \in DOMAIN fifo : fifo[i].rec = q) \/ q = r
  <2> TAKE q
  <2>1. \A i \in 1..(n + 1) : i \in 1..n \/ i = n + 1
    OBVIOUS
  <2>2. n + 1 \in 1..(n + 1) /\ 1..n \subseteq 1..(n + 1)
    OBVIOUS
  <2> QED
    BY <1>5, <1>6, <2>1, <2>2
<1>10. sample'.rec = 0 /\ \A q \in Recorded : q # 0
  BY <1>0 DEF NoSample, Recorded
<1>11. \A q \in Recorded : q # r => Fate(q)' = Fate(q)
  <2> SUFFICES ASSUME NEW q \in Recorded, q # r
               PROVE  Fate(q)' = Fate(q)
    OBVIOUS
  <2>1. \A f \in 1..5 : f \in Fate(q)' <=> f \in Fate(q)
    BY <1>0, <1>2, <1>9, <1>10, FateMembers, FateMembersNext
  <2> QED
    BY <2>1, FateMembers, FateMembersNext
<1>12. Fate(r)' = {4}
  <2>1. /\ 1 \notin Fate(r)' /\ 2 \notin Fate(r)' /\ 3 \notin Fate(r)'
        /\ 4 \in Fate(r)' /\ 5 \notin Fate(r)'
    BY <1>0, <1>7, <1>9, <1>10, FateMembers, FateMembersNext
  <2> QED
    BY <2>1, FateMembersNext
<1>13. QueuedOnce'
  <2> SUFFICES ASSUME NEW i \in 1..(n + 1), NEW j \in 1..(n + 1),
                      fifo'[i].rec = fifo'[j].rec
               PROVE  i = j
    BY <1>5 DEF QueuedOnce
  <2>1. (i \in 1..n \/ i = n + 1) /\ (j \in 1..n \/ j = n + 1)
    OBVIOUS
  <2>2. \A k, m \in 1..n : fifo[k].rec = fifo[m].rec => k = m
    BY <1>5 DEF Fates, QueuedOnce
  <2> QED
    BY <1>6, <1>8, <2>1, <2>2
<1>14. Fate(r) # {}
  BY <1>7
<1> QED
  BY <1>0, <1>11, <1>12, <1>13, <1>14, MoveFates

LEMMA FatesTake == ASSUME Static, Fates, SymbolizerTakes PROVE Fates'
<1>0. /\ Q!Take("symbolizer", 1) /\ taken' = taken \union {Head(fifo).rec}
      /\ UNCHANGED <<shape, records, lbr, seen, skipped, dropped_nomem, sample>>
  BY DEF SymbolizerTakes, initVars, ringVars, tailVars
<1>1. Typed /\ fifo \in Seq(Sample)
  BY DEF Static, Typed
<1>2. /\ Len(fifo) \in Nat /\ Len(fifo) >= 1 /\ Head(fifo) = fifo[1] /\ fifo[1] \in Sample
      /\ fifo' \in Seq(Sample) /\ Len(fifo') = Len(fifo) - 1
      /\ \A i \in 1..Len(fifo') : fifo'[i] = fifo[i + 1]
  BY <1>0, <1>1, TakeFifo
<1>3. PICK n \in Nat : n + 1 = Len(fifo) /\ n = Len(fifo')
  <2>1. PICK m \in Nat : m = Len(fifo)
    BY <1>2
  <2>2. m >= 1 /\ Len(fifo') = m - 1
    BY <1>2, <2>1
  <2>3. m - 1 \in Nat /\ (m - 1) + 1 = m
    BY <2>2
  <2> QED
    BY <2>1, <2>2, <2>3
<1>4. /\ DOMAIN fifo = 1..(n + 1) /\ DOMAIN fifo' = 1..n
      /\ \A i \in 1..n : fifo'[i].rec = fifo[i + 1].rec
  BY <1>1, <1>2, <1>3
<1>5. PICK r \in Recorded : r = fifo[1].rec
  BY <1>2 DEF Sample
<1>6. Fate(r) = {4}
  <2>1. 1 \in DOMAIN fifo
    BY <1>4
  <2>2. 4 \in Fate(r)
    BY <1>5, <2>1, FateMembers
  <2> QED
    BY <2>2, OnlyFate
<1>7. \A i, j \in 1..(n + 1) : fifo[i].rec = fifo[j].rec => i = j
  BY <1>4 DEF Fates, QueuedOnce
<1>8. \A i \in 1..n : i + 1 \in 1..(n + 1) /\ i + 1 # 1 /\ 1 \in 1..(n + 1)
  OBVIOUS
<1>9. \A i \in 1..n : fifo'[i].rec # r
  BY <1>4, <1>5, <1>7, <1>8
<1>10. \A q : q # r => ((\E i \in DOMAIN fifo' : fifo'[i].rec = q)
                           <=> \E i \in DOMAIN fifo : fifo[i].rec = q)
  <2> SUFFICES ASSUME NEW q, q # r
               PROVE  (\E i \in 1..n : fifo'[i].rec = q)
                         <=> \E i \in 1..(n + 1) : fifo[i].rec = q
    BY <1>4
  <2>1. \A i \in 1..(n + 1) : i = 1 \/ (i - 1 \in 1..n /\ (i - 1) + 1 = i)
    OBVIOUS
  <2>2. \A i \in 1..(n + 1) : fifo[i].rec = q => i - 1 \in 1..n /\ fifo'[i - 1].rec = q
    BY <1>4, <1>5, <2>1
  <2> QED
    BY <1>4, <1>8, <2>2
<1>11. taken' = taken \union {r}
  BY <1>0, <1>2, <1>5
<1>12. \A q \in Recorded : q # r => Fate(q)' = Fate(q)
  <2> SUFFICES ASSUME NEW q \in Recorded, q # r
               PROVE  Fate(q)' = Fate(q)
    OBVIOUS
  <2>1. \A f \in 1..5 : f \in Fate(q)' <=> f \in Fate(q)
    BY <1>0, <1>10, <1>11, FateMembers, FateMembersNext
  <2> QED
    BY <2>1, FateMembers, FateMembersNext
<1>13. Fate(r)' = {3}
  <2>1. /\ 1 \notin Fate(r)' /\ 2 \notin Fate(r)' /\ 3 \in Fate(r)'
        /\ 4 \notin Fate(r)' /\ 5 \notin Fate(r)'
    BY <1>0, <1>4, <1>6, <1>9, <1>11, FateMembers, FateMembersNext
  <2> QED
    BY <2>1, FateMembersNext
<1>14. QueuedOnce'
  <2> SUFFICES ASSUME NEW i \in 1..n, NEW j \in 1..n, fifo'[i].rec = fifo'[j].rec
               PROVE  i = j
    BY <1>4 DEF QueuedOnce
  <2>1. i + 1 = j + 1
    BY <1>4, <1>7, <1>8
  <2> QED
    BY <2>1
<1>15. Fate(r) # {}
  BY <1>6
<1> QED
  BY <1>0, <1>12, <1>13, <1>14, <1>15, MoveFates

LEMMA FatesWrite ==
    ASSUME Static, Fates, NEW c \in Cpu, NEW s \in Shape, KernelWrite(c, s)
    PROVE  Fates'
<1>0. /\ UNCHANGED <<lbr, seen, skipped, dropped_nomem, taken, fifo, sample>>
  BY DEF KernelWrite, initVars, tailVars, lostVars, queueVars
<1>1. Typed
  BY DEF Static
<1>2. /\ records \in Nat /\ records' = records + 1
      /\ \A r \in Recorded : shape'[r] = shape[r]
  BY <1>1, WriteEffect
<1>3. /\ Recorded' = Recorded \union {records + 1}
      /\ records + 1 \notin Recorded /\ records + 1 # 0
  BY <1>2 DEF Recorded
<1>4. \A r : Fate(r)' = Fate(r)
  BY <1>0, SameFates
<1>5. \A q : Size(q)' = Size(q)
  BY <1>0, SameSizes
<1>6. \A r : Member(r, seen) => r \in Recorded
  BY <1>1, SeqIndices DEF Member
<1>7. Fate(records + 1) = {}
  <2>1. \A i \in DOMAIN fifo : fifo[i].rec \in Recorded
    <3>1. fifo \in Seq(Sample)
      BY <1>1, FifoFacts
    <3>2. \A i \in DOMAIN fifo : fifo[i] \in Sample
      BY <3>1, LenProperties, ElementOfSeq
    <3> QED
      BY <3>2 DEF Sample
  <2>2. sample.rec \in Recorded \/ sample.rec = 0
    BY <1>1 DEF Typed, Sample, NoSample
  <2>3. /\ records + 1 \notin skipped /\ records + 1 \notin dropped_nomem
        /\ records + 1 \notin taken
    BY <1>1, <1>3 DEF Typed
  <2> QED
    BY <1>3, <2>1, <2>2, <2>3 DEF Fate
<1>8. OfPassed' /\ AtMostOne'
  BY <1>0, <1>3, <1>4, <1>7 DEF Fates, OfPassed, AtMostOne
<1>9. SomeFate'
  BY <1>0, <1>2, <1>3, <1>4, <1>6 DEF Fates, SomeFate
<1>10. QueuedOnce' /\ SkippedLong'
  <2>1. \A r \in skipped : r \in Recorded
    BY <1>1 DEF Typed
  <2> QED
    BY <1>0, <1>2, <1>5, <2>1 DEF Fates, QueuedOnce, SkippedLong
<1> QED
  BY <1>8, <1>9, <1>10 DEF Fates

LEMMA FatesStill ==
    ASSUME Fates,
           UNCHANGED <<shape, records, lbr, seen, skipped, dropped_nomem, taken, fifo, sample>>
    PROVE  Fates'
<1>1. Recorded' = Recorded /\ (\A q : Size(q)' = Size(q)) /\ \A r : Fate(r)' = Fate(r)
  BY SameSizes, SameFates DEF Recorded
<1> QED
  BY <1>1 DEF Fates, OfPassed, AtMostOne, SomeFate, QueuedOnce, SkippedLong

\* The steps of the start-up end before the main loop; the others are these.
LEMMA Still ==
    ASSUME UNCHANGED vars \/ StartLoop \/ RingEmpty \/ perf_event_consume_ring_buffer
             \/ StoreTail
    PROVE  /\ UNCHANGED <<shape, records, seen, skipped, dropped_nomem, taken, fifo, sample>>
           /\ UNCHANGED <<lbr, use_lbr>>
  BY DEF vars, StartLoop, RingEmpty, perf_event_consume_ring_buffer, StoreTail, initVars,
         ringVars, tailVars, lostVars, queueVars

LEMMA Starting ==
    ASSUME initialize_manager \/ create_perf_event \/ LbrRefused \/ OpenFails
             \/ perf_add_sample_event_mmap \/ MapFails \/ perf_event_cleanup_manager
    PROVE  pc' \in StartUp
  BY DEF initialize_manager, create_perf_event, LbrRefused, OpenFails,
         perf_add_sample_event_mmap, MapFails, perf_event_cleanup_manager, StartUp

LEMMA NextFates ==
    ASSUME Static, RingInv, Distinct, Fates, [Next]_vars, Static'
    PROVE  Fates'
<1>1. CASE UNCHANGED vars \/ StartLoop \/ RingEmpty \/ perf_event_consume_ring_buffer
             \/ StoreTail
  BY <1>1, Still, FatesStill
<1>2. CASE initialize_manager \/ create_perf_event \/ LbrRefused \/ OpenFails
             \/ perf_add_sample_event_mmap \/ MapFails \/ perf_event_cleanup_manager
  BY <1>2, Starting, UnstartedFatesNext
<1>3. ASSUME NEW c \in Cpu, NEW s \in Shape, KernelWrite(c, s)
      PROVE  Fates'
  BY <1>3, FatesWrite
<1> QED
  BY <1>1, <1>2, <1>3, Steps, FatesPass, FatesPush, FatesTake

\* The invariant says of every record what OneFate says.
LEMMA FatesOne == ASSUME Static, Fates PROVE OneFate
<1> SUFFICES ASSUME NEW c \in maps, NEW k \in DOMAIN seen[c], NEW r, r = seen[c][k]
             PROVE  /\ shape[r].type = "sample" => Cardinality(Fate(r)) = 1
                    /\ r \in skipped => Size(shape[r]) > TempWords
  BY DEF OneFate
<1>1. Typed /\ c \in Cpu
  BY DEF Static, Typed, TypeOK
<1>2. r \in Recorded /\ Member(r, seen)
  BY <1>1, SeqIndices DEF Member
<1>3. ASSUME shape[r].type = "sample"
      PROVE  Cardinality(Fate(r)) = 1
  <2>1. PICK f : f \in Fate(r)
    BY <1>2, <1>3 DEF Fates, SomeFate
  <2>2. Fate(r) = {f}
    BY <1>2, <2>1, OnlyFate
  <2> QED
    BY <2>2, FS_Singleton
<1> QED
  BY <1>3 DEF Fates, SkippedLong

----------------------------------------------------------------------------
(* The stacks of the samples.                                              *)

\* What StacksFaithful asks of a sample.
Faithful(s) == s # NoSample => s.ips = Captured(s.rec)

LEMMA StacksAre ==
    StacksFaithful <=>
        (use_lbr = lbr =>
            \A s : s = sample \/ (\E i \in DOMAIN fifo : s = fifo[i]) => Faithful(s))
  BY DEF StacksFaithful, Faithful

LEMMA StacksAreNext ==
   (StacksFaithful <=>
        (use_lbr = lbr =>
            \A s : s = sample \/ (\E i \in DOMAIN fifo : s = fifo[i]) => Faithful(s)))'
  BY StacksAre, PTL

\* A record keeps the shape it was written with, and so its stack.
LEMMA SameCaptured ==
    ASSUME UNCHANGED lbr, NEW r, shape'[r] = shape[r]
    PROVE  Captured(r)' = Captured(r)
<1>1. EntryWords(lbr)' = EntryWords(lbr)
  BY DEF EntryWords
<1>2. PICK n, m : n = EntryWords(lbr) /\ m = Least(shape[r].nr, MaxIps)
  OBVIOUS
<1>3. PICK all : all = FrameWords(r, m, n)
  OBVIOUS
<1>4. \A j \in DOMAIN all : all[j][1] = r
  BY <1>3 DEF FrameWords
<1>5. \A j \in DOMAIN all : IsZero(all[j])' <=> IsZero(all[j])
  BY <1>1, <1>4 DEF IsZero
<1>6. { j \in DOMAIN all : ~IsZero(all[j])' } = { j \in DOMAIN all : ~IsZero(all[j]) }
  BY <1>5
<1>7. NonZero(all)' = NonZero(all)
  BY <1>6 DEF NonZero
<1>8. Captured(r) = IF lbr THEN NonZero(all) ELSE all
  BY <1>2, <1>3 DEF Captured, FrameWords
<1>9. /\ Least(shape'[r].nr, MaxIps) = m /\ EntryWords(lbr)' = n
  BY <1>1, <1>2
<1>10. Captured(r)' = IF lbr' THEN NonZero(all)' ELSE all
  BY <1>3, <1>9 DEF Captured, FrameWords
<1> QED
  BY <1>7, <1>8, <1>10

LEMMA SameFaithful ==
    ASSUME UNCHANGED lbr, \A r \in Recorded : shape'[r] = shape[r],
           NEW s, s \in Sample \/ s = NoSample, Faithful(s)
    PROVE  Faithful(s)'
<1>1. CASE s = NoSample
  BY <1>1 DEF Faithful
<1>2. CASE s \in Sample
  <2>1. PICK r \in Recorded : r = s.rec
    BY <1>2 DEF Sample
  <2>2. Captured(r)' = Captured(r)
    BY <2>1, SameCaptured
  <2> QED
    BY <2>1, <2>2 DEF Faithful
<1> QED
  BY <1>1, <1>2

LEMMA SampleTypes ==
    ASSUME Typed
    PROVE  /\ sample \in Sample \/ sample = NoSample
           /\ \A i \in DOMAIN fifo : fifo[i] \in Sample
<1>1. fifo \in Seq(Sample)
  BY FifoFacts
<1> QED
  BY <1>1, LenProperties, ElementOfSeq DEF Typed

\* Steps after which every sample is an old one, or faithful.
LEMMA KeptStacks ==
    ASSUME Typed, StacksFaithful, UNCHANGED <<lbr, use_lbr>>,
           \A r \in Recorded : shape'[r] = shape[r],
           \/ sample' = sample \/ sample' = NoSample
           \/ use_lbr = lbr => \A s : s = sample' => Faithful(s)',
           \A i \in DOMAIN fifo' : \/ fifo'[i] = sample
                                   \/ \E j \in DOMAIN fifo : fifo'[i] = fifo[j]
    PROVE  StacksFaithful'
<1> SUFFICES ASSUME use_lbr = lbr, NEW s,
                    s = sample' \/ (\E i \in DOMAIN fifo' : s = fifo'[i])
             PROVE  Faithful(s)'
  BY StacksAreNext
<1>1. CASE s = sample \/ \E j \in DOMAIN fifo : s = fifo[j]
  <2>1. Faithful(s)
    BY <1>1, StacksAre
  <2>2. s \in Sample \/ s = NoSample
    BY <1>1, SampleTypes
  <2> QED
    BY <2>1, <2>2, SameFaithful
<1>2. CASE s = NoSample
  BY <1>2 DEF Faithful
<1>3. CASE \A z : z = sample' => Faithful(z)'
  BY <1>1, <1>3
<1> QED
  BY <1>1, <1>2, <1>3

LEMMA StacksDispatch ==
    ASSUME Static, RingInv, StacksFaithful, dispatch_sample_event
    PROVE  StacksFaithful'
<1>0. /\ pc = "consume" /\ More /\ Pass /\ UNCHANGED <<shape, records, fifo>>
      /\ shape[ring[cpu][cur][1]].type = "sample"
  BY DEF dispatch_sample_event, ringVars, queueVars
<1>1. UNCHANGED <<lbr, use_lbr>>
  BY DEF dispatch_sample_event, initVars
<1>2. PICK a \in Nat : a = ReadPos(cpu) /\ AtStart(a)
  BY <1>0, AtRecord DEF Static, AtStart
<1>3. PICK r \in Recorded : r = Word(cpu, a)[1] /\ ring[cpu][cur][1] = r
  BY <1>2 DEF AtStart
<1>4. ASSUME use_lbr = lbr
      PROVE  parse_sample_data(RecordWords) = Captured(r)
  <2>1. PICK count \in Nat :
          /\ parse_sample_data(RecordWords) =
               IF use_lbr THEN NonZero(FrameWords(r, count, EntryWords(use_lbr)))
               ELSE FrameWords(r, count, EntryWords(use_lbr))
          /\ count = Least(shape[r].nr, MaxIps)
    BY <1>0, <1>2, <1>3, <1>4, Parsed DEF Static
  <2>2. EntryWords(use_lbr) = EntryWords(lbr)
    BY <1>4
  <2>3. Captured(r) = IF lbr THEN NonZero(FrameWords(r, count, EntryWords(lbr)))
                      ELSE FrameWords(r, count, EntryWords(lbr))
    BY <2>1 DEF Captured, FrameWords
  <2> QED
    BY <1>4, <2>1, <2>2, <2>3
<1>5. \/ sample' = [rec |-> r, ips |-> parse_sample_data(RecordWords)]
      \/ sample' = sample
  BY <1>3 DEF dispatch_sample_event
<1>6. Captured(r)' = Captured(r)
  BY <1>0, <1>1, SameCaptured
<1>7. CASE sample' = [rec |-> r, ips |-> parse_sample_data(RecordWords)]
  <2>1. sample'.rec = r /\ (use_lbr = lbr => sample'.ips = Captured(r)')
    BY <1>4, <1>6, <1>7
  <2>2. use_lbr = lbr => \A s : s = sample' => Faithful(s)'
    BY <2>1 DEF Faithful
  <2> QED
    BY <1>0, <1>1, <2>2, KeptStacks DEF Static
<1>8. CASE sample' = sample
  BY <1>0, <1>1, <1>8, KeptStacks DEF Static
<1> QED
  BY <1>5, <1>7, <1>8

LEMMA NextStacks ==
    ASSUME Static, RingInv, StacksFaithful, [Next]_vars, Static'
    PROVE  StacksFaithful'
<1>1. Typed
  BY DEF Static
<1>2. CASE \/ UNCHANGED vars \/ StartLoop \/ RingEmpty \/ perf_event_consume_ring_buffer
           \/ StoreTail
  <2>1. UNCHANGED <<shape, sample, fifo>> /\ UNCHANGED <<lbr, use_lbr>>
    BY <1>2, Still
  <2> QED
    BY <1>1, <2>1, KeptStacks
<1>3. CASE SkipRecord \/ IgnoreRecord
  <2>1. UNCHANGED <<shape, sample, fifo>> /\ UNCHANGED <<lbr, use_lbr>>
    BY <1>3 DEF SkipRecord, IgnoreRecord, initVars, ringVars, queueVars
  <2> QED
    BY <1>1, <2>1, KeptStacks
<1>4. CASE initialize_manager \/ create_perf_event \/ LbrRefused \/ OpenFails
             \/ perf_add_sample_event_mmap \/ MapFails \/ perf_event_cleanup_manager
  BY <1>4, Starting, UnstartedFatesNext
<1>5. ASSUME NEW c \in Cpu, NEW s \in Shape, KernelWrite(c, s)
      PROVE  StacksFaithful'
  <2>1. UNCHANGED <<sample, fifo>> /\ UNCHANGED <<lbr, use_lbr>>
    BY <1>5 DEF KernelWrite, initVars, queueVars
  <2>2. \A r \in Recorded : shape'[r] = shape[r]
    BY <1>1, <1>5, WriteEffect
  <2> QED
    BY <1>1, <2>1, <2>2, KeptStacks
<1>6. CASE PushSample
  <2>1. /\ UNCHANGED shape /\ UNCHANGED <<lbr, use_lbr>> /\ sample' = NoSample
        /\ pc = "push" /\ Q!Put(<<sample>>)
    BY <1>6 DEF PushSample, initVars, ringVars
  <2>2. sample \in Sample
    BY <1>1, <2>1 DEF Typed
  <2>3. /\ fifo' \in Seq(Sample) /\ Len(fifo') = Len(fifo) + 1
        /\ fifo'[Len(fifo) + 1] = sample /\ \A i \in 1..Len(fifo) : fifo'[i] = fifo[i]
        /\ fifo \in Seq(Sample) /\ Len(fifo) \in Nat
    BY <1>1, <2>1, <2>2, PutFifo, FifoFacts
  <2>4. \A i \in DOMAIN fifo' : i \in DOMAIN fifo \/ i = Len(fifo) + 1
    BY <2>3
  <2>5. DOMAIN fifo = 1..Len(fifo)
    BY <2>3
  <2> QED
    BY <1>1, <2>1, <2>3, <2>4, <2>5, KeptStacks
<1>7. CASE SymbolizerTakes
  <2>1. /\ UNCHANGED <<shape, sample>> /\ UNCHANGED <<lbr, use_lbr>>
        /\ Q!Take("symbolizer", 1)
    BY <1>7 DEF SymbolizerTakes, initVars, ringVars
  <2>2. /\ Len(fifo) \in Nat /\ fifo' \in Seq(Sample) /\ Len(fifo') = Len(fifo) - 1
        /\ \A i \in 1..Len(fifo') : fifo'[i] = fifo[i + 1]
        /\ fifo \in Seq(Sample) /\ Len(fifo) >= 1
    BY <1>1, <2>1, TakeFifo, FifoFacts
  <2>3. \A i \in DOMAIN fifo' : i + 1 \in DOMAIN fifo /\ fifo'[i] = fifo[i + 1]
    <3>1. PICK n \in Nat : n = Len(fifo) /\ n >= 1
      BY <2>2
    <3>2. DOMAIN fifo' = 1..(n - 1) /\ DOMAIN fifo = 1..n
      BY <2>2, <3>1
    <3> QED
      BY <2>2, <3>1, <3>2
  <2> QED
    BY <1>1, <2>1, <2>3, KeptStacks
<1> QED
  BY <1>2, <1>3, <1>4, <1>5, <1>6, <1>7, Steps, StacksDispatch

----------------------------------------------------------------------------
(* The theorems.                                                           *)

LEMMA InitCapInv == Init => CapInv
<1> SUFFICES ASSUME Init
             PROVE  CapInv
  OBVIOUS
<1>1. Static /\ RingInv
  BY InitStatic, InitRing DEF Static
<1>2. Distinct
  <2>1. \A c \in Cpu : written[c] = <<>>
    BY DEF Init
  <2>2. \A c \in Cpu : DOMAIN written[c] = {}
    BY <2>1
  <2> QED
    BY <2>2 DEF Distinct
<1>3. Fates /\ StacksFaithful
  BY <1>1, UnstartedFates DEF Init, StartUp
<1> QED
  BY <1>1, <1>2, <1>3 DEF CapInv

LEMMA NextCapInv == CapInv /\ [Next]_vars => CapInv'
<1> SUFFICES ASSUME CapInv, [Next]_vars
             PROVE  CapInv'
  OBVIOUS
<1>0. Static /\ RingInv /\ Distinct /\ Fates /\ StacksFaithful
  BY DEF CapInv
<1>1. Static'
  BY <1>0, NextStatic
<1>2. Typed'
  BY <1>1 DEF Static
<1>3. RingInv' /\ Distinct'
  BY <1>0, <1>2, NextRing, NextDistinct
<1>4. Fates'
  BY <1>0, <1>1, NextFates
<1>5. StacksFaithful'
  BY <1>0, <1>1, NextStacks
<1> QED
  BY <1>1, <1>3, <1>4, <1>5 DEF CapInv

\* The inductive invariant holds in every reachable state, for any number of
\* CPUs and any sizes of the rings, of temp_buf and of the queue.
THEOREM Inductive == Spec => []CapInv
  BY InitCapInv, NextCapInv, PTL DEF Spec

\* The variables of the capture have their types; in particular the reader's
\* offset cur, which perf_event_consume_ring_buffer advances past one record
\* after the other, stays inside the mapped buffer, and the queue of the
\* symbolizer never holds more than its capacity.
THEOREM TypeCorrect == Spec => []TypeOK
<1>1. CapInv => TypeOK
  BY DEF CapInv, Static, Typed
<1> QED
  BY <1>1, Inductive, PTL

\* perf_event_init_with_config and cleanup_events: a start-up that fails
\* leaves nothing open, and unless LBR was refused the manager is alive for
\* as long as the main thread uses it.
THEOREM EventsReleased == Spec => []ManagerLifetime
<1>1. CapInv => ManagerLifetime
  BY DEF CapInv, Static, Opened
<1> QED
  BY <1>1, Inductive, PTL

\* perf_event_consume_ring_buffer passes every record that the kernel wrote
\* exactly once and in order, whatever is written while it reads and wherever
\* records wrap round the end of the ring.
THEOREM RecordsInOrder == Spec => []RingInOrder
<1>1. CapInv => RingInOrder
  BY RingInvInOrder DEF CapInv
<1> QED
  BY <1>1, Inductive, PTL

\* dispatch_sample_event, queue_push and the symbolizer: a sample that was
\* passed is in exactly one place, and only records too long for temp_buf are
\* skipped.
THEOREM SamplesKept == Spec => []OneFate
<1>1. CapInv => OneFate
  BY FatesOne DEF CapInv
<1> QED
  BY <1>1, Inductive, PTL

\* parse_sample_data: the stack of a sample that waits for the symbolizer is
\* the one the kernel recorded, unless LBR was refused.
THEOREM StacksAsRecorded == Spec => []StacksFaithful
<1>1. CapInv => StacksFaithful
  BY DEF CapInv
<1> QED
  BY <1>1, Inductive, PTL

=============================================================================
