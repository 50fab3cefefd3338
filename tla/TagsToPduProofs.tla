-------------------------- MODULE TagsToPduProofs --------------------------
(***************************************************************************)
(* Proofs about TagsToPdu for every stream, every way of cutting it into   *)
(* work() calls and every setting the theorem does not exclude.            *)
(*                                                                         *)
(*   TypeCorrect      TypeOK                       any setting             *)
(*   PublishedRuns    PdusAreDisjointRuns          any setting             *)
(*   BurstTimesExact  BurstTimeExact               fixed start and rate    *)
(*   SobsDetected     LeadingSobsDetected          fixed tag keys          *)
(*   PdusAligned      AlignedAndBounded            fixed sizes             *)
(*   Chunking         ChunkingIndependent          fixed configuration     *)
(*                                                                         *)
(* PdusAreDisjointRuns is not inductive: what is published is built in     *)
(* d_vector over many calls.  BurstInv says what d_vector holds in between;*)
(* RefInv relates it to the sample-by-sample definition.                   *)
(***************************************************************************)
EXTENDS TagsToPdu, SampleClockProofs, Induction, SequenceTheorems

-----------------------------------------------------------------------------
(* Vectors of items                                                        *)

(* The samples handed to work() as a vector.                               *)
LEMMA SamplesSeq ==
  ASSUME NEW first \in Nat, NEW count \in Nat
  PROVE  /\ Samples(first, count) \in Seq(Items)
         /\ Len(Samples(first, count)) = count
         /\ \A i \in 1..count : Samples(first, count)[i] = first + i - 1
BY DEF Samples, Items

(* The zeros that align the end of a PDU.                                  *)
LEMMA ZerosSeq ==
  ASSUME NEW count \in Nat
  PROVE  /\ Zeros(count) \in Seq(Items)
         /\ Len(Zeros(count)) = count
         /\ \A i \in 1..count : Zeros(count)[i] = Pad
BY DEF Zeros, Items

(* A run stays a run when the samples that follow it are appended.         *)
LEMMA ExtendRun ==
  ASSUME NEW vec \in Seq(Items), NEW pre \in Nat, NEW sob \in Nat,
         NEW next \in Nat, NEW end \in Nat, sob < next, next <= end,
         IsRun(vec, pre, sob, 0), Len(vec) = pre + next - sob
  PROVE  LET longer == vec \o Samples(next, end - next)
         IN  /\ longer \in Seq(Items)
             /\ Len(longer) = pre + end - sob
             /\ IsRun(longer, pre, sob, 0)
<1> DEFINE new == Samples(next, end - next)
           longer == vec \o new
<1>1. end - next \in Nat
  OBVIOUS
<1>2. /\ new \in Seq(Items)
      /\ Len(new) = end - next
      /\ \A i \in 1..(end - next) : new[i] = next + i - 1
  BY <1>1, SamplesSeq
<1> HIDE DEF new
<1>3. /\ longer \in Seq(Items)
      /\ Len(longer) = Len(vec) + Len(new)
      /\ \A i \in 1..(Len(vec) + Len(new)) :
           longer[i] = IF i <= Len(vec) THEN vec[i] ELSE new[i - Len(vec)]
  BY <1>2, ConcatProperties
<1> HIDE DEF longer
<1>4. Len(longer) = pre + end - sob
  BY <1>2, <1>3
<1>5. ASSUME NEW i \in 1..Len(longer)
      PROVE  longer[i] = IF i <= pre THEN Prepended
                         ELSE IF i <= Len(longer) - 0 THEN sob + i - pre - 1 ELSE Pad
  <2>1. CASE i <= Len(vec)
    BY <1>2, <1>3, <2>1 DEF IsRun
  <2>2. CASE i > Len(vec)
    <3>1. i - Len(vec) \in 1..(end - next)
      BY <1>2, <1>3, <2>2
    <3>2. longer[i] = next + (i - Len(vec)) - 1
      BY <1>2, <1>3, <2>2, <3>1
    <3> QED  BY <2>2, <3>2
  <2> QED  BY <2>1, <2>2
<1> QED  BY <1>3, <1>4, <1>5 DEF IsRun, longer, new

(* Zeros appended to a run of samples leave a padded run.                  *)
LEMMA PadRun ==
  ASSUME NEW vec \in Seq(Items), NEW pre \in Nat, NEW sob \in Nat,
         NEW pads \in Nat, IsRun(vec, pre, sob, 0), pre <= Len(vec)
  PROVE  LET padded == vec \o Zeros(pads)
         IN  /\ padded \in Seq(Items)
             /\ Len(padded) = Len(vec) + pads
             /\ IsRun(padded, pre, sob, pads)
<1> DEFINE zeros == Zeros(pads)
           padded == vec \o zeros
<1>0. /\ zeros \in Seq(Items)
      /\ Len(zeros) = pads
      /\ \A i \in 1..pads : zeros[i] = Pad
  BY ZerosSeq
<1> HIDE DEF zeros
<1>1. /\ padded \in Seq(Items)
      /\ Len(padded) = Len(vec) + pads
      /\ \A i \in 1..(Len(vec) + pads) :
           padded[i] = IF i <= Len(vec) THEN vec[i] ELSE Pad
  BY <1>0, ConcatProperties
<1> QED  BY <1>1 DEF IsRun, zeros

(* The maximum size cuts a run short.                                      *)
LEMMA TruncateRun ==
  ASSUME NEW vec \in Seq(Items), NEW pre \in Nat, NEW sob \in Nat,
         NEW size \in Nat, size <= Len(vec), IsRun(vec, pre, sob, 0)
  PROVE  LET cut == SubSeq(vec, 1, size)
         IN  /\ cut \in Seq(Items)
             /\ Len(cut) = size
             /\ IsRun(cut, pre, sob, 0)
<1> DEFINE cut == SubSeq(vec, 1, size)
<1>1. \A i \in 1..size : vec[i] \in Items
  BY ElementOfSeq
<1>2. /\ cut \in Seq(Items)
      /\ Len(cut) = size
      /\ \A i \in 1..size : cut[i] = vec[i]
  BY <1>1, SubSeqProperties
<1> QED  BY <1>2 DEF IsRun

-----------------------------------------------------------------------------
(* Types                                                                   *)

LEMMA BurstTimeType ==
  ASSUME conf \in Confs, NEW sob \in Nat, NEW k \in KnownTimes
  PROVE  BurstTime(sob, k) \in Times
<1> DEFINE delta == (sob - k.off) * Period(conf.d_samp_rate)
<1>1. delta \in Int
  <2>1. Period(conf.d_samp_rate) \in Nat
    BY PeriodNat DEF Confs
  <2> QED  BY <2>1 DEF KnownTimes
<1>2. Truncated(delta) \in Int
  BY <1>1, TruncatedInt
<1> DEFINE int_delta == Truncated(delta)
           frac == k.frac + (delta - int_delta * TicksPerSec)
           sec == k.sec + int_delta
<1>3. frac \in Int /\ sec \in Int
  BY <1>1, <1>2, ClockAssumption DEF KnownTimes
<1>4. BurstTime(sob, k) = IF frac >= TicksPerSec
                          THEN [sec |-> sec + 1, frac |-> frac - TicksPerSec]
                          ELSE [sec |-> sec, frac |-> frac]
  BY DEF BurstTime
<1> HIDE DEF frac, sec
<1> QED  BY <1>3, <1>4, ClockAssumption DEF Times

LEMMA SizeTModulusInt ==
  ASSUME NEW a \in Nat \ {0}
  PROVE  SizeTModulus(a) \in Int
<1> DEFINE sq(x) == (x * x) % a
<1>1. ASSUME NEW x \in Int PROVE sq(x) \in Int
  BY <1>1
<1> HIDE DEF sq
<1>2. sq(sq(sq(sq(sq(sq(2 % a)))))) \in Int
  <2>1. 2 % a \in Int
    OBVIOUS
  <2>2. sq(sq(sq(2 % a))) \in Int
    BY <1>1, <2>1
  <2> QED  BY <1>1, <2>2
<1> QED  BY <1>2 DEF SizeTModulus, sq

LEMMA EobPadsNat ==
  ASSUME conf \in Confs, NEW len \in Nat
  PROVE  EobPads(len) \in Nat
<1> DEFINE a == conf.d_eob_alignment
           diff == len - conf.d_eob_offset
<1>1. a \in Nat \ {0} /\ diff \in Int
  BY DEF Confs
<1> HIDE DEF a, diff
<1>2. diff % a \in 0..(a - 1)
  BY <1>1
<1>3. (diff + SizeTModulus(a)) % a \in 0..(a - 1)
  BY <1>1, SizeTModulusInt
<1>4. Misalignment(len) \in 0..(a - 1)
  BY <1>2, <1>3 DEF Misalignment, a, diff
<1> QED  BY <1>1, <1>4 DEF EobPads, a

-----------------------------------------------------------------------------
(* The inductive invariant                                                 *)

(* Inside a burst d_vector is the run from the SOB to the last consumed    *)
(* sample, and everything published ended before the SOB; outside, it is   *)
(* empty.                                                                  *)
BurstInv ==
  /\ ~d_triggered => d_vector = <<>>
  /\ d_triggered =>
       /\ d_sob_tag_offset < nitems_read
       /\ Len(d_vector) = h_pre + nitems_read - d_sob_tag_offset
       /\ IsRun(d_vector, h_pre, d_sob_tag_offset, 0)
       /\ \A i \in 1..Len(published) : EndOf(published[i]) <= d_sob_tag_offset

IInv == TypeOK /\ PdusAreDisjointRuns /\ BurstInv

LEMMA EndOfInt ==
  ASSUME NEW m \in Messages
  PROVE  EndOf(m) \in Int
BY DEF EndOf, Messages

(* What is published stays disjoint while the stream and the burst counter *)
(* advance.                                                                *)
LEMMA KeepPublished ==
  ASSUME TypeOK, PdusAreDisjointRuns, UNCHANGED published,
         nitems_read' \in Nat, nitems_read <= nitems_read',
         d_burst_counter' \in Nat, d_burst_counter <= d_burst_counter'
  PROVE  PdusAreDisjointRuns'
<1>1. ASSUME NEW i \in 1..Len(published)
      PROVE  EndOf(published[i]) <= nitems_read' /\ published[i].pdu_num < d_burst_counter'
  <2>1. published[i] \in Messages
    BY ElementOfSeq DEF TypeOK
  <2>2. EndOf(published[i]) \in Int /\ published[i].pdu_num \in Nat
    BY <2>1, EndOfInt DEF Messages
  <2>3. EndOf(published[i]) <= nitems_read /\ published[i].pdu_num < d_burst_counter
    BY DEF PdusAreDisjointRuns
  <2> QED  BY <2>2, <2>3 DEF TypeOK
<1> QED  BY <1>1 DEF PdusAreDisjointRuns

(* Publishing the run of the burst keeps the published runs disjoint.      *)
LEMMA PublishStep ==
  ASSUME IInv, d_triggered, nitems_read' \in Nat, nitems_read <= nitems_read',
         known' \in KnownTimes,
         NEW vec \in Seq(Items), NEW pads \in Nat,
         IsRun(vec, h_pre, d_sob_tag_offset, pads),
         d_sob_tag_offset + Len(vec) - h_pre - pads <= nitems_read',
         PublishMessage(vec, pads)
  PROVE  /\ published' \in Seq(Messages)
         /\ d_burst_counter' \in Nat
         /\ PdusAreDisjointRuns'
<1> USE DEF IInv
<1>1. d_burst_counter' = d_burst_counter + 1
  BY DEF PublishMessage, NextBurst
<1>2. d_burst_counter \in Nat /\ d_burst_counter' \in Nat
  BY <1>1 DEF TypeOK
<1>3. CASE UNCHANGED published
  BY <1>1, <1>2, <1>3, KeepPublished DEF TypeOK
<1>4. CASE published' = Append(published, Message(vec, pads))
  <2> DEFINE m == Message(vec, pads)
  <2>1. m \in Messages
    <3>1. BurstTime(d_sob_tag_offset, known') \in Times
      BY BurstTimeType DEF TypeOK, KnownTimes
    <3>2. conf.d_wall_clock_time \in BOOLEAN
      BY DEF TypeOK, Confs
    <3> QED  BY <3>1, <3>2 DEF Message, Messages, TypeOK
  <2>2. /\ m.data = vec
        /\ m.pre = h_pre
        /\ m.pads = pads
        /\ m.sob = d_sob_tag_offset
        /\ m.pdu_num = d_burst_counter
    BY DEF Message
  <2> HIDE DEF m
  <2>3. /\ published \in Seq(Messages)
        /\ published' \in Seq(Messages)
        /\ Len(published') = Len(published) + 1
        /\ \A i \in 1..Len(published) : published'[i] = published[i]
        /\ published'[Len(published) + 1] = m
    BY <1>4, <2>1, AppendProperties DEF TypeOK, m
  <2>4. EndOf(m) <= nitems_read' /\ EndOf(m) \in Int
    BY <2>1, <2>2, EndOfInt DEF EndOf
  <2>5. ASSUME NEW i \in 1..Len(published)
        PROVE  /\ IsRun(published[i].data, published[i].pre, published[i].sob, published[i].pads)
               /\ EndOf(published[i]) <= nitems_read'
               /\ EndOf(published[i]) <= m.sob
               /\ published[i].pdu_num < m.pdu_num
               /\ published[i].pdu_num < d_burst_counter'
    <3>1. published[i] \in Messages
      BY <2>3, ElementOfSeq
    <3>2. EndOf(published[i]) \in Int /\ published[i].pdu_num \in Nat
      BY <3>1, EndOfInt DEF Messages
    <3>3. /\ IsRun(published[i].data, published[i].pre, published[i].sob, published[i].pads)
          /\ EndOf(published[i]) <= nitems_read
          /\ published[i].pdu_num < d_burst_counter
      BY DEF PdusAreDisjointRuns
    <3>4. EndOf(published[i]) <= d_sob_tag_offset
      BY DEF BurstInv
    <3>5. nitems_read \in Int
      BY DEF TypeOK
    <3>6. /\ EndOf(published[i]) <= nitems_read'
          /\ published[i].pdu_num < d_burst_counter'
      BY <1>1, <1>2, <3>2, <3>3, <3>5
    <3> QED  BY <2>2, <3>3, <3>4, <3>6
  <2>6. ASSUME NEW i \in 1..Len(published')
        PROVE  /\ IsRun(published'[i].data, published'[i].pre, published'[i].sob, published'[i].pads)
               /\ EndOf(published'[i]) <= nitems_read'
               /\ published'[i].pdu_num < d_burst_counter'
    <3>1. CASE i = Len(published) + 1
      BY <1>1, <1>2, <2>2, <2>3, <2>4, <3>1
    <3>2. CASE i \in 1..Len(published)
      BY <2>3, <2>5, <3>2
    <3> QED  BY <2>3, <3>1, <3>2
  <2>7. ASSUME NEW i \in 1..Len(published'), NEW j \in 1..Len(published'), i < j
        PROVE  /\ EndOf(published'[i]) <= published'[j].sob
               /\ published'[i].pdu_num < published'[j].pdu_num
    <3>1. i \in 1..Len(published)
      BY <2>3, <2>7
    <3>2. CASE j = Len(published) + 1
      BY <2>3, <2>5, <3>1, <3>2
    <3>3. CASE j \in 1..Len(published)
      BY <2>3, <2>7, <3>1, <3>3 DEF PdusAreDisjointRuns
    <3> QED  BY <2>3, <3>2, <3>3
  <2>8. PdusAreDisjointRuns'
    BY <2>6, <2>7 DEF PdusAreDisjointRuns, EndOf, IsRun
  <2> QED  BY <1>2, <2>3, <2>8
<1> QED  BY <1>3, <1>4 DEF PublishMessage

-----------------------------------------------------------------------------
(* The steps of work()                                                     *)

LEMMA ScanType ==
  ASSUME TypeOK, NEW first \in Nat, NEW last \in Int, ScanTimeTags(first, last)
  PROVE  known' \in KnownTimes
<1>1. CASE UNCHANGED known
  BY <1>1 DEF TypeOK, KnownTimes
<1>2. CASE \E o \in first..last : known' = TimeTag(o)
  BY <1>2, TimeTagTrue DEF KnownTimes
<1> QED  BY <1>1, <1>2 DEF ScanTimeTags

(* work() leaves the stream and the parameters alone.                      *)
LEMMA WorkTypes ==
  ASSUME TypeOK, UNCHANGED <<stream, conf, start_setter>>,
         known' \in KnownTimes, nitems_read' \in 0..Len(stream),
         d_triggered' \in BOOLEAN, d_vector' \in Seq(Items),
         d_sob_tag_offset' \in Nat, d_burst_counter' \in Nat,
         detects' \in Seq(Nat), published' \in Seq(Messages), h_pre' \in Nat
  PROVE  TypeOK'
BY DEF TypeOK, KnownTimes

LEMMA FillStep ==
  ASSUME IInv, d_triggered, known' \in KnownTimes,
         NEW end \in Nat, nitems_read <= end, end <= Len(stream), Fill(end),
         UNCHANGED <<stream, conf, start_setter>>
  PROVE  IInv'
<1> USE DEF IInv
<1> DEFINE vec == d_vector \o Samples(nitems_read, end - nitems_read)
           cut == SubSeq(vec, 1, conf.d_max_pdu_size)
<1>1. /\ d_sob_tag_offset \in Nat /\ nitems_read \in Nat /\ h_pre \in Nat
      /\ conf.d_max_pdu_size \in Nat
      /\ nitems_read' = end
  BY DEF TypeOK, Fill, Confs
<1>2. /\ vec \in Seq(Items)
      /\ Len(vec) = h_pre + end - d_sob_tag_offset
      /\ IsRun(vec, h_pre, d_sob_tag_offset, 0)
  BY <1>1, ExtendRun DEF TypeOK, BurstInv
<1>3. /\ nitems_read' \in 0..Len(stream)
      /\ UNCHANGED <<d_sob_tag_offset, h_pre, detects>>
      /\ d_sob_tag_offset' \in Nat /\ h_pre' \in Nat /\ detects' \in Seq(Nat)
  <2>1. UNCHANGED <<d_sob_tag_offset, h_pre, detects>>
    BY DEF Fill
  <2> QED  BY <1>1, <2>1 DEF TypeOK
<1>4. CASE Len(vec) >= conf.d_max_pdu_size /\ PublishMessage(cut, 0)
  <2> HIDE DEF vec
  <2>1. /\ cut \in Seq(Items)
        /\ Len(cut) = conf.d_max_pdu_size
        /\ IsRun(cut, h_pre, d_sob_tag_offset, 0)
    BY <1>1, <1>2, <1>4, TruncateRun
  <2> HIDE DEF cut
  <2>2. d_sob_tag_offset + Len(cut) - h_pre - 0 <= nitems_read'
    BY <1>1, <1>2, <1>4, <2>1
  <2>3. /\ published' \in Seq(Messages)
        /\ d_burst_counter' \in Nat
        /\ PdusAreDisjointRuns'
    BY <1>1, <1>4, <2>1, <2>2, PublishStep
  <2>4. d_triggered' = FALSE /\ d_vector' = <<>> /\ d_vector' \in Seq(Items)
    BY <1>4 DEF PublishMessage, NextBurst
  <2>5. TypeOK'
    BY <1>3, <2>3, <2>4, WorkTypes
  <2> QED  BY <2>3, <2>4, <2>5 DEF BurstInv
<1>5. CASE /\ d_vector' = vec
           /\ UNCHANGED <<d_triggered, d_burst_counter, published>>
  <2> HIDE DEF vec
  <2>1. TypeOK'
    BY <1>2, <1>3, <1>5, WorkTypes DEF TypeOK
  <2>2. PdusAreDisjointRuns'
    BY <1>1, <1>5, KeepPublished DEF TypeOK
  <2>3. d_sob_tag_offset < end
    BY <1>1 DEF BurstInv
  <2>4. BurstInv'
    BY <1>1, <1>2, <1>3, <1>5, <2>3 DEF BurstInv, EndOf, IsRun
  <2> QED  BY <2>1, <2>2, <2>4
<1> QED  BY <1>4, <1>5 DEF Fill

LEMMA EndBurstStep ==
  ASSUME IInv, d_triggered, known' \in KnownTimes,
         NEW o \in Nat, nitems_read <= o, o < Len(stream), EndBurst(o),
         UNCHANGED <<stream, conf, start_setter>>
  PROVE  IInv'
<1> USE DEF IInv
<1> DEFINE vec == d_vector \o Samples(nitems_read, o - nitems_read)
           pads == EobPads(Len(vec))
           padded == vec \o Zeros(pads)
<1>1. /\ d_sob_tag_offset \in Nat /\ nitems_read \in Nat /\ h_pre \in Nat
      /\ nitems_read' = o + 1
  BY DEF TypeOK, EndBurst
<1>2. /\ vec \in Seq(Items)
      /\ Len(vec) = h_pre + o - d_sob_tag_offset
      /\ IsRun(vec, h_pre, d_sob_tag_offset, 0)
  BY <1>1, ExtendRun DEF TypeOK, BurstInv
<1>3. PublishMessage(padded, pads)
  BY DEF EndBurst
<1> HIDE DEF vec
<1>4. pads \in Nat
  <2>1. Len(vec) \in Nat
    BY <1>2
  <2> QED  BY <2>1, EobPadsNat DEF TypeOK
<1> HIDE DEF pads
<1>5. h_pre <= Len(vec)
  BY <1>1, <1>2 DEF BurstInv
<1>6. /\ padded \in Seq(Items)
      /\ Len(padded) = Len(vec) + pads
      /\ IsRun(padded, h_pre, d_sob_tag_offset, pads)
  BY <1>1, <1>2, <1>4, <1>5, PadRun
<1> HIDE DEF padded
<1>7. d_sob_tag_offset + Len(padded) - h_pre - pads <= nitems_read'
  BY <1>1, <1>2, <1>4, <1>6
<1>8. /\ published' \in Seq(Messages)
      /\ d_burst_counter' \in Nat
      /\ PdusAreDisjointRuns'
  BY <1>1, <1>3, <1>4, <1>6, <1>7, PublishStep
<1>9. d_triggered' = FALSE /\ d_vector' = <<>> /\ d_vector' \in Seq(Items)
  BY <1>3 DEF PublishMessage, NextBurst
<1>10. UNCHANGED <<d_sob_tag_offset, h_pre, detects>> /\ nitems_read' \in 0..Len(stream)
  BY <1>1 DEF EndBurst, TypeOK
<1>11. TypeOK'
  BY <1>1, <1>8, <1>9, <1>10, WorkTypes DEF TypeOK
<1> QED  BY <1>8, <1>9, <1>11 DEF BurstInv

LEMMA DropBurstStep ==
  ASSUME IInv, known' \in KnownTimes,
         NEW o \in Nat, nitems_read <= o, o < Len(stream), DropBurst(o),
         UNCHANGED <<stream, conf, start_setter>>
  PROVE  IInv'
<1> USE DEF IInv
<1>1. /\ nitems_read' \in 0..Len(stream) /\ nitems_read <= nitems_read'
      /\ UNCHANGED <<d_sob_tag_offset, h_pre, detects, published>>
  BY DEF DropBurst, TypeOK, ports
<1>2. /\ d_triggered' = FALSE
      /\ d_vector' = <<>> /\ d_vector' \in Seq(Items)
      /\ d_burst_counter' \in Nat /\ d_burst_counter <= d_burst_counter'
  BY DEF DropBurst, NextBurst, TypeOK
<1>3. TypeOK'
  BY <1>1, <1>2, WorkTypes DEF TypeOK
<1>4. PdusAreDisjointRuns'
  BY <1>1, <1>2, KeepPublished DEF TypeOK
<1> QED  BY <1>2, <1>3, <1>4 DEF BurstInv

LEMMA SkipStep ==
  ASSUME IInv, ~d_triggered, known' \in KnownTimes,
         NEW end \in Nat, nitems_read <= end, end <= Len(stream), Skip(end),
         UNCHANGED <<stream, conf, start_setter>>
  PROVE  IInv'
<1> USE DEF IInv
<1>1. /\ nitems_read' \in 0..Len(stream) /\ nitems_read <= nitems_read'
      /\ UNCHANGED <<d_triggered, d_vector, d_sob_tag_offset, d_burst_counter,
                     h_pre, detects, published>>
  BY DEF Skip, TypeOK, burst, ports
<1>2. TypeOK'
  BY <1>1, WorkTypes DEF TypeOK
<1>3. PdusAreDisjointRuns'
  BY <1>1, KeepPublished DEF TypeOK
<1> QED  BY <1>1, <1>2, <1>3 DEF BurstInv

LEMMA StartBurstStep ==
  ASSUME IInv, ~d_triggered, known' \in KnownTimes,
         NEW o \in Nat, nitems_read <= o, o < Len(stream), StartBurst(o),
         UNCHANGED <<stream, conf, start_setter>>
  PROVE  IInv'
<1> USE DEF IInv
<1> DEFINE len == conf.prepend_len
           prepend == [i \in 1..len |-> Prepended]
<1>1. /\ nitems_read' = o + 1 /\ nitems_read' \in 0..Len(stream)
      /\ nitems_read \in Nat /\ nitems_read <= nitems_read'
      /\ d_sob_tag_offset' = o /\ h_pre' = Len(d_vector) + len
      /\ d_triggered' = TRUE
      /\ UNCHANGED <<d_burst_counter, published>>
  BY DEF StartBurst, TypeOK
<1>2. d_vector = <<>> /\ len \in Nat
  BY DEF BurstInv, TypeOK, Confs
<1>3. h_pre' = len /\ d_vector' = <<>> \o prepend \o <<o>>
  BY <1>1, <1>2 DEF StartBurst
<1> HIDE DEF len
<1>4. /\ prepend \in Seq(Items)
      /\ Len(prepend) = len
      /\ \A i \in 1..len : prepend[i] = Prepended
  BY <1>2 DEF Items
<1> HIDE DEF prepend
<1>5. /\ <<o>> \in Seq(Items)
      /\ Len(<<o>>) = 1
      /\ <<o>>[1] = o
  BY DEF Items
<1>6. /\ d_vector' \in Seq(Items)
      /\ Len(d_vector') = len + 1
      /\ \A i \in 1..(len + 1) : d_vector'[i] = IF i <= len THEN prepend[i] ELSE <<o>>[i - len]
  <2>1. d_vector' = prepend \o <<o>>
    BY <1>3, <1>4, ConcatEmptySeq
  <2> QED  BY <1>4, <1>5, <2>1, ConcatProperties
<1>7. \A i \in 1..(len + 1) : d_vector'[i] = IF i <= len THEN Prepended ELSE o
  BY <1>2, <1>4, <1>5, <1>6
<1>8. IsRun(d_vector', len, o, 0)
  BY <1>2, <1>6, <1>7 DEF IsRun
<1>9. detects' \in Seq(Nat)
  BY DEF StartBurst, TypeOK
<1>10. TypeOK'
  BY <1>1, <1>2, <1>3, <1>6, <1>9, WorkTypes DEF TypeOK
<1>11. PdusAreDisjointRuns'
  BY <1>1, KeepPublished DEF TypeOK
<1>12. \A i \in 1..Len(published) : EndOf(published[i]) <= o
  <2>1. \A i \in 1..Len(published) : EndOf(published[i]) <= nitems_read
    BY DEF PdusAreDisjointRuns
  <2>2. \A i \in 1..Len(published) : EndOf(published[i]) \in Int
    BY ElementOfSeq, EndOfInt DEF TypeOK
  <2> QED  BY <1>1, <2>1, <2>2
<1>13. BurstInv'
  <2>1. d_sob_tag_offset' < nitems_read'
    BY <1>1
  <2>2. Len(d_vector') = h_pre' + nitems_read' - d_sob_tag_offset'
    BY <1>1, <1>2, <1>3, <1>6
  <2>3. IsRun(d_vector', h_pre', d_sob_tag_offset', 0)
    BY <1>1, <1>3, <1>8
  <2>4. \A i \in 1..Len(published') : EndOf(published'[i]) <= d_sob_tag_offset'
    BY <1>1, <1>12
  <2> QED  BY <1>1, <2>1, <2>2, <2>3, <2>4 DEF BurstInv, EndOf, IsRun
<1> QED  BY <1>10, <1>11, <1>13

(* One call of work().                                                     *)
LEMMA WorkStep ==
  ASSUME IInv, Work
  PROVE  IInv'
<1>1. UNCHANGED <<stream, conf, start_setter>>
  BY DEF Work
<1>2. PICK o \in nitems_read..(Len(stream) - 1) : WorkToMark(o) \/ WorkNoMark(o)
  BY DEF Work
<1>3. /\ o \in Nat /\ nitems_read \in Nat
      /\ nitems_read <= o /\ o < Len(stream) /\ o <= Len(stream)
      /\ o + 1 \in Nat /\ nitems_read <= o + 1 /\ o + 1 <= Len(stream)
  BY DEF IInv, TypeOK
<1>4. known' \in KnownTimes
  BY <1>2, <1>3, ScanType DEF WorkToMark, WorkNoMark, IInv
<1>5. CASE WorkToMark(o)
  <2>1. CASE d_triggered /\ Fill(o)
    BY <1>1, <1>3, <1>4, <2>1, FillStep
  <2>2. CASE d_triggered /\ EndBurst(o)
    BY <1>1, <1>3, <1>4, <2>2, EndBurstStep
  <2>3. CASE DropBurst(o)
    BY <1>1, <1>3, <1>4, <2>3, DropBurstStep
  <2>4. CASE ~d_triggered /\ StartBurst(o)
    BY <1>1, <1>3, <1>4, <2>4, StartBurstStep
  <2>5. CASE ~d_triggered /\ Skip(o + 1)
    BY <1>1, <1>3, <1>4, <2>5, SkipStep
  <2> QED  BY <1>5, <2>1, <2>2, <2>3, <2>4, <2>5 DEF WorkToMark
<1>6. CASE WorkNoMark(o)
  <2>1. CASE d_triggered /\ Fill(o)
    BY <1>1, <1>3, <1>4, <2>1, FillStep
  <2>2. CASE ~d_triggered /\ Skip(o + 1)
    BY <1>1, <1>3, <1>4, <2>2, SkipStep
  <2> QED  BY <1>6, <2>1, <2>2 DEF WorkNoMark
<1> QED  BY <1>2, <1>5, <1>6

-----------------------------------------------------------------------------
(* The setters                                                             *)

LEMMA SetConfStep ==
  ASSUME IInv, NEW c \in Confs, SetConf(c)
  PROVE  IInv'
<1> USE DEF IInv
<1>1. TypeOK'
  BY DEF SetConf, TypeOK, burst, ports
<1>2. PdusAreDisjointRuns'
  BY KeepPublished DEF SetConf, TypeOK, burst, ports
<1> QED  BY <1>1, <1>2 DEF SetConf, BurstInv, burst, ports, EndOf, IsRun

(* set_start_time touches the known time and its own progress only.        *)
LEMMA SetStartTimeStep ==
  ASSUME IInv, SetStartTimeSec \/ SetStartTimeFrac \/ SetStartTimeOffset
  PROVE  IInv'
<1> USE DEF IInv
<1>1. UNCHANGED <<stream, nitems_read, conf, burst, ports>>
  BY DEF SetStartTimeSec, SetStartTimeFrac, SetStartTimeOffset
<1>2. /\ known' \in KnownTimes
      /\ start_setter' \in {<<>>} \cup ({"frac", "off"} \X Times)
  <2>1. CASE SetStartTimeSec
    <3>1. PICK t \in Times : /\ known' = [known EXCEPT !.sec = t.sec]
                             /\ start_setter' = <<"frac", t>>
      BY <2>1, SettingsAssumption DEF SetStartTimeSec
    <3>2. t.sec \in Int
      BY DEF Times
    <3>3. known' \in KnownTimes
      BY <3>1, <3>2 DEF TypeOK, KnownTimes
    <3>4. <<"frac", t>> \in {"frac", "off"} \X Times
      OBVIOUS
    <3> QED  BY <3>1, <3>3, <3>4
  <2>2. CASE SetStartTimeFrac
    <3>1. start_setter \in {"frac", "off"} \X Times
      BY <2>2 DEF SetStartTimeFrac, TypeOK
    <3>2. start_setter[2] \in Times
      BY <3>1
    <3>3. start_setter[2].frac \in Int
      BY <3>2 DEF Times
    <3>4. known' \in KnownTimes
      BY <2>2, <3>3 DEF SetStartTimeFrac, TypeOK, KnownTimes
    <3>5. <<"off", start_setter[2]>> \in {"frac", "off"} \X Times
      BY <3>2
    <3> QED  BY <2>2, <3>4, <3>5 DEF SetStartTimeFrac
  <2>3. CASE SetStartTimeOffset
    BY <2>3 DEF SetStartTimeOffset, TypeOK, KnownTimes
  <2> QED  BY <2>1, <2>2, <2>3
<1>3. TypeOK'
  BY <1>1, <1>2 DEF TypeOK, burst, ports
<1>4. PdusAreDisjointRuns'
  BY <1>1, KeepPublished DEF TypeOK, burst, ports
<1> QED  BY <1>1, <1>3, <1>4 DEF BurstInv, burst, ports, EndOf, IsRun

LEMMA SettersStep ==
  ASSUME IInv, Setters
  PROVE  IInv'
<1>1. conf \in Confs
  BY DEF IInv, TypeOK
<1>2. CASE SetStartTag \/ SetEndTag \/ SetTimeTagKey
  BY <1>1, <1>2, SetConfStep, SettingsAssumption
  DEF SetStartTag, SetEndTag, SetTimeTagKey, Confs
<1>3. CASE SetMaxPduSize \/ SetTailSize \/ SetPrepend
  BY <1>1, <1>3, SetConfStep, SettingsAssumption
  DEF SetMaxPduSize, SetTailSize, SetPrepend, Confs
<1>4. CASE SetSampRate \/ PublishSobMsgs \/ EnableTimeDebug
  BY <1>1, <1>4, SetConfStep, SettingsAssumption
  DEF SetSampRate, PublishSobMsgs, EnableTimeDebug, Confs
<1>5. CASE SetEobParameters
  BY <1>1, <1>5, SetConfStep, SettingsAssumption DEF SetEobParameters, Confs
<1>6. CASE HandleCtrlMsg
  BY <1>1, <1>6, SetConfStep, SettingsAssumption DEF HandleCtrlMsg, Confs
<1>7. CASE SetStartTimeSec \/ SetStartTimeFrac \/ SetStartTimeOffset
  BY <1>7, SetStartTimeStep
<1> QED  BY <1>2, <1>3, <1>4, <1>5, <1>6, <1>7 DEF Setters

LEMMA InitIInv ==
  ASSUME Init
  PROVE  IInv
<1>1. stream \in Seq(Seq(TagKeys)) /\ conf \in Confs
  BY ConstAssumption DEF Init
<1>2. known \in KnownTimes
  BY TimeTagTrue DEF Init
<1>3. d_vector \in Seq(Items) /\ detects \in Seq(Nat) /\ published \in Seq(Messages)
  BY DEF Init
<1>4. nitems_read \in 0..Len(stream)
  BY <1>1, LenProperties DEF Init
<1>5. start_setter \in {<<>>} \cup ({"frac", "off"} \X Times)
  BY DEF Init
<1>6. /\ d_triggered \in BOOLEAN /\ d_sob_tag_offset \in Nat
      /\ d_burst_counter \in Nat /\ h_pre \in Nat
  BY DEF Init
<1>7. TypeOK
  BY <1>1, <1>2, <1>3, <1>4, <1>5, <1>6 DEF TypeOK
<1> QED  BY <1>7 DEF Init, IInv, PdusAreDisjointRuns, BurstInv

LEMMA NextIInv ==
  ASSUME IInv, [Next]_vars
  PROVE  IInv'
<1>1. CASE Work
  BY <1>1, WorkStep
<1>2. CASE Setters
  BY <1>2, SettersStep
<1>3. CASE UNCHANGED vars
  <2>1. TypeOK'
    BY <1>3 DEF vars, burst, ports, IInv, TypeOK
  <2>2. PdusAreDisjointRuns'
    BY <1>3, KeepPublished DEF vars, burst, ports, IInv, TypeOK
  <2> QED  BY <1>3, <2>1, <2>2 DEF vars, burst, ports, IInv, BurstInv, EndOf, IsRun
<1> QED  BY <1>1, <1>2, <1>3 DEF Next

(* The inductive invariant holds in every reachable state.                 *)
THEOREM Invariance == Spec => []IInv
<1>1. Init => IInv
  BY InitIInv
<1>2. IInv /\ [Next]_vars => IInv'
  BY NextIInv
<1> QED  BY <1>1, <1>2, PTL DEF Spec

(* work() and the setters keep every variable in its type, and no call     *)
(* consumes a sample it was not offered.                                   *)
THEOREM TypeCorrect == Spec => []TypeOK
<1>1. IInv => TypeOK
  BY DEF IInv
<1> QED  BY <1>1, Invariance, PTL

(* Every PDU is an unbroken run of samples from its own SOB and no two     *)
(* PDUs overlap, for every stream, chunking and reconfiguration.           *)
THEOREM PublishedRuns == Spec => []PdusAreDisjointRuns
<1>1. IInv => PdusAreDisjointRuns
  BY DEF IInv
<1> QED  BY <1>1, Invariance, PTL

-----------------------------------------------------------------------------
(* The burst time, in exact arithmetic                                     *)

(* The known time is the true time of the known offset.                    *)
TimeInv ==
  /\ conf.d_samp_rate = TrueRate
  /\ start_setter = <<>>
  /\ Ticks(known) = TrueTime(known.off)
  /\ BurstTimeExact

(* The carry and the truncation of publish_message lose nothing.           *)
LEMMA BurstTimeTrue ==
  ASSUME conf \in Confs, conf.d_samp_rate = TrueRate,
         NEW sob \in Nat, NEW k \in KnownTimes, Ticks(k) = TrueTime(k.off)
  PROVE  Ticks(BurstTime(sob, k)) = TrueTime(sob)
<1> DEFINE period == Period(TrueRate)
           delta == (sob - k.off) * period
           int_delta == Truncated(delta)
           frac == k.frac + (delta - int_delta * TicksPerSec)
           sec == k.sec + int_delta
<1>1. period \in Nat
  BY PeriodNat DEF Confs
<1>2. k.sec \in Int /\ k.frac \in Int /\ k.off \in Nat /\ TicksPerSec \in Nat
  BY ClockAssumption DEF KnownTimes
<1>3. /\ TrueTime(sob) = ClockAtZero + sob * period
      /\ TrueTime(k.off) = ClockAtZero + k.off * period
  BY DEF TrueTime
<1>4. BurstTime(sob, k) = IF frac >= TicksPerSec
                          THEN [sec |-> sec + 1, frac |-> frac - TicksPerSec]
                          ELSE [sec |-> sec, frac |-> frac]
  BY DEF BurstTime
<1>5. k.sec * TicksPerSec + k.frac = ClockAtZero + k.off * period
  BY <1>3 DEF Ticks
<1> HIDE DEF period
<1>6. delta \in Int /\ delta = sob * period - k.off * period
  BY <1>1, <1>2
<1> HIDE DEF delta
<1>7. int_delta \in Int
  BY <1>6, TruncatedInt
<1> HIDE DEF int_delta
<1>8. frac \in Int /\ sec \in Int
  BY <1>2, <1>6, <1>7
<1>9. sec * TicksPerSec + frac = TrueTime(sob)
  <2>1. sec * TicksPerSec = k.sec * TicksPerSec + int_delta * TicksPerSec
    BY <1>2, <1>7
  <2>2. /\ sob * period \in Int /\ k.off * period \in Int
        /\ k.sec * TicksPerSec \in Int /\ int_delta * TicksPerSec \in Int
    BY <1>1, <1>2, <1>7
  <2> DEFINE a == sob * period
             b == k.off * period
             c == k.sec * TicksPerSec
             d == int_delta * TicksPerSec
  <2>3. a \in Int /\ b \in Int /\ c \in Int /\ d \in Int
    BY <2>2
  <2>4. /\ c + k.frac = ClockAtZero + b
        /\ delta = a - b
        /\ sec * TicksPerSec = c + d
        /\ frac = k.frac + (delta - d)
        /\ TrueTime(sob) = ClockAtZero + a
    BY <1>3, <1>5, <1>6, <2>1 DEF period
  <2> HIDE DEF a, b, c, d, frac, sec
  <2>5. /\ delta \in Int /\ k.frac \in Int /\ ClockAtZero \in Int
    BY <1>2, <1>6, ClockAssumption
  <2>6. (c + d) + (k.frac + (delta - d)) = ClockAtZero + a
    BY <2>3, <2>4, <2>5
  <2> QED  BY <2>4, <2>6
<1> HIDE DEF frac, sec
<1>10. (sec + 1) * TicksPerSec + (frac - TicksPerSec) = sec * TicksPerSec + frac
  BY <1>2, <1>8
<1> QED  BY <1>4, <1>9, <1>10 DEF Ticks

LEMMA ScanTrue ==
  ASSUME TypeOK, Ticks(known) = TrueTime(known.off),
         NEW first \in Nat, NEW last \in Int, ScanTimeTags(first, last)
  PROVE  Ticks(known') = TrueTime(known'.off)
<1>1. CASE UNCHANGED known
  BY <1>1
<1>2. CASE \E o \in first..last : known' = TimeTag(o)
  <2>1. PICK o \in first..last : known' = TimeTag(o)
    BY <1>2
  <2>2. known'.off = o
    BY <2>1 DEF TimeTag
  <2> QED  BY <2>1, <2>2, TimeTagTrue
<1> QED  BY <1>1, <1>2 DEF ScanTimeTags

(* What a call of work() publishes carries the true time of its SOB.       *)
LEMMA PublishTrue ==
  ASSUME TypeOK, TimeInv, known' \in KnownTimes, Ticks(known') = TrueTime(known'.off),
         NEW vec, NEW pads, published' = Append(published, Message(vec, pads)),
         published' \in Seq(Messages)
  PROVE  BurstTimeExact'
<1> DEFINE m == Message(vec, pads)
<1>1. m.burst_time = BurstTime(d_sob_tag_offset, known') /\ m.sob = d_sob_tag_offset
  BY DEF Message
<1>2. Ticks(BurstTime(d_sob_tag_offset, known')) = TrueTime(d_sob_tag_offset)
  BY BurstTimeTrue DEF TypeOK, TimeInv
<1>3. Ticks(m.burst_time) = TrueTime(m.sob)
  BY <1>1, <1>2
<1> HIDE DEF m
<1>4. /\ Len(published') = Len(published) + 1
      /\ published'[Len(published) + 1] = m
      /\ \A i \in 1..Len(published) : published'[i] = published[i]
      /\ Len(published) \in Nat
  BY LenProperties DEF TypeOK, m
<1>5. ASSUME NEW i \in 1..Len(published')
      PROVE  Ticks(published'[i].burst_time) = TrueTime(published'[i].sob)
  <2>1. CASE i = Len(published) + 1
    BY <1>3, <1>4, <2>1
  <2>2. CASE i \in 1..Len(published)
    BY <1>4, <2>2 DEF TimeInv, BurstTimeExact, Ticks
  <2> QED  BY <1>4, <2>1, <2>2
<1> QED  BY <1>5 DEF BurstTimeExact, Ticks, TrueTime

LEMMA WorkTimeInv ==
  ASSUME IInv, TimeInv, Work
  PROVE  TimeInv'
<1>1. UNCHANGED <<stream, conf, start_setter>>
  BY DEF Work
<1>2. PICK o \in nitems_read..(Len(stream) - 1) : WorkToMark(o) \/ WorkNoMark(o)
  BY DEF Work
<1>3. o \in Nat /\ nitems_read \in Nat /\ TypeOK
  BY DEF IInv, TypeOK
<1>4. known' \in KnownTimes /\ Ticks(known') = TrueTime(known'.off)
  BY <1>2, <1>3, ScanType, ScanTrue DEF WorkToMark, WorkNoMark, TimeInv
<1>5. published' \in Seq(Messages)
  BY WorkStep DEF IInv, TypeOK
<1>6. \/ UNCHANGED published
      \/ \E vec, pads : PublishMessage(vec, pads)
  BY <1>2 DEF WorkToMark, WorkNoMark, Fill, EndBurst, DropBurst, StartBurst, Skip, ports
<1>7. BurstTimeExact'
  <2>1. CASE UNCHANGED published
    BY <2>1 DEF TimeInv, BurstTimeExact, TrueTime
  <2>2. CASE \E vec, pads : published' = Append(published, Message(vec, pads))
    BY <1>3, <1>4, <1>5, <2>2, PublishTrue
  <2> QED  BY <1>6, <2>1, <2>2 DEF PublishMessage
<1> QED  BY <1>1, <1>4, <1>7 DEF TimeInv

(* When the application changes neither the start time nor the sample      *)
(* rate, every burst time is the true time of its SOB, for every stream,   *)
(* chunking and placement of time tags, those after the SOB included.      *)
THEOREM BurstTimesExact ==
  ASSUME StartTimeSettings = {}, RateSettings = {}
  PROVE  Spec => []BurstTimeExact
<1>1. Init => TimeInv
  <2> SUFFICES ASSUME Init PROVE TimeInv
    OBVIOUS
  <2>1. known.off = 0 /\ Ticks(known) = TrueTime(known.off)
    BY TimeTagTrue DEF Init, TimeTag
  <2>2. conf.d_samp_rate = TrueRate
    BY ConstAssumption DEF Init
  <2>3. start_setter = <<>> /\ BurstTimeExact
    BY DEF Init, BurstTimeExact
  <2> QED  BY <2>1, <2>2, <2>3 DEF TimeInv
<1>2. IInv /\ TimeInv /\ [Next]_vars => TimeInv'
  <2> SUFFICES ASSUME IInv, TimeInv, [Next]_vars PROVE TimeInv'
    OBVIOUS
  <2>1. CASE Work
    BY <2>1, WorkTimeInv
  <2>2. CASE Setters
    <3>1. ~SetSampRate /\ ~SetStartTimeSec /\ ~SetStartTimeFrac /\ ~SetStartTimeOffset
      BY DEF SetSampRate, SetStartTimeSec, SetStartTimeFrac, SetStartTimeOffset, TimeInv
    <3>2. conf \in Confs
      BY DEF IInv, TypeOK
    <3>3. /\ conf'.d_samp_rate = conf.d_samp_rate
          /\ UNCHANGED <<known, start_setter, published>>
      <4>1. CASE SetStartTag \/ SetEndTag \/ SetTimeTagKey
        BY <3>2, <4>1 DEF SetStartTag, SetEndTag, SetTimeTagKey, SetConf, ports, Confs
      <4>2. CASE SetMaxPduSize \/ SetTailSize \/ SetPrepend
        BY <3>2, <4>2 DEF SetMaxPduSize, SetTailSize, SetPrepend, SetConf, ports, Confs
      <4>3. CASE PublishSobMsgs \/ EnableTimeDebug
        BY <3>2, <4>3 DEF PublishSobMsgs, EnableTimeDebug, SetConf, ports, Confs
      <4>4. CASE SetEobParameters
        BY <3>2, <4>4 DEF SetEobParameters, SetConf, ports, Confs
      <4>5. CASE HandleCtrlMsg
        BY <3>2, <4>5 DEF HandleCtrlMsg, SetConf, ports, Confs
      <4> QED  BY <2>2, <3>1, <4>1, <4>2, <4>3, <4>4, <4>5 DEF Setters
    <3> QED  BY <3>3 DEF TimeInv, BurstTimeExact, TrueTime, Ticks
  <2>3. CASE UNCHANGED vars
    BY <2>3 DEF vars, ports, TimeInv, BurstTimeExact, TrueTime, Ticks
  <2> QED  BY <2>1, <2>2, <2>3 DEF Next
<1>3. TimeInv => BurstTimeExact
  BY DEF TimeInv
<1> QED  BY <1>1, <1>2, <1>3, Invariance, PTL DEF Spec

-----------------------------------------------------------------------------
(* No SOB is lost                                                          *)

(* What is announced, by the mark at which the scan of a sample stops.     *)
MarksDetected ==
  /\ \A i, j \in 1..Len(detects) : i < j => detects[i] < detects[j]
  /\ {detects[i] : i \in 1..Len(detects)} =
       {o \in 0..(nitems_read - 1) : MarkIsSob(o)}

DetectsInv == MarksDetected /\ conf.d_pub_sobs = TRUE

(* The scan of a sample stops at a SOB when it has one that is not behind  *)
(* an EOB.                                                                 *)
LEMMA LeadingSob ==
  ASSUME TypeOK, NEW o \in 0..(nitems_read - 1)
  PROVE  MarkIsSob(o) <=> HasSob(o) /\ ~SobBehindEob(o)
<1> DEFINE len == Len(TagsAt(o))
           sob == conf.d_sob_tag_key
           eob == conf.d_eob_tag_key
           marks == {i \in 1..len : IsMark(TagsAt(o)[i])}
<1>1. len \in Nat
  <2>1. o + 1 \in 1..Len(stream) /\ stream \in Seq(Seq(TagKeys))
    BY DEF TypeOK
  <2>2. stream[o + 1] \in Seq(TagKeys)
    BY <2>1, ElementOfSeq
  <2> QED  BY <2>2, LenProperties DEF TagsAt
<1> HIDE DEF len
<1>2. ASSUME MarkIsSob(o)  PROVE HasSob(o) /\ ~SobBehindEob(o)
  <2>1. PICK i \in 1..len : StopsAt(o, i) /\ TagsAt(o)[i] = sob
    BY <1>2 DEF MarkIsSob, len
  <2>2. SUFFICES ASSUME NEW e \in 1..len, TagsAt(o)[e] = eob,
                        \A j \in 1..e : TagsAt(o)[j] # sob
                 PROVE  FALSE
    BY <2>1 DEF HasSob, SobBehindEob, len
  <2>3. ~(i \in 1..e)
    BY <2>1, <2>2
  <2>4. e \in 1..(i - 1)
    BY <1>1, <2>3
  <2> QED  BY <2>1, <2>2, <2>4 DEF StopsAt, IsMark
<1>3. ASSUME HasSob(o), ~SobBehindEob(o)  PROVE MarkIsSob(o)
  <2>1. PICK s \in 1..len : TagsAt(o)[s] = sob
    BY <1>3 DEF HasSob, len
  <2>2. marks \in SUBSET Nat /\ s \in marks
    BY <1>1, <2>1 DEF IsMark
  <2>3. PICK i \in marks : \A m \in marks : i <= m
    BY <2>2, LeastNat
  <2>4. i \in 1..len /\ IsMark(TagsAt(o)[i])
    BY <2>3
  <2>5. \A j \in 1..(i - 1) : ~IsMark(TagsAt(o)[j])
    <3> SUFFICES ASSUME NEW j \in 1..(i - 1), j \in marks  PROVE FALSE
      BY <1>1, <2>4
    <3> QED  BY <1>1, <2>3, <2>4
  <2>6. TagsAt(o)[i] = sob
    <3> SUFFICES ASSUME TagsAt(o)[i] # sob  PROVE FALSE
      OBVIOUS
    <3>1. TagsAt(o)[i] = eob
      BY <2>4 DEF IsMark
    <3>2. ASSUME NEW j \in 1..i  PROVE TagsAt(o)[j] # sob
      <4>1. CASE j = i
        BY <4>1
      <4>2. CASE j # i
        <5>1. j \in 1..(i - 1)
          BY <1>1, <2>4, <4>2
        <5> QED  BY <2>5, <5>1 DEF IsMark
      <4> QED  BY <4>1, <4>2
    <3> QED  BY <1>3, <2>4, <3>1, <3>2 DEF SobBehindEob, len
  <2> QED  BY <2>4, <2>5, <2>6 DEF MarkIsSob, StopsAt, len
<1> QED  BY <1>2, <1>3

LEMMA KeepDetects ==
  ASSUME TypeOK, DetectsInv, UNCHANGED <<stream, detects>>, conf' \in Confs,
         conf'.d_sob_tag_key = conf.d_sob_tag_key, conf'.d_eob_tag_key = conf.d_eob_tag_key,
         conf'.d_pub_sobs = TRUE,
         nitems_read' \in Nat, nitems_read <= nitems_read',
         \A o \in nitems_read..(nitems_read' - 1) : ~MarkIsSob(o)
  PROVE  DetectsInv'
<1>1. \A o : MarkIsSob(o)' <=> MarkIsSob(o)
  BY DEF MarkIsSob, StopsAt, IsMark, TagsAt
<1>2. nitems_read \in Nat
  BY DEF TypeOK
<1>3. {o \in 0..(nitems_read' - 1) : MarkIsSob(o)'} = {o \in 0..(nitems_read - 1) : MarkIsSob(o)}
  BY <1>1, <1>2
<1> QED  BY <1>3 DEF DetectsInv, MarksDetected

LEMMA AddDetect ==
  ASSUME TypeOK, DetectsInv, UNCHANGED <<stream, conf>>, NEW o \in Nat, nitems_read <= o,
         MarkIsSob(o), \A before \in nitems_read..(o - 1) : ~MarkIsSob(before),
         nitems_read' = o + 1, detects' = Append(detects, o)
  PROVE  DetectsInv'
<1> DEFINE n == Len(detects)
<1>1. detects \in Seq(Nat) /\ n \in Nat /\ nitems_read \in Nat
  BY LenProperties DEF TypeOK
<1>2. /\ Len(detects') = n + 1 /\ detects'[n + 1] = o
      /\ \A i \in 1..n : detects'[i] = detects[i]
  BY <1>1, AppendProperties
<1> HIDE DEF n
<1>3. \A x : MarkIsSob(x)' <=> MarkIsSob(x)
  BY DEF MarkIsSob, StopsAt, IsMark, TagsAt
<1>4. /\ \A i, j \in 1..n : i < j => detects[i] < detects[j]
      /\ {detects[i] : i \in 1..n} = {x \in 0..(nitems_read - 1) : MarkIsSob(x)}
  BY DEF DetectsInv, MarksDetected, n
<1>5. \A i \in 1..n : detects[i] \in Nat /\ detects[i] < o
  <2> TAKE i \in 1..n
  <2>1. detects[i] \in 0..(nitems_read - 1)
    BY <1>4
  <2> QED  BY <1>1, <2>1
<1>6. \A i, j \in 1..(n + 1) : i < j => detects'[i] < detects'[j]
  BY <1>1, <1>2, <1>4, <1>5
<1>7. {detects'[i] : i \in 1..(n + 1)} = {x \in 0..o : MarkIsSob(x)}
  <2>1. ASSUME NEW i \in 1..(n + 1)
        PROVE  detects'[i] \in 0..o /\ MarkIsSob(detects'[i])
    <3>1. CASE i = n + 1
      BY <1>2, <3>1
    <3>2. CASE i \in 1..n
      <4>1. detects[i] \in 0..(nitems_read - 1) /\ MarkIsSob(detects[i])
        BY <1>4, <3>2
      <4>2. detects'[i] = detects[i]
        BY <1>2, <3>2
      <4>3. detects'[i] \in 0..o
        BY <1>1, <4>1, <4>2
      <4> QED  BY <4>1, <4>2, <4>3
    <3>3. i = n + 1 \/ i \in 1..n
      BY <1>1
    <3> QED  BY <3>1, <3>2, <3>3
  <2>2. ASSUME NEW x \in 0..o, MarkIsSob(x)
        PROVE  \E i \in 1..(n + 1) : detects'[i] = x
    <3>1. CASE x = o
      <4>1. n + 1 \in 1..(n + 1)
        BY <1>1
      <4> QED  BY <1>2, <3>1, <4>1
    <3>2. CASE x # o
      <4>1. x \in 0..(nitems_read - 1)
        BY <1>1, <2>2, <3>2
      <4>2. PICK i \in 1..n : detects[i] = x
        BY <1>4, <2>2, <4>1
      <4>3. i \in 1..(n + 1) /\ detects'[i] = x
        BY <1>1, <1>2, <4>2
      <4> QED  BY <4>3
    <3> QED  BY <3>1, <3>2
  <2> DEFINE A == {detects'[i] : i \in 1..(n + 1)}
             B == {x \in 0..o : MarkIsSob(x)}
  <2>3. A \subseteq B
    BY <2>1
  <2>4. B \subseteq A
    BY <2>2
  <2> QED  BY <2>3, <2>4
<1>8. (o + 1) - 1 = o
  OBVIOUS
<1>9. MarksDetected'
  BY <1>2, <1>3, <1>6, <1>7, <1>8 DEF MarksDetected
<1> QED  BY <1>9 DEF DetectsInv

LEMMA WorkDetects ==
  ASSUME TypeOK, DetectsInv, Work
  PROVE  DetectsInv'
<1>1. UNCHANGED <<stream, conf>>
  BY DEF Work
<1>2. PICK o \in nitems_read..(Len(stream) - 1) : WorkToMark(o) \/ WorkNoMark(o)
  BY DEF Work
<1>3. o \in Nat /\ nitems_read \in Nat /\ nitems_read <= o
  BY DEF TypeOK
<1>4. \A x : ~HasMark(x) => ~MarkIsSob(x)
  BY DEF MarkIsSob, HasMark, StopsAt
<1>5. /\ conf \in Confs /\ conf' \in Confs /\ conf' = conf /\ conf.d_pub_sobs = TRUE
  BY <1>1 DEF TypeOK, DetectsInv
<1>6. \A before \in nitems_read..(o - 1) : ~MarkIsSob(before)
  BY <1>2, <1>3, <1>4 DEF WorkToMark, WorkNoMark
<1>7. CASE Fill(o) \/ DropBurst(o)
  <2>1. nitems_read' = o /\ detects' = detects
    BY <1>7 DEF Fill, DropBurst, ports
  <2> QED  BY <1>1, <1>3, <1>5, <1>6, <2>1, KeepDetects
<1>8. CASE ~MarkIsSob(o) /\ (EndBurst(o) \/ Skip(o + 1))
  <2>1. nitems_read' = o + 1 /\ detects' = detects
    BY <1>8 DEF EndBurst, Skip, ports
  <2>2. \A x \in nitems_read..(nitems_read' - 1) : ~MarkIsSob(x)
    BY <1>3, <1>6, <1>8, <2>1
  <2>3. nitems_read' \in Nat /\ nitems_read <= nitems_read'
    BY <1>3, <2>1
  <2> QED  BY <1>1, <1>5, <2>1, <2>2, <2>3, KeepDetects
<1>9. CASE MarkIsSob(o) /\ StartBurst(o)
  <2>1. nitems_read' = o + 1 /\ detects' = Append(detects, o)
    BY <1>5, <1>9 DEF StartBurst
  <2> QED  BY <1>1, <1>3, <1>6, <1>9, <2>1, AddDetect
<1>10. WorkNoMark(o) => ~MarkIsSob(o)
  BY <1>3, <1>4 DEF WorkNoMark
<1> QED  BY <1>2, <1>7, <1>8, <1>9, <1>10 DEF WorkToMark, WorkNoMark

(* Every SOB among the consumed samples that is not behind an EOB of its   *)
(* own sample was announced once and in order, and nothing else was, for   *)
(* every stream and chunking and while the application changes sizes,  *)
(* prepend, alignment, rate and start time, as long as the tag keys stay   *)
(* and the detects port is enabled.                                        *)
THEOREM SobsDetected ==
  ASSUME TagSettings = {}, SobMsgSettings \subseteq {TRUE}, InitConf.d_pub_sobs = TRUE
  PROVE  Spec => []LeadingSobsDetected
<1>1. Init => DetectsInv
  <2> SUFFICES ASSUME Init PROVE DetectsInv
    OBVIOUS
  <2>1. Len(detects) = 0 /\ nitems_read = 0 /\ conf = InitConf
    BY EmptySeq DEF Init
  <2> QED  BY <2>1 DEF DetectsInv, MarksDetected
<1>2. IInv /\ DetectsInv /\ [Next]_vars => DetectsInv'
  <2> SUFFICES ASSUME IInv, DetectsInv, [Next]_vars PROVE DetectsInv'
    OBVIOUS
  <2>1. TypeOK /\ conf \in Confs /\ nitems_read \in Nat
    BY DEF IInv, TypeOK
  <2>2. ASSUME UNCHANGED <<stream, nitems_read, detects>>, conf' \in Confs,
               conf'.d_sob_tag_key = conf.d_sob_tag_key, conf'.d_eob_tag_key = conf.d_eob_tag_key,
               conf'.d_pub_sobs = TRUE
        PROVE  DetectsInv'
    <3>1. nitems_read' \in Nat /\ nitems_read <= nitems_read'
      BY <2>1, <2>2
    <3>2. \A o \in nitems_read..(nitems_read' - 1) : ~MarkIsSob(o)
      <4>1. nitems_read..(nitems_read' - 1) = {}
        BY <2>1, <2>2
      <4> QED  BY <4>1
    <3> QED  BY <2>1, <2>2, <3>1, <3>2, KeepDetects
  <2>3. CASE Work
    BY <2>1, <2>3, WorkDetects
  <2>4. CASE Setters
    <3>1. ~SetStartTag /\ ~SetEndTag /\ ~SetTimeTagKey
      BY DEF SetStartTag, SetEndTag, SetTimeTagKey
    <3>2. IInv'
      BY <2>4, NextIInv DEF Next
    <3>3. conf' \in Confs /\ conf.d_pub_sobs = TRUE
      BY <3>2 DEF IInv, TypeOK, DetectsInv
    <3>4. CASE SetMaxPduSize \/ SetTailSize \/ SetPrepend \/ SetSampRate
      BY <2>1, <2>2, <3>3, <3>4
      DEF SetMaxPduSize, SetTailSize, SetPrepend, SetSampRate, SetConf, ports, Confs
    <3>5. CASE PublishSobMsgs
      BY <2>1, <2>2, <3>3, <3>5 DEF PublishSobMsgs, SetConf, ports, Confs
    <3>6. CASE EnableTimeDebug
      BY <2>1, <2>2, <3>3, <3>6 DEF EnableTimeDebug, SetConf, ports, Confs
    <3>7. CASE SetEobParameters
      BY <2>1, <2>2, <3>3, <3>7 DEF SetEobParameters, SetConf, ports, Confs
    <3>8. CASE HandleCtrlMsg
      BY <2>1, <2>2, <3>3, <3>8 DEF HandleCtrlMsg, SetConf, ports, Confs
    <3>9. CASE SetStartTimeSec \/ SetStartTimeFrac \/ SetStartTimeOffset
      BY <2>1, <2>2, <3>3, <3>9 DEF SetStartTimeSec, SetStartTimeFrac, SetStartTimeOffset, ports
    <3> QED  BY <2>4, <3>1, <3>4, <3>5, <3>6, <3>7, <3>8, <3>9 DEF Setters
  <2>5. CASE UNCHANGED vars
    <3>1. UNCHANGED <<stream, nitems_read, detects, conf>>
      BY <2>5 DEF vars, ports
    <3> QED  BY <2>1, <2>2, <3>1 DEF DetectsInv
  <2> QED  BY <2>3, <2>4, <2>5 DEF Next
<1>3. IInv /\ DetectsInv => LeadingSobsDetected
  <2> SUFFICES ASSUME IInv, DetectsInv  PROVE LeadingSobsDetected
    OBVIOUS
  <2>1. \A o \in 0..(nitems_read - 1) : MarkIsSob(o) <=> HasSob(o) /\ ~SobBehindEob(o)
    BY LeadingSob DEF IInv
  <2>2. {o \in 0..(nitems_read - 1) : MarkIsSob(o)} =
          {o \in 0..(nitems_read - 1) : HasSob(o) /\ ~SobBehindEob(o)}
    BY <2>1
  <2> QED  BY <2>2 DEF DetectsInv, MarksDetected, LeadingSobsDetected
<1> QED  BY <1>1, <1>2, <1>3, Invariance, PTL DEF Spec

-----------------------------------------------------------------------------
(* Sizes and alignment                                                     *)

(* The smallest unsigned padding is a remainder short of the alignment.    *)
LEMMA PadToMultiple ==
  ASSUME NEW a \in Nat \ {0}, NEW x \in Int
  PROVE  /\ (x % a) \in 0..(a - 1)
         /\ (x + (a - (x % a))) % a = 0
<1>1. (x % a) \in 0..(a - 1)
  OBVIOUS
<1>2. (x + (a - (x % a))) % a = 0
  OBVIOUS
<1> QED  BY <1>1, <1>2

(* A vector not shorter than the offset is padded up to the alignment, and *)
(* so is every vector when the alignment divides 2^64.                     *)
LEMMA EobPadsAlign ==
  ASSUME conf \in Confs, NEW len \in Nat,
         conf.d_eob_offset <= len \/ SizeTModulus(conf.d_eob_alignment) = 0
  PROVE  /\ EobPads(len) \in 0..(conf.d_eob_alignment - 1)
         /\ EobPads(len) > 0 =>
              (len + EobPads(len) - conf.d_eob_offset) % conf.d_eob_alignment = 0
<1> DEFINE a == conf.d_eob_alignment
           diff == len - conf.d_eob_offset
           r == diff % a
<1>1. a \in Nat \ {0} /\ conf.d_eob_offset \in Nat /\ diff \in Int
  BY DEF Confs
<1>2. Misalignment(len) = r
  <2>1. CASE diff >= 0
    BY <2>1 DEF Misalignment
  <2>2. CASE ~(diff >= 0)
    <3>1. SizeTModulus(a) = 0
      BY <1>1, <2>2
    <3>2. Misalignment(len) = (diff + 0) % a
      BY <2>2, <3>1 DEF Misalignment
    <3>3. diff + 0 = diff
      BY <1>1
    <3> QED  BY <3>2, <3>3
  <2> QED  BY <2>1, <2>2
<1> HIDE DEF a
<1>3. r \in 0..(a - 1) /\ (diff + (a - r)) % a = 0
  BY <1>1, PadToMultiple
<1>4. EobPads(len) = IF r = 0 THEN 0 ELSE a - r
  BY <1>2 DEF EobPads, a
<1>5. len + (a - r) - conf.d_eob_offset = diff + (a - r)
  BY <1>1, <1>3
<1> HIDE DEF r
<1>6. EobPads(len) \in 0..(a - 1)
  BY <1>1, <1>3, <1>4
<1>7. EobPads(len) > 0 => EobPads(len) = a - r
  BY <1>4
<1> QED  BY <1>3, <1>5, <1>6, <1>7 DEF a

SameSizes ==
  /\ conf.d_max_pdu_size = InitConf.d_max_pdu_size
  /\ conf.prepend_len = InitConf.prepend_len
  /\ conf.d_eob_alignment = InitConf.d_eob_alignment
  /\ conf.d_eob_offset = InitConf.d_eob_offset

SizeInv ==
  /\ AlignedAndBounded
  /\ SameSizes
  /\ d_triggered => h_pre = conf.prepend_len /\ Len(d_vector) <= conf.d_max_pdu_size

(* The prepended items leave room for a sample, and no burst is shorter    *)
(* than the offset of the alignment unless the alignment divides 2^64.     *)
SizesFit(c) ==
  /\ c.prepend_len < c.d_max_pdu_size
  /\ c.d_eob_offset <= c.prepend_len + 1 \/ SizeTModulus(c.d_eob_alignment) = 0

AlignedMessage(m) ==
  /\ Len(m.data) - m.pads <= conf.d_max_pdu_size
  /\ m.pads < conf.d_eob_alignment
  /\ m.pads > 0 => /\ Len(m.data) - m.pads < conf.d_max_pdu_size
                   /\ (Len(m.data) - conf.d_eob_offset) % conf.d_eob_alignment = 0

LEMMA PublishAligned ==
  ASSUME TypeOK, SizeInv, UNCHANGED conf, NEW vec, NEW pads, PublishMessage(vec, pads),
         Len(vec) - pads <= conf.d_max_pdu_size, pads < conf.d_eob_alignment,
         pads > 0 => /\ Len(vec) - pads < conf.d_max_pdu_size
                     /\ (Len(vec) - conf.d_eob_offset) % conf.d_eob_alignment = 0
  PROVE  SizeInv'
<1> DEFINE m == Message(vec, pads)
           n == Len(published)
<1>1. published' = published \/ published' = Append(published, m)
  BY DEF PublishMessage
<1>2. AlignedMessage(m)
  BY DEF Message, AlignedMessage
<1>3. published \in Seq(Messages) /\ n \in Nat
  BY LenProperties DEF TypeOK
<1>4. \A i \in 1..n : AlignedMessage(published[i])
  BY DEF SizeInv, AlignedAndBounded, AlignedMessage
<1> HIDE DEF m, n
<1>5. \A i \in 1..Len(published') : AlignedMessage(published'[i])
  <2>1. CASE published' = published
    BY <1>4, <2>1 DEF n
  <2>2. CASE published' = Append(published, m)
    <3> SUFFICES ASSUME NEW i \in 1..Len(published')  PROVE AlignedMessage(published'[i])
      OBVIOUS
    <3>1. /\ Len(Append(published, m)) = n + 1 /\ Append(published, m)[n + 1] = m
          /\ \A j \in 1..n : Append(published, m)[j] = published[j]
      BY <1>3 DEF n
    <3>2. i = n + 1 \/ i \in 1..n
      BY <1>3, <2>2, <3>1
    <3> QED  BY <1>2, <1>4, <2>2, <3>1, <3>2
  <2> QED  BY <1>1, <2>1, <2>2
<1>6. AlignedAndBounded'
  BY <1>5 DEF AlignedAndBounded, AlignedMessage
<1>7. d_triggered' = FALSE
  BY DEF PublishMessage, NextBurst
<1> QED  BY <1>6, <1>7 DEF SizeInv, SameSizes

LEMMA WorkSizes ==
  ASSUME SizesFit(InitConf), IInv, SizeInv, Work
  PROVE  SizeInv'
<1>1. UNCHANGED <<stream, conf>>
  BY DEF Work
<1>2. PICK o \in nitems_read..(Len(stream) - 1) : WorkToMark(o) \/ WorkNoMark(o)
  BY DEF Work
<1>3. /\ o \in Nat /\ nitems_read \in Nat /\ nitems_read <= o /\ o - nitems_read \in Nat
      /\ conf \in Confs /\ conf.d_max_pdu_size \in Nat /\ conf.prepend_len \in Nat
      /\ conf.d_eob_alignment \in Nat \ {0} /\ conf.d_eob_offset \in Nat
      /\ TypeOK /\ d_vector \in Seq(Items) /\ Len(d_vector) \in Nat
  BY LenProperties DEF IInv, TypeOK, Confs
<1>4. ASSUME UNCHANGED <<published, h_pre>>,
             d_triggered' => d_triggered /\ Len(d_vector') <= conf.d_max_pdu_size
      PROVE  SizeInv'
  BY <1>1, <1>4 DEF SizeInv, SameSizes, AlignedAndBounded
<1>5. CASE d_triggered /\ Fill(o)
  <2> DEFINE vec == d_vector \o Samples(nitems_read, o - nitems_read)
  <2>1. Len(vec) = Len(d_vector) + (o - nitems_read) /\ vec \in Seq(Items)
    <3> DEFINE new == Samples(nitems_read, o - nitems_read)
    <3>1. new \in Seq(Items) /\ Len(new) = o - nitems_read
      BY <1>3, SamplesSeq
    <3> HIDE DEF new
    <3>2. d_vector \o new \in Seq(Items) /\ Len(d_vector \o new) = Len(d_vector) + Len(new)
      BY <1>3, <3>1, ConcatProperties
    <3> QED  BY <3>1, <3>2 DEF new
  <2>2. CASE Len(vec) >= conf.d_max_pdu_size
    <3> DEFINE cut == SubSeq(vec, 1, conf.d_max_pdu_size)
    <3>1. PublishMessage(cut, 0)
      BY <1>5, <2>2 DEF Fill
    <3> HIDE DEF vec
    <3>2. Len(cut) = conf.d_max_pdu_size
      <4>1. \A i \in 1..conf.d_max_pdu_size : vec[i] \in Items
        BY <1>3, <2>1, <2>2, ElementOfSeq
      <4> QED  BY <1>3, <4>1, SubSeqProperties
    <3> HIDE DEF cut
    <3>3. Len(cut) - 0 <= conf.d_max_pdu_size /\ 0 < conf.d_eob_alignment /\ ~(0 > 0)
      BY <1>3, <3>2
    <3> QED  BY <1>1, <1>3, <3>1, <3>3, PublishAligned
  <2>3. CASE ~(Len(vec) >= conf.d_max_pdu_size)
    <3>1. d_vector' = vec /\ UNCHANGED <<published, h_pre, d_triggered>>
      BY <1>5, <2>3 DEF Fill
    <3> HIDE DEF vec
    <3>2. Len(d_vector') <= conf.d_max_pdu_size
      BY <1>3, <2>1, <2>3, <3>1
    <3> QED  BY <1>4, <1>5, <3>1, <3>2
  <2> QED  BY <2>2, <2>3
<1>6. CASE d_triggered /\ WithinMaxSize(o) /\ EndBurst(o)
  <2> DEFINE vec == d_vector \o Samples(nitems_read, o - nitems_read)
             pads == EobPads(Len(vec))
             padded == vec \o Zeros(pads)
  <2>1. Len(vec) = Len(d_vector) + (o - nitems_read) /\ vec \in Seq(Items)
    <3> DEFINE new == Samples(nitems_read, o - nitems_read)
    <3>1. new \in Seq(Items) /\ Len(new) = o - nitems_read
      BY <1>3, SamplesSeq
    <3> HIDE DEF new
    <3>2. d_vector \o new \in Seq(Items) /\ Len(d_vector \o new) = Len(d_vector) + Len(new)
      BY <1>3, <3>1, ConcatProperties
    <3> QED  BY <3>1, <3>2 DEF new
  <2>2. PublishMessage(padded, pads)
    BY <1>6 DEF EndBurst
  <2> HIDE DEF vec
  <2>3. /\ d_sob_tag_offset \in Nat /\ d_sob_tag_offset < nitems_read /\ h_pre \in Nat
        /\ Len(d_vector) = h_pre + nitems_read - d_sob_tag_offset
        /\ h_pre = conf.prepend_len /\ Len(d_vector) <= conf.d_max_pdu_size
    BY <1>6 DEF IInv, TypeOK, BurstInv, SizeInv
  <2>4. Len(vec) \in Nat /\ Len(vec) < conf.d_max_pdu_size /\ conf.prepend_len + 1 <= Len(vec)
    <3> DEFINE max == conf.d_max_pdu_size
               held == Len(d_vector)
    <3>1. max \in Nat /\ held \in Nat /\ held <= max /\ Len(vec) = held + (o - nitems_read)
      BY <1>3, <2>1, <2>3
    <3>2. o <= max - held + nitems_read - 1
      BY <1>3, <1>6, <2>3 DEF WithinMaxSize
    <3>3. conf.prepend_len + 1 <= held
      BY <1>3, <2>3
    <3> HIDE DEF max, held
    <3>4. Len(vec) < max /\ Len(vec) \in Nat
      BY <1>3, <3>1, <3>2
    <3>5. conf.prepend_len + 1 <= Len(vec)
      BY <1>3, <3>1, <3>3
    <3> QED  BY <3>4, <3>5 DEF max
  <2>5. conf.d_eob_offset <= Len(vec) \/ SizeTModulus(conf.d_eob_alignment) = 0
    <3>1. conf.d_eob_offset <= conf.prepend_len + 1 \/ SizeTModulus(conf.d_eob_alignment) = 0
      BY DEF SizesFit, SizeInv, SameSizes
    <3> QED  BY <1>3, <2>4, <3>1
  <2>6. /\ pads \in 0..(conf.d_eob_alignment - 1)
        /\ pads > 0 => (Len(vec) + pads - conf.d_eob_offset) % conf.d_eob_alignment = 0
    BY <1>3, <2>4, <2>5, EobPadsAlign
  <2> HIDE DEF pads
  <2>7. Len(padded) = Len(vec) + pads /\ pads \in Nat
    BY <1>3, <2>1, <2>6, ZerosSeq, ConcatProperties
  <2> HIDE DEF padded
  <2>8. /\ Len(padded) - pads <= conf.d_max_pdu_size /\ pads < conf.d_eob_alignment
        /\ pads > 0 => /\ Len(padded) - pads < conf.d_max_pdu_size
                       /\ (Len(padded) - conf.d_eob_offset) % conf.d_eob_alignment = 0
    BY <1>3, <2>4, <2>6, <2>7
  <2> QED  BY <1>1, <1>3, <2>2, <2>8, PublishAligned
<1>7. CASE DropBurst(o)
  BY <1>4, <1>7 DEF DropBurst, NextBurst, ports
<1>8. CASE ~d_triggered /\ StartBurst(o)
  <2>1. d_vector = <<>> /\ Len(<<>>) = 0
    BY <1>8, EmptySeq DEF IInv, BurstInv
  <2>2. h_pre' = conf.prepend_len /\ published' = published
    BY <1>3, <1>8, <2>1 DEF StartBurst
  <2> DEFINE prepend == [i \in 1..conf.prepend_len |-> Prepended]
  <2>3. prepend \in Seq(Items) /\ Len(prepend) = conf.prepend_len
    BY <1>3 DEF Items
  <2>4. <<o>> \in Seq(Items) /\ Len(<<o>>) = 1
    BY <1>3 DEF Items
  <2>5. d_vector' = <<>> \o prepend \o <<o>>
    BY <1>8, <2>1 DEF StartBurst
  <2> HIDE DEF prepend
  <2>6. d_vector' = prepend \o <<o>>
    BY <2>3, <2>5, ConcatEmptySeq
  <2>7. Len(d_vector') = conf.prepend_len + 1
    BY <2>3, <2>4, <2>6, ConcatProperties
  <2>8. conf.prepend_len < conf.d_max_pdu_size
    BY DEF SizesFit, SizeInv, SameSizes
  <2>9. Len(d_vector') <= conf.d_max_pdu_size
    BY <1>3, <2>7, <2>8
  <2> QED  BY <1>1, <2>2, <2>9 DEF SizeInv, SameSizes, AlignedAndBounded
<1>9. CASE ~d_triggered /\ Skip(o + 1)
  BY <1>4, <1>9 DEF Skip, burst, ports
<1> QED  BY <1>2, <1>5, <1>6, <1>7, <1>8, <1>9 DEF WorkToMark, WorkNoMark

(* A PDU is longer than the maximum only by the zeros of its alignment,    *)
(* fewer of them than the alignment, and ends on the alignment, for every  *)
(* stream and chunking and while the application changes everything but    *)
(* the sizes themselves.  Without SizesFit it is false: a size computed    *)
(* below zero wraps around to 2^64.                                        *)
THEOREM PdusAligned ==
  ASSUME SizeSettings = {}, PrependSettings = {}, EobSettings = {}, SizesFit(InitConf)
  PROVE  Spec => []AlignedAndBounded
<1>1. Init => SizeInv
  <2> SUFFICES ASSUME Init PROVE SizeInv
    OBVIOUS
  <2>1. Len(published) = 0 /\ d_triggered = FALSE /\ conf = InitConf
    BY EmptySeq DEF Init
  <2> QED  BY <2>1 DEF SizeInv, SameSizes, AlignedAndBounded
<1>2. IInv /\ SizeInv /\ [Next]_vars => SizeInv'
  <2> SUFFICES ASSUME IInv, SizeInv, [Next]_vars PROVE SizeInv'
    OBVIOUS
  <2>1. ASSUME UNCHANGED <<published, h_pre, d_triggered, d_vector>>,
               conf'.d_max_pdu_size = conf.d_max_pdu_size, conf'.prepend_len = conf.prepend_len,
               conf'.d_eob_alignment = conf.d_eob_alignment,
               conf'.d_eob_offset = conf.d_eob_offset
        PROVE  SizeInv'
    BY <2>1 DEF SizeInv, SameSizes, AlignedAndBounded
  <2>2. CASE Work
    BY <2>2, WorkSizes
  <2>3. CASE Setters
    <3>1. ~SetMaxPduSize /\ ~SetPrepend /\ ~SetEobParameters /\ ~HandleCtrlMsg
      BY DEF SetMaxPduSize, SetPrepend, SetEobParameters, HandleCtrlMsg
    <3>2. conf \in Confs
      BY DEF IInv, TypeOK
    <3>3. CASE SetStartTag \/ SetEndTag \/ SetTimeTagKey
      BY <2>1, <3>2, <3>3 DEF SetStartTag, SetEndTag, SetTimeTagKey, SetConf, burst, ports, Confs
    <3>4. CASE SetTailSize \/ SetSampRate
      BY <2>1, <3>2, <3>4 DEF SetTailSize, SetSampRate, SetConf, burst, ports, Confs
    <3>5. CASE PublishSobMsgs \/ EnableTimeDebug
      BY <2>1, <3>2, <3>5 DEF PublishSobMsgs, EnableTimeDebug, SetConf, burst, ports, Confs
    <3>6. CASE SetStartTimeSec \/ SetStartTimeFrac \/ SetStartTimeOffset
      BY <2>1, <3>6 DEF SetStartTimeSec, SetStartTimeFrac, SetStartTimeOffset, burst, ports
    <3> QED  BY <2>3, <3>1, <3>3, <3>4, <3>5, <3>6 DEF Setters
  <2>4. CASE UNCHANGED vars
    BY <2>1, <2>4 DEF vars, burst, ports
  <2> QED  BY <2>2, <2>3, <2>4 DEF Next
<1>3. SizeInv => AlignedAndBounded
  BY DEF SizeInv
<1> QED  BY <1>1, <1>2, <1>3, Invariance, PTL DEF Spec

-----------------------------------------------------------------------------
(* The definition sample by sample                                         *)

RefBody(f, last) ==
  [n \in 0..last |-> IF n = 0 THEN RefInit ELSE RefSample(f[n - 1], n - 1)]

(* A function that is defined from its own earlier values exists.          *)
LEMMA RefExists ==
  ASSUME Len(stream) \in Nat
  PROVE  \E f : f = RefBody(f, Len(stream))
<1> DEFINE T == {k \in 0..Len(stream) : \E f : f = RefBody(f, k)}
<1>1. 0 \in T
  <2> DEFINE f == [n \in 0..0 |-> RefInit]
  <2>1. f = RefBody(f, 0)
    BY DEF RefBody
  <2> QED  BY <2>1
<1>2. ASSUME NEW k \in 0..Len(stream), k \in T, k < Len(stream)
      PROVE  k + 1 \in T
  <2>1. PICK f : f = RefBody(f, k)
    BY <1>2
  <2> DEFINE g == [n \in 0..(k + 1) |-> IF n = k + 1 THEN RefSample(f[k], k) ELSE f[n]]
  <2>2. \A n \in 0..k : f[n] = IF n = 0 THEN RefInit ELSE RefSample(f[n - 1], n - 1)
    BY <2>1 DEF RefBody
  <2>3. \A n \in 0..(k + 1) : g[n] = IF n = 0 THEN RefInit ELSE RefSample(g[n - 1], n - 1)
    <3> TAKE n \in 0..(k + 1)
    <3>1. CASE n = k + 1
      <4>1. n # 0 /\ n - 1 = k /\ k \in 0..(k + 1) /\ k # k + 1
        BY <3>1
      <4>2. g[n - 1] = f[k] /\ g[n] = RefSample(f[k], k)
        BY <3>1, <4>1
      <4> QED  BY <4>1, <4>2
    <3>2. CASE n # k + 1
      <4>1. n \in 0..k /\ (n # 0 => n - 1 \in 0..(k + 1) /\ n - 1 # k + 1)
        BY <3>2
      <4>2. g[n] = f[n] /\ (n # 0 => g[n - 1] = f[n - 1])
        BY <3>2, <4>1
      <4> QED  BY <2>2, <4>1, <4>2
    <3> QED  BY <3>1, <3>2
  <2> DEFINE h == RefBody(g, k + 1)
  <2>4. g = h
    <3>1. h = [n \in 0..(k + 1) |-> IF n = 0 THEN RefInit ELSE RefSample(g[n - 1], n - 1)]
      BY DEF RefBody
    <3>2. g = [n \in 0..(k + 1) |-> g[n]]
      OBVIOUS
    <3> HIDE DEF g, h
    <3> QED  BY <2>3, <3>1, <3>2
  <2>5. k + 1 \in 0..Len(stream)
    BY <1>2
  <2> QED  BY <2>4, <2>5
<1> HIDE DEF T
<1>3. \A k \in 0..Len(stream) : k \in T
  BY <1>1, <1>2, UpTo
<1> QED  BY <1>3 DEF T

LEMMA RefAfterIs ==
  ASSUME Len(stream) \in Nat
  PROVE  /\ RefAfter[0] = RefInit
         /\ \A n \in 0..(Len(stream) - 1) : RefAfter[n + 1] = RefSample(RefAfter[n], n)
<1> DEFINE last == Len(stream)
<1>1. RefAfter = CHOOSE f : f = RefBody(f, last)
  BY DEF RefAfter, RefBody
<1>2. RefAfter = RefBody(RefAfter, last)
  BY <1>1, RefExists
<1>3. \A n \in 0..last : RefAfter[n] = IF n = 0 THEN RefInit ELSE RefSample(RefAfter[n - 1], n - 1)
  BY <1>2 DEF RefBody
<1>4. 0 \in 0..last
  OBVIOUS
<1>5. ASSUME NEW n \in 0..(last - 1)
      PROVE  RefAfter[n + 1] = RefSample(RefAfter[n], n)
  <2>1. n + 1 \in 0..last /\ n + 1 # 0 /\ (n + 1) - 1 = n
    OBVIOUS
  <2> QED  BY <1>3, <2>1
<1> QED  BY <1>3, <1>4, <1>5

Summaries == [data : Seq(Items), pdu_num : Nat, sob : Nat]
RefStates == [triggered : BOOLEAN, vec : Seq(Items), num : Nat, sob : Nat, out : Seq(Summaries)]

(* The state after samples without a mark.                                 *)
AfterRun(r, first, end) ==
  LET vec == r.vec \o Samples(first, end - first)
  IN  IF ~r.triggered THEN r
      ELSE IF Len(vec) < conf.d_max_pdu_size THEN [r EXCEPT !.vec = vec]
      ELSE RefEmit(r, SubSeq(vec, 1, conf.d_max_pdu_size))

LEMMA SamplesSnoc ==
  ASSUME NEW vec \in Seq(Items), NEW first \in Nat, NEW end \in Nat, first <= end
  PROVE  vec \o Samples(first, (end + 1) - first) = Append(vec \o Samples(first, end - first), end)
<1> DEFINE s == Samples(first, end - first)
           t == Samples(first, (end + 1) - first)
           k == end - first
<1>1. k \in Nat /\ (end + 1) - first = k + 1 /\ k + 1 \in Nat /\ end \in Items
  BY DEF Items
<1>2. s \in Seq(Items) /\ Len(s) = k /\ \A i \in 1..k : s[i] = first + i - 1
  BY <1>1, SamplesSeq
<1>3. t \in Seq(Items) /\ Len(t) = k + 1 /\ \A i \in 1..(k + 1) : t[i] = first + i - 1
  BY <1>1, SamplesSeq
<1>4. first + (k + 1) - 1 = end
  OBVIOUS
<1> HIDE DEF s, t, k
<1>5. Append(s, end) \in Seq(Items) /\ Len(Append(s, end)) = k + 1 /\ Append(s, end)[k + 1] = end
      /\ \A i \in 1..k : Append(s, end)[i] = s[i]
  BY <1>1, <1>2, AppendProperties
<1>6. \A i \in 1..(k + 1) : t[i] = Append(s, end)[i]
  <2> TAKE i \in 1..(k + 1)
  <2>1. i = k + 1 \/ i \in 1..k
    BY <1>1
  <2> QED  BY <1>2, <1>3, <1>4, <1>5, <2>1
<1>7. t = Append(s, end)
  BY <1>3, <1>5, <1>6, SeqEqual
<1>8. Append(s, end) = s \o <<end>> /\ <<end>> \in Seq(Items)
  BY <1>1, <1>2, AppendIsConcat
<1>9. vec \o s \in Seq(Items)
  BY <1>2, ConcatProperties
<1>10. (vec \o s) \o <<end>> = vec \o (s \o <<end>>)
  BY <1>2, <1>8, ConcatAssociative
<1>11. Append(vec \o s, end) = (vec \o s) \o <<end>>
  BY <1>1, <1>9, AppendIsConcat
<1> QED  BY <1>7, <1>8, <1>10, <1>11 DEF s, t

(* One more sample without a mark.                                         *)
LEMMA AfterRunStep ==
  ASSUME conf \in Confs, NEW r \in RefStates, NEW first \in Nat, NEW end \in Nat,
         first <= end, ~HasMark(end), r.triggered => Len(r.vec) < conf.d_max_pdu_size
  PROVE  AfterRun(r, first, end + 1) = RefSample(AfterRun(r, first, end), end)
<1> DEFINE max == conf.d_max_pdu_size
           vec == r.vec \o Samples(first, end - first)
           vec1 == r.vec \o Samples(first, (end + 1) - first)
           k == end - first
<1>1. max \in Nat /\ k \in Nat /\ r.vec \in Seq(Items) /\ end \in Items /\ r.triggered \in BOOLEAN
  BY DEF Confs, RefStates, Items
<1>2. vec \in Seq(Items)
  BY <1>1, SamplesSeq, ConcatProperties
<1>3. vec1 = Append(vec, end)
  BY <1>1, SamplesSnoc
<1>4. ~MarkIsSob(end)
  BY DEF MarkIsSob, HasMark, StopsAt
<1>5. \A s : RefSample(s, end) =
        IF ~s.triggered THEN s
        ELSE IF Len(s.vec) + 1 = max THEN RefEmit(s, Append(s.vec, end))
        ELSE [s EXCEPT !.vec = Append(@, end)]
  BY <1>4 DEF RefSample
<1>6. AfterRun(r, first, end) =
        IF ~r.triggered THEN r
        ELSE IF Len(vec) < max THEN [r EXCEPT !.vec = vec]
        ELSE RefEmit(r, SubSeq(vec, 1, max))
  BY DEF AfterRun
<1>7. AfterRun(r, first, end + 1) =
        IF ~r.triggered THEN r
        ELSE IF Len(vec1) < max THEN [r EXCEPT !.vec = vec1]
        ELSE RefEmit(r, SubSeq(vec1, 1, max))
  BY DEF AfterRun
<1> HIDE DEF vec, vec1, max
<1>8. vec1 \in Seq(Items) /\ Len(vec1) = Len(vec) + 1 /\ Len(vec) \in Nat
      /\ \A i \in 1..Len(vec) : vec1[i] = vec[i]
  BY <1>1, <1>2, <1>3, AppendProperties, LenProperties
<1>9. CASE ~r.triggered
  BY <1>5, <1>6, <1>7, <1>9
<1>10. CASE r.triggered /\ Len(vec) < max
  <2> DEFINE s == [r EXCEPT !.vec = vec]
  <2>1. AfterRun(r, first, end) = s
    BY <1>6, <1>10
  <2>2. s.triggered /\ s.vec = vec /\ s.num = r.num /\ s.sob = r.sob /\ s.out = r.out
    BY <1>10 DEF RefStates
  <2>3. CASE Len(vec) + 1 = max
    <3>1. RefSample(s, end) = RefEmit(s, vec1)
      BY <1>3, <1>5, <2>2, <2>3
    <3>2. SubSeq(vec1, 1, max) = vec1
      BY <1>8, <2>3, SubSeqFull
    <3>3. ~(Len(vec1) < max)
      BY <1>1, <1>8, <2>3
    <3>5. AfterRun(r, first, end + 1) = RefEmit(r, vec1)
      BY <1>7, <1>10, <3>2, <3>3, Zenon
    <3>4. RefEmit(s, vec1) = RefEmit(r, vec1)
      <4> HIDE DEF s
      <4> QED  BY <2>2 DEF RefEmit
    <3> QED  BY <2>1, <3>1, <3>4, <3>5
  <2>4. CASE Len(vec) + 1 # max
    <3>1. RefSample(s, end) = [s EXCEPT !.vec = vec1]
      BY <1>3, <1>5, <2>2, <2>4
    <3>2. Len(vec1) < max
      BY <1>1, <1>8, <1>10, <2>4
    <3>3. AfterRun(r, first, end + 1) = [r EXCEPT !.vec = vec1]
      BY <1>7, <1>10, <3>2
    <3>4. [s EXCEPT !.vec = vec1] = [r EXCEPT !.vec = vec1]
      BY DEF RefStates
    <3> QED  BY <2>1, <3>1, <3>3, <3>4
  <2> QED  BY <2>3, <2>4
<1>11. CASE r.triggered /\ ~(Len(vec) < max)
  <2> DEFINE s == RefEmit(r, SubSeq(vec, 1, max))
  <2>1. AfterRun(r, first, end) = s
    BY <1>6, <1>11
  <2>2. ~s.triggered
    BY DEF RefEmit
  <2>3. RefSample(s, end) = s
    BY <1>5, <2>2
  <2>4. SubSeq(vec1, 1, max) = SubSeq(vec, 1, max)
    <3> DEFINE x == SubSeq(vec1, 1, max)
               y == SubSeq(vec, 1, max)
    <3>1. \A i \in 1..max : vec[i] \in Items /\ vec1[i] = vec[i]
      BY <1>1, <1>2, <1>8, <1>11, ElementOfSeq
    <3>2. x \in Seq(Items) /\ Len(x) = max /\ \A i \in 1..max : x[i] = vec1[i]
      BY <1>1, <3>1, SubSeqProperties
    <3>3. y \in Seq(Items) /\ Len(y) = max /\ \A i \in 1..max : y[i] = vec[i]
      BY <1>1, <3>1, SubSeqProperties
    <3> HIDE DEF x, y
    <3>4. x = y
      BY <3>1, <3>2, <3>3, SeqEqual
    <3> QED  BY <3>4 DEF x, y
  <2>5. AfterRun(r, first, end + 1) = s
    <3>1. ~(Len(vec1) < max)
      BY <1>1, <1>8, <1>11
    <3> QED  BY <1>7, <1>11, <2>4, <3>1
  <2> QED  BY <2>1, <2>3, <2>5
<1> QED  BY <1>9, <1>10, <1>11

LEMMA RefAfterRun ==
  ASSUME TypeOK, NEW end \in nitems_read..Len(stream),
         \A o \in nitems_read..(end - 1) : ~HasMark(o),
         Reference \in RefStates, Reference.triggered => Len(Reference.vec) < conf.d_max_pdu_size
  PROVE  RefAfter[end] = AfterRun(Reference, nitems_read, end)
<1> DEFINE a == nitems_read
           r == Reference
           T == {k \in Nat : RefAfter[k] = AfterRun(r, a, k)}
<1>1. a \in Nat /\ Len(stream) \in Nat /\ end \in Nat /\ a <= end /\ end <= Len(stream) /\ conf \in Confs
  BY LenProperties DEF TypeOK
<1>2. a \in T
  <2>1. a - a = 0
    BY <1>1
  <2>2. Samples(a, 0) \in Seq(Items) /\ Len(Samples(a, 0)) = 0
    BY <1>1, SamplesSeq
  <2>3. Samples(a, 0) = <<>>
    BY <2>2, EmptySeq
  <2>4. r.vec \o Samples(a, a - a) = r.vec
    BY <2>1, <2>3, ConcatEmptySeq DEF RefStates
  <2>5. [r EXCEPT !.vec = r.vec] = r
    BY DEF RefStates
  <2>6. AfterRun(r, a, a) = r
    <3> HIDE DEF r, a
    <3> QED  BY <2>4, <2>5 DEF AfterRun, r
  <2>7. RefAfter[a] = r
    BY DEF Reference
  <2> QED  BY <1>1, <2>6, <2>7
<1>3. ASSUME NEW k \in a..end, k \in T, k < end
      PROVE  k + 1 \in T
  <2>1. k \in Nat /\ k + 1 \in Nat /\ a <= k /\ k \in 0..(Len(stream) - 1) /\ k \in a..(end - 1)
    BY <1>1, <1>3
  <2>2. RefAfter[k + 1] = RefSample(RefAfter[k], k)
    BY <1>1, <2>1, RefAfterIs
  <2>3. RefAfter[k] = AfterRun(r, a, k)
    BY <1>3
  <2>4. AfterRun(r, a, k + 1) = RefSample(AfterRun(r, a, k), k)
    <3> HIDE DEF r, a
    <3> QED  BY <1>1, <2>1, AfterRunStep DEF r, a
  <2> QED  BY <2>1, <2>2, <2>3, <2>4
<1> HIDE DEF T
<1>4. \A k \in a..end : k \in T
  <2> HIDE DEF a
  <2> QED  BY <1>1, <1>2, <1>3, UpTo
<1>5. end \in a..end
  BY <1>1
<1> QED  BY <1>4, <1>5 DEF T

Summary(m) == [data |-> m.data, pdu_num |-> m.pdu_num, sob |-> m.sob]

(* What the block holds between two calls, in terms of the state r of the  *)
(* definition after the same samples.                                      *)
Agrees(r) ==
  /\ r \in RefStates
  /\ r.triggered => Len(r.vec) < conf.d_max_pdu_size
  /\ r.out = [i \in 1..Len(published) |-> Summary(published[i])]
  /\ d_triggered => /\ r.triggered /\ r.vec = d_vector
                    /\ r.num = d_burst_counter /\ r.sob = d_sob_tag_offset
  /\ ~d_triggered /\ r.triggered => /\ nitems_read < Len(stream) /\ MarkIsSob(nitems_read)
                                    /\ r.num + 1 = d_burst_counter
  /\ ~d_triggered /\ ~r.triggered => r.num = d_burst_counter

RefInv ==
  /\ Agrees(Reference)
  /\ conf.prepend_len + 1 < conf.d_max_pdu_size

LEMMA SameDefinition ==
  ASSUME UNCHANGED <<conf, stream>>
  PROVE  /\ RefAfter' = RefAfter
         /\ \A o : MarkIsSob(o)' <=> MarkIsSob(o)
<1>1. RefAfter' = RefAfter
  BY DEF RefAfter, RefInit, RefSample, RefEmit, MarkIsSob, HasMark, StopsAt, IsMark, TagsAt,
         EobPads, Misalignment
<1>2. \A o : MarkIsSob(o)' <=> MarkIsSob(o)
  BY DEF MarkIsSob, StopsAt, IsMark, TagsAt
<1> QED  BY <1>1, <1>2

(* The block and the definition publish the same data.                     *)
LEMMA EmitAgrees ==
  ASSUME IInv, UNCHANGED <<stream, conf>>, NEW r \in RefStates, NEW vec \in Seq(Items), NEW pads,
         PublishMessage(vec, pads), published' \in Seq(Messages),
         r.out = [i \in 1..Len(published) |-> Summary(published[i])],
         r.num = d_burst_counter, r.sob = d_sob_tag_offset,
         NEW q, q = RefEmit(r, vec)
  PROVE  Agrees(q)'
<1> DEFINE m == Message(vec, pads)
           n == Len(published)
           e == [data |-> vec, pdu_num |-> r.num, sob |-> r.sob]
<1>1. /\ q = [triggered |-> FALSE, vec |-> <<>>, num |-> r.num + 1, sob |-> r.sob,
              out |-> IF Len(vec) > conf.d_tail_size THEN Append(r.out, e) ELSE r.out]
      /\ UNCHANGED conf
  BY DEF RefEmit
<1>2. e \in Summaries
  BY DEF Summaries, RefStates
<1>3. Summary(m) = e
  BY DEF Summary, Message
<1> HIDE DEF e, m
<1>4. r.out \in Seq(Summaries) /\ r.num \in Nat /\ r.sob \in Nat
  BY DEF RefStates
<1>5. q \in RefStates
  <2>1. (IF Len(vec) > conf.d_tail_size THEN Append(r.out, e) ELSE r.out) \in Seq(Summaries)
    BY <1>2, <1>4, AppendProperties
  <2> QED  BY <1>1, <1>4, <2>1 DEF RefStates
<1>6. published \in Seq(Messages) /\ n \in Nat
  BY LenProperties DEF IInv, TypeOK
<1>7. q.out = [i \in 1..Len(published') |-> Summary(published'[i])]
  <2>1. CASE Len(vec) > conf.d_tail_size
    <3> DEFINE longer == Append(r.out, e)
    <3>1. q.out = longer /\ published' = Append(published, m)
      BY <1>1, <2>1 DEF PublishMessage, m
    <3>2. Len(r.out) = n
      BY <1>6
    <3>3. /\ longer \in Seq(Summaries) /\ Len(longer) = n + 1 /\ longer[n + 1] = e
          /\ \A i \in 1..n : longer[i] = r.out[i]
      BY <1>2, <1>4, <3>2, AppendProperties
    <3>4. /\ Len(published') = n + 1 /\ published'[n + 1] = m
          /\ \A i \in 1..n : published'[i] = published[i]
      BY <1>6, <3>1 DEF n
    <3> HIDE DEF longer, n
    <3>5. \A i \in 1..(n + 1) : longer[i] = Summary(published'[i])
      <4> TAKE i \in 1..(n + 1)
      <4>1. CASE i = n + 1
        BY <1>3, <3>3, <3>4, <4>1
      <4>2. CASE i \in 1..n
        BY <3>3, <3>4, <4>2 DEF n
      <4> QED  BY <1>6, <4>1, <4>2
    <3>6. longer = [i \in 1..(n + 1) |-> longer[i]]
      BY <1>6, <3>3, SeqDef
    <3> QED  BY <3>1, <3>4, <3>5, <3>6
  <2>2. CASE ~(Len(vec) > conf.d_tail_size)
    BY <1>1, <2>2 DEF PublishMessage
  <2> QED  BY <2>1, <2>2
<1>8. d_triggered' = FALSE /\ d_burst_counter' = d_burst_counter + 1
  BY DEF PublishMessage, NextBurst
<1>9. q.triggered = FALSE /\ q.num = r.num + 1
  BY <1>1
<1> QED  BY <1>5, <1>7, <1>8, <1>9 DEF Agrees

LEMMA WorkAgrees ==
  ASSUME IInv, RefInv, Work
  PROVE  RefInv'
<1> DEFINE a == nitems_read
           max == conf.d_max_pdu_size
<1> PICK r : r = Reference
  OBVIOUS
<1>1. UNCHANGED <<stream, conf>>
  BY DEF Work
<1>2. PICK o \in a..(Len(stream) - 1) : WorkToMark(o) \/ WorkNoMark(o)
  BY DEF Work
<1>3. /\ o \in Nat /\ a \in Nat /\ a <= o /\ o - a \in Nat
      /\ Len(stream) \in Nat /\ o < Len(stream) /\ o \in a..Len(stream)
      /\ conf \in Confs /\ max \in Nat /\ TypeOK /\ o \in 0..(Len(stream) - 1)
      /\ d_vector \in Seq(Items) /\ Len(d_vector) \in Nat
  BY <1>2, LenProperties DEF IInv, TypeOK, Confs
<1>4. \A before \in a..(o - 1) : ~HasMark(before)
  BY <1>2, <1>3 DEF WorkToMark, WorkNoMark
<1>5. Agrees(r) /\ r \in RefStates /\ (r.triggered => Len(r.vec) < max)
  BY DEF RefInv, Agrees
<1>6. RefAfter[o] = AfterRun(r, a, o)
  BY <1>3, <1>4, <1>5, RefAfterRun
<1>7. RefAfter[o + 1] = RefSample(AfterRun(r, a, o), o)
  BY <1>3, <1>6, RefAfterIs
<1>8. published' \in Seq(Messages)
  BY WorkStep DEF IInv, TypeOK
<1>9. ASSUME NEW q, Agrees(q)', RefAfter[nitems_read'] = q
      PROVE  RefInv'
  <2>1. Reference' = q
    BY <1>1, <1>9, SameDefinition DEF Reference
  <2>2. Agrees(Reference)'
    BY <1>9, <2>1 DEF Agrees
  <2> QED  BY <1>1, <2>2 DEF RefInv
<1> DEFINE new == Samples(a, o - a)
           vec == d_vector \o new
<1>10. new \in Seq(Items) /\ Len(new) = o - a
  BY <1>3, SamplesSeq
<1> PICK s : s = [r EXCEPT !.vec = vec]
  OBVIOUS
<1>11. vec \in Seq(Items) /\ Len(vec) = Len(d_vector) + (o - a) /\ Len(vec) \in Nat
  <2> HIDE DEF new
  <2>1. vec \in Seq(Items) /\ Len(vec) = Len(d_vector) + Len(new)
    BY <1>3, <1>10, ConcatProperties
  <2> QED  BY <1>3, <1>10, <2>1
<1>12. ASSUME d_triggered
       PROVE  /\ r.triggered /\ r.vec = d_vector /\ r.num = d_burst_counter
              /\ r.sob = d_sob_tag_offset
              /\ r.out = [i \in 1..Len(published) |-> Summary(published[i])]
              /\ AfterRun(r, a, o) = IF Len(vec) < max THEN s ELSE RefEmit(r, SubSeq(vec, 1, max))
              /\ s \in RefStates /\ s.triggered /\ s.vec = vec /\ s.num = d_burst_counter
              /\ s.sob = d_sob_tag_offset /\ s.out = r.out
  <2>1. /\ r.triggered /\ r.vec = d_vector /\ r.num = d_burst_counter
        /\ r.sob = d_sob_tag_offset
        /\ r.out = [i \in 1..Len(published) |-> Summary(published[i])]
    BY <1>5, <1>12 DEF Agrees
  <2>2. AfterRun(r, a, o) = IF Len(vec) < max THEN s ELSE RefEmit(r, SubSeq(vec, 1, max))
    BY <2>1 DEF AfterRun
  <2>3. s \in RefStates /\ s.triggered /\ s.vec = vec /\ s.num = r.num /\ s.sob = r.sob /\ s.out = r.out
    <3> HIDE DEF vec
    <3> QED  BY <1>5, <1>11, <2>1 DEF RefStates
  <2> QED  BY <2>1, <2>2, <2>3
<1>13. ASSUME d_triggered, WithinMaxSize(o)
       PROVE  Len(vec) < max
  <2>1. Len(d_vector) < max
    BY <1>5, <1>12, <1>13
  <2> DEFINE held == Len(d_vector)
  <2>2. o <= max - held + a - 1
    BY <1>3, <1>13, <2>1 DEF WithinMaxSize
  <2> HIDE DEF held, max, vec
  <2>3. Len(vec) = held + (o - a) /\ held \in Nat
    BY <1>3, <1>11 DEF held
  <2> QED  BY <1>3, <2>2, <2>3
<1> HIDE DEF vec
<1>14. CASE d_triggered /\ Fill(o)
  <2>1. nitems_read' = o /\ UNCHANGED d_sob_tag_offset
    BY <1>14 DEF Fill
  <2>2. CASE Len(vec) < max
    <3>1. ~(Len(vec) >= max)
      BY <1>3, <1>11, <2>2
    <3>2. d_vector' = vec /\ UNCHANGED <<d_triggered, d_burst_counter, published>>
      BY <1>14, <3>1 DEF Fill, vec
    <3>3. RefAfter[o] = s
      BY <1>6, <1>12, <1>14, <2>2
    <3>4. Agrees(s)'
      BY <1>1, <1>12, <1>14, <2>1, <2>2, <3>2 DEF Agrees
    <3> QED  BY <1>9, <2>1, <3>3, <3>4
  <2>3. CASE ~(Len(vec) < max)
    <3> DEFINE cut == SubSeq(vec, 1, max)
    <3> PICK q : q = RefEmit(r, cut)
      OBVIOUS
    <3>1. Len(vec) >= max
      BY <1>3, <1>11, <2>3
    <3>2. PublishMessage(cut, 0)
      BY <1>14, <3>1 DEF Fill, vec
    <3>3. RefAfter[o] = q
      BY <1>6, <1>12, <1>14, <2>3
    <3>4. cut \in Seq(Items)
      <4>1. \A i \in 1..max : vec[i] \in Items
        BY <1>3, <1>11, <3>1, ElementOfSeq
      <4> QED  BY <1>3, <4>1, SubSeqProperties
    <3> HIDE DEF cut
    <3>5. Agrees(q)'
      BY <1>1, <1>5, <1>8, <1>12, <1>14, <3>2, <3>4, EmitAgrees
    <3> QED  BY <1>9, <2>1, <3>3, <3>5
  <2> QED  BY <2>2, <2>3
<1>15. CASE d_triggered /\ WithinMaxSize(o) /\ HasMark(o) /\ ~MarkIsSob(o) /\ EndBurst(o)
  <2> DEFINE pads == EobPads(Len(vec))
             padded == vec \o Zeros(pads)
  <2> PICK q : q = RefEmit(s, padded)
    OBVIOUS
  <2>1. nitems_read' = o + 1 /\ PublishMessage(padded, pads)
    BY <1>15 DEF EndBurst, vec
  <2>2. AfterRun(r, a, o) = s /\ s.triggered /\ s.vec = vec
    BY <1>12, <1>13, <1>15
  <2>3. RefSample(s, o) = q
    BY <1>15, <2>2 DEF RefSample
  <2>4. pads \in Nat
    BY <1>3, <1>11, EobPadsNat
  <2> HIDE DEF pads
  <2>5. padded \in Seq(Items)
    BY <1>11, <2>4, ZerosSeq, ConcatProperties
  <2> HIDE DEF padded
  <2>6. Agrees(q)'
    BY <1>1, <1>8, <1>12, <1>15, <2>1, <2>5, EmitAgrees
  <2> QED  BY <1>7, <1>9, <2>1, <2>2, <2>3, <2>6
<1>16. CASE d_triggered /\ WithinMaxSize(o) /\ MarkIsSob(o) /\ DropBurst(o)
  <2>1. /\ nitems_read' = o /\ d_triggered' = FALSE
        /\ d_burst_counter' = d_burst_counter + 1 /\ UNCHANGED published
    BY <1>16 DEF DropBurst, NextBurst, ports
  <2>2. RefAfter[o] = s /\ Len(vec) < max
    BY <1>6, <1>12, <1>13, <1>16
  <2>3. MarkIsSob(o)'
    BY <1>1, <1>16, SameDefinition
  <2>4. (MarkIsSob(nitems_read))'
    BY <2>1, <2>3 DEF MarkIsSob, StopsAt, IsMark, TagsAt
  <2>5. Agrees(s)'
    BY <1>1, <1>3, <1>12, <1>16, <2>1, <2>2, <2>4 DEF Agrees
  <2> QED  BY <1>9, <2>1, <2>2, <2>5
<1>17. ASSUME ~d_triggered, r.triggered
       PROVE  MarkIsSob(a) /\ HasMark(a) /\ r.num + 1 = d_burst_counter
  BY <1>5, <1>17 DEF Agrees, MarkIsSob, HasMark, StopsAt
<1>18. ASSUME ~d_triggered, r.triggered
       PROVE  o = a /\ MarkIsSob(o) /\ ~WorkNoMark(o)
  <2>1. HasMark(a) /\ MarkIsSob(a)
    BY <1>17, <1>18
  <2>2. o = a
    <3>1. ~(a \in a..(o - 1))
      BY <1>4, <2>1
    <3> QED  BY <1>3, <3>1
  <2>3. ~WorkNoMark(o)
    BY <1>3, <2>1 DEF WorkNoMark
  <2> QED  BY <2>1, <2>2, <2>3
<1>19. ~d_triggered => RefAfter[o] = r
  <2>1. CASE ~d_triggered /\ r.triggered
    BY <1>18, <2>1 DEF Reference
  <2>2. CASE ~r.triggered
    BY <1>6, <2>2 DEF AfterRun
  <2> QED  BY <2>1, <2>2
<1>20. RefAfter[o + 1] = RefSample(RefAfter[o], o)
  BY <1>6, <1>7
<1>21. CASE ~d_triggered /\ MarkIsSob(o) /\ StartBurst(o)
  <2> DEFINE len == conf.prepend_len
             prepend == [i \in 1..len |-> Prepended]
             run == prepend \o <<o>>
  <2> PICK num : num = IF r.triggered THEN r.num + 1 ELSE r.num
    OBVIOUS
  <2> PICK q : q = [r EXCEPT !.triggered = TRUE, !.sob = o, !.num = num, !.vec = run]
    OBVIOUS
  <2>1. RefSample(r, o) = q
    BY <1>21 DEF RefSample
  <2>2. /\ nitems_read' = o + 1 /\ d_sob_tag_offset' = o /\ d_triggered' = TRUE
        /\ UNCHANGED <<d_burst_counter, published>>
    BY <1>21 DEF StartBurst
  <2>3. len \in Nat /\ len + 1 < max
    BY <1>3 DEF RefInv, Confs
  <2>4. d_vector = <<>>
    BY <1>21 DEF IInv, BurstInv
  <2>5. d_vector' = <<>> \o prepend \o <<o>>
    BY <1>21, <2>4 DEF StartBurst
  <2> HIDE DEF len
  <2>6. prepend \in Seq(Items) /\ Len(prepend) = len
    BY <2>3 DEF Items
  <2> HIDE DEF prepend
  <2>7. <<o>> \in Seq(Items) /\ Len(<<o>>) = 1
    BY <1>3 DEF Items
  <2>8. d_vector' = run
    BY <2>5, <2>6, ConcatEmptySeq
  <2>9. run \in Seq(Items) /\ Len(run) = len + 1
    BY <2>6, <2>7, ConcatProperties
  <2> HIDE DEF run
  <2>10. /\ q \in RefStates /\ q.triggered = TRUE /\ q.vec = run /\ q.sob = o /\ q.out = r.out
         /\ q.num = num
    <3>1. num \in Nat
      BY <1>5 DEF RefStates
    <3>2. r \in [triggered : BOOLEAN, vec : Seq(Items), num : Nat, sob : Nat, out : Seq(Summaries)]
      BY <1>5 DEF RefStates
    <3> QED  BY <1>3, <2>9, <3>1, <3>2 DEF RefStates
  <2>11. q.num = d_burst_counter /\ r.out = [i \in 1..Len(published) |-> Summary(published[i])]
    BY <1>5, <1>21, <2>10 DEF Agrees
  <2>12. Agrees(q)'
    BY <1>1, <2>2, <2>3, <2>8, <2>9, <2>10, <2>11 DEF Agrees
  <2> QED  BY <1>9, <1>19, <1>20, <1>21, <2>1, <2>2, <2>12
<1>22. CASE ~d_triggered /\ ~MarkIsSob(o) /\ Skip(o + 1)
  <2>1. ~r.triggered
    BY <1>18, <1>22
  <2>2. RefSample(r, o) = r
    BY <1>22, <2>1 DEF RefSample
  <2>3. /\ nitems_read' = o + 1
        /\ UNCHANGED <<d_triggered, d_vector, d_burst_counter, d_sob_tag_offset, published>>
    BY <1>22 DEF Skip, burst, ports
  <2>4. Agrees(r)'
    BY <1>1, <1>5, <1>22, <2>1, <2>3 DEF Agrees
  <2> QED  BY <1>9, <1>19, <1>20, <1>22, <2>2, <2>3, <2>4
<1>23. WorkNoMark(o) => ~MarkIsSob(o)
  BY <1>3 DEF WorkNoMark, MarkIsSob, HasMark, StopsAt
<1>24. CASE WorkToMark(o)
  BY <1>14, <1>15, <1>16, <1>21, <1>22, <1>24 DEF WorkToMark
<1>25. CASE WorkNoMark(o)
  BY <1>14, <1>22, <1>23, <1>25 DEF WorkNoMark
<1> QED  BY <1>2, <1>24, <1>25

(* What is published depends on the stream alone, not on how it is cut     *)
(* into calls of work(), for every stream and every constant               *)
(* configuration whose bursts can hold a sample after the SOB; the start   *)
(* time may be set.  A burst that the prepended items and the SOB fill is  *)
(* published when the next call looks at it, one sample later.             *)
THEOREM Chunking ==
  ASSUME TagSettings = {}, SizeSettings = {}, TailSettings = {}, PrependSettings = {},
         EobSettings = {}, SobMsgSettings = {}, RateSettings = {}, DebugSettings = {},
         InitConf.prepend_len + 1 < InitConf.d_max_pdu_size
  PROVE  Spec => []ChunkingIndependent
<1>1. Init => RefInv
  <2> SUFFICES ASSUME Init PROVE RefInv
    OBVIOUS
  <2>1. Len(stream) \in Nat /\ nitems_read = 0 /\ d_triggered = FALSE
        /\ d_burst_counter = 0 /\ published = <<>> /\ conf = InitConf
    BY ConstAssumption, LenProperties DEF Init
  <2>2. Reference = RefInit
    BY <2>1, RefAfterIs DEF Reference
  <2>3. RefInit \in RefStates /\ RefInit.triggered = FALSE /\ RefInit.num = 0 /\ RefInit.out = <<>>
    BY DEF RefInit, RefStates
  <2>4. <<>> = [i \in 1..Len(published) |-> Summary(published[i])]
    BY <2>1
  <2>5. Agrees(Reference)
    BY <2>1, <2>2, <2>3, <2>4 DEF Agrees
  <2> QED  BY <2>1, <2>5 DEF RefInv
<1>2. IInv /\ RefInv /\ [Next]_vars => RefInv'
  <2> SUFFICES ASSUME IInv, RefInv, [Next]_vars PROVE RefInv'
    OBVIOUS
  <2>1. CASE Work
    BY <2>1, WorkAgrees
  <2>2. CASE UNCHANGED <<stream, nitems_read, conf, burst, ports>>
    <3>1. UNCHANGED <<stream, nitems_read, conf, d_triggered, d_vector, d_sob_tag_offset,
                      d_burst_counter, published>>
      BY <2>2 DEF burst, ports
    <3> PICK q : q = Reference
      OBVIOUS
    <3>2. Reference' = q
      BY <3>1, SameDefinition DEF Reference
    <3>3. Agrees(q) /\ conf.prepend_len + 1 < conf.d_max_pdu_size
      BY DEF RefInv
    <3>4. MarkIsSob(nitems_read)' <=> MarkIsSob(nitems_read)
      BY <3>1 DEF MarkIsSob, StopsAt, IsMark, TagsAt
    <3>5. Agrees(q)'
      BY <3>1, <3>3, <3>4 DEF Agrees
    <3>6. Agrees(Reference)'
      BY <3>2, <3>5 DEF Agrees
    <3> QED  BY <3>1, <3>3, <3>6 DEF RefInv
  <2>3. CASE Setters
    <3>1. SetStartTimeSec \/ SetStartTimeFrac \/ SetStartTimeOffset
      BY <2>3 DEF Setters, SetStartTag, SetEndTag, SetTimeTagKey, SetMaxPduSize, SetTailSize,
                  SetPrepend, SetSampRate, PublishSobMsgs, EnableTimeDebug, SetEobParameters,
                  HandleCtrlMsg
    <3> QED  BY <2>2, <3>1 DEF SetStartTimeSec, SetStartTimeFrac, SetStartTimeOffset
  <2> QED  BY <2>1, <2>2, <2>3 DEF Next, vars
<1>3. RefInv => ChunkingIndependent
  BY DEF RefInv, Agrees, ChunkingIndependent, Summary
<1> QED  BY <1>1, <1>2, <1>3, Invariance, PTL DEF Spec
=============================================================================
