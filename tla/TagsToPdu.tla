----------------------------- MODULE TagsToPdu -----------------------------
(***************************************************************************)
(* The tags_to_pdu block: a sink that reads a tagged sample stream and     *)
(* publishes the samples between a start-of-burst (SOB) and an             *)
(* end-of-burst (EOB) tag as one PDU (lib/tags_to_pdu_impl.cc).            *)
(*                                                                         *)
(* The scheduler calls work() with any number of the samples it has        *)
(* buffered, so the split of the stream into calls is nondeterministic.    *)
(* The whole stream is fixed in the initial state; a call sees the next n  *)
(* samples, which covers every arrival order of the samples.               *)
(*                                                                         *)
(* A sample is represented by its stream offset, a zero pushed to align    *)
(* the end of a PDU by Pad and an item of d_prepend by Prepended.          *)
(***************************************************************************)
EXTENDS SampleClock, Sequences

CONSTANTS
  TagKeys,          \* keys a stream tag can have
  InitStreams,      \* the streams considered: a sample is the sequence of its tag keys
  InitConf,         \* the configuration given to make()
  \* what the application may set while the flowgraph runs ({}: it does not)
  TagSettings, SizeSettings, TailSettings, PrependSettings, EobSettings,
  SobMsgSettings, RateSettings, StartTimeSettings, DebugSettings

Pad       == -1
Prepended == -2

Items == Nat \cup {Pad, Prepended}

(* The parameters of the block that its setters change.                    *)
Confs == [d_sob_tag_key : TagKeys, d_eob_tag_key : TagKeys,
          d_time_tag_key : TagKeys, d_max_pdu_size : Nat, d_tail_size : Nat,
          prepend_len : Nat, d_eob_alignment : Nat \ {0}, d_eob_offset : Nat,
          d_pub_sobs : BOOLEAN, d_samp_rate : Rates, d_wall_clock_time : BOOLEAN]

ASSUME ConstAssumption ==
  /\ InitStreams \subseteq Seq(Seq(TagKeys))
  /\ InitConf \in Confs
  /\ InitConf.d_samp_rate = TrueRate

(* An EOB alignment of zero divides by zero in work(); the control port    *)
(* refuses it and the setter is assumed never to be given it.              *)
ASSUME SettingsAssumption ==
  /\ TagSettings \subseteq TagKeys
  /\ SizeSettings \subseteq Nat
  /\ TailSettings \subseteq Nat
  /\ PrependSettings \subseteq Nat
  /\ EobSettings \subseteq [alignment : Nat \ {0}, offset : Nat]
  /\ SobMsgSettings \subseteq BOOLEAN
  /\ RateSettings \subseteq Rates
  /\ StartTimeSettings \subseteq Times
  /\ DebugSettings \subseteq BOOLEAN

VARIABLES
  stream,          \* the samples, each as the sequence of its tags
  nitems_read,     \* offset of the next sample work() will see
  conf,            \* the settable parameters
  d_triggered,     \* between a SOB and the end of its burst
  d_vector,        \* the items of the burst so far
  d_sob_tag_offset,
  d_burst_counter,
  known,           \* d_known_time_int_sec, d_known_time_frac_sec, d_known_time_offset
  start_setter,    \* progress of an application thread inside set_start_time
  detects,         \* offsets sent to the detects port
  published,       \* PDUs sent to the pdu_out port
  h_pre            \* history: prepended items in d_vector when it was started

burst == <<d_triggered, d_vector, d_sob_tag_offset, d_burst_counter, h_pre>>
ports == <<detects, published>>
vars  == <<stream, nitems_read, conf, burst, known, start_setter, ports>>

-----------------------------------------------------------------------------
(* Tags                                                                    *)

TagsAt(o) == stream[o + 1]

IsMark(key) == key \in {conf.d_sob_tag_key, conf.d_eob_tag_key}

(* Position, among the tags of a sample, of the one at which the scan of   *)
(* work() stops: its first SOB or EOB tag.                                 *)
StopsAt(o, i) ==
  /\ i \in 1..Len(TagsAt(o))
  /\ IsMark(TagsAt(o)[i])
  /\ \A j \in 1..(i - 1) : ~IsMark(TagsAt(o)[j])

HasMark(o) == \E i \in 1..Len(TagsAt(o)) : IsMark(TagsAt(o)[i])

MarkIsSob(o) ==
  \E i \in 1..Len(TagsAt(o)) : StopsAt(o, i) /\ TagsAt(o)[i] = conf.d_sob_tag_key

(* The scan reads the time tags of a sample up to its first mark.          *)
TimeTagSeen(o) ==
  \E i \in 1..Len(TagsAt(o)) :
    /\ TagsAt(o)[i] = conf.d_time_tag_key
    /\ \A j \in 1..i : ~IsMark(TagsAt(o)[j])

(* The tags of the samples first..last are scanned: the last time tag read *)
(* becomes the known time.                                                 *)
ScanTimeTags(first, last) ==
  \/ /\ \A o \in first..last : ~TimeTagSeen(o)
     /\ UNCHANGED known
  \/ \E o \in first..last :
       /\ TimeTagSeen(o)
       /\ \A later \in (o + 1)..last : ~TimeTagSeen(later)
       /\ known' = TimeTag(o)

-----------------------------------------------------------------------------
(* publish_message                                                         *)

(* Mutant of BurstTime: the carry forgets to reduce the fraction.          *)
BurstTimeCarriesTwice(sob, k) ==
  LET frac == k.frac + (sob - k.off) * Period(conf.d_samp_rate)
  IN  [sec |-> k.sec + frac \div TicksPerSec, frac |-> frac]

(* The burst time: the known time moved by the distance between the SOB    *)
(* and the known offset, with a carry only when the fraction reaches 1.    *)
BurstTime(sob, k) ==
  LET delta     == (sob - k.off) * Period(conf.d_samp_rate)
      int_delta == Truncated(delta)
      frac      == k.frac + (delta - int_delta * TicksPerSec)
      sec       == k.sec + int_delta
  IN  IF frac >= TicksPerSec THEN [sec |-> sec + 1, frac |-> frac - TicksPerSec]
                             ELSE [sec |-> sec, frac |-> frac]

(* pdu_num, burst_time and the data of the message, with the offset of the *)
(* SOB and the number of items that are not samples, for the properties.   *)
Message(vec, pads) ==
  [data |-> vec, pdu_num |-> d_burst_counter,
   burst_time |-> BurstTime(d_sob_tag_offset, known'),
   wall_clock |-> conf.d_wall_clock_time,
   sob |-> d_sob_tag_offset, pre |-> h_pre, pads |-> pads]

(* Mutant of NextBurst: the items of the finished burst are kept.          *)
NextBurstKeepsItems ==
  /\ d_burst_counter' = d_burst_counter + 1
  /\ d_triggered' = FALSE
  /\ UNCHANGED d_vector

NextBurst ==
  /\ d_burst_counter' = d_burst_counter + 1
  /\ d_triggered' = FALSE
  /\ d_vector' = <<>>

PublishMessage(vec, pads) ==
  /\ published' = IF Len(vec) > conf.d_tail_size
                  THEN Append(published, Message(vec, pads)) ELSE published
  /\ NextBurst

-----------------------------------------------------------------------------
(* work                                                                    *)

Samples(first, count) == [i \in 1..count |-> first + i - 1]

(* 2^64 modulo the alignment, by repeated squaring: 2^64 itself does not   *)
(* fit a TLC integer.                                                      *)
SizeTModulus(a) ==
  LET sq(x) == (x * x) % a
  IN  sq(sq(sq(sq(sq(sq(2 % a))))))

(* (d_vector.size() - d_eob_offset) % d_eob_alignment, an unsigned         *)
(* difference that wraps around when the vector is the shorter.            *)
Misalignment(len) ==
  LET a    == conf.d_eob_alignment
      diff == len - conf.d_eob_offset
  IN  IF diff >= 0 THEN diff % a ELSE (diff + SizeTModulus(a)) % a

(* Mutant of EobPads: as many zeros as there are items too many.           *)
EobPadsTooMany(len) == Misalignment(len)

EobPads(len) ==
  IF Misalignment(len) = 0 THEN 0 ELSE conf.d_eob_alignment - Misalignment(len)

Zeros(count) == [i \in 1..count |-> Pad]

(* offset <= last_addr_in_vec in uint64_t: a negative bound wraps around   *)
(* to one no offset exceeds.                                               *)
WithinMaxSize(o) ==
  LET last_addr_in_vec == conf.d_max_pdu_size - Len(d_vector) + nitems_read - 1
  IN  last_addr_in_vec < 0 \/ o <= last_addr_in_vec

(* Data is appended up to but not including sample `end`, which is left    *)
(* for the next call; the PDU is published when it reached its maximum.    *)
Fill(end) ==
  LET vec == d_vector \o Samples(nitems_read, end - nitems_read)
  IN  /\ nitems_read' = end
      /\ IF Len(vec) >= conf.d_max_pdu_size
         THEN PublishMessage(SubSeq(vec, 1, conf.d_max_pdu_size), 0)
         ELSE /\ d_vector' = vec
              /\ UNCHANGED <<d_triggered, d_burst_counter, published>>
      /\ UNCHANGED <<d_sob_tag_offset, h_pre, detects>>

(* An EOB tag ends the burst: the tagged sample is consumed, not stored.   *)
EndBurst(o) ==
  LET vec  == d_vector \o Samples(nitems_read, o - nitems_read)
      pads == EobPads(Len(vec))
  IN  /\ nitems_read' = o + 1
      /\ PublishMessage(vec \o Zeros(pads), pads)
      /\ UNCHANGED <<d_sob_tag_offset, h_pre, detects>>

(* Mutant of DropBurst: the SOB that interrupts the burst is consumed.     *)
DropBurstAndSob(o) ==
  /\ nitems_read' = o + 1
  /\ NextBurst
  /\ UNCHANGED <<d_sob_tag_offset, h_pre, ports>>

(* A second SOB tag drops the burst and is left for the next call.         *)
DropBurst(o) ==
  /\ nitems_read' = o
  /\ NextBurst
  /\ UNCHANGED <<d_sob_tag_offset, h_pre, ports>>

(* A SOB tag starts a burst with the prepended items and its own sample.   *)
StartBurst(o) ==
  /\ nitems_read' = o + 1
  /\ d_sob_tag_offset' = o
  /\ d_vector' = d_vector \o [i \in 1..conf.prepend_len |-> Prepended] \o <<o>>
  /\ h_pre' = Len(d_vector) + conf.prepend_len
  /\ d_triggered' = TRUE
  /\ detects' = IF conf.d_pub_sobs THEN Append(detects, o) ELSE detects
  /\ UNCHANGED <<d_burst_counter, published>>

(* Mutant of Skip: an off-by-one in the number of consumed samples.        *)
SkipOneMore(end) ==
  /\ nitems_read' = end + 1
  /\ UNCHANGED <<burst, ports>>

Skip(end) ==
  /\ nitems_read' = end
  /\ UNCHANGED <<burst, ports>>

(* A call that stops at the SOB or EOB tag of sample o.                    *)
WorkToMark(o) ==
  /\ HasMark(o)
  /\ \A before \in nitems_read..(o - 1) : ~HasMark(before)
  /\ ScanTimeTags(nitems_read, o)
  /\ \/ d_triggered /\ ~WithinMaxSize(o) /\ Fill(o)
     \/ d_triggered /\ WithinMaxSize(o) /\ ~MarkIsSob(o) /\ EndBurst(o)
     \/ d_triggered /\ WithinMaxSize(o) /\ MarkIsSob(o) /\ DropBurst(o)
     \/ ~d_triggered /\ MarkIsSob(o) /\ StartBurst(o)
     \/ ~d_triggered /\ ~MarkIsSob(o) /\ Skip(o + 1)

(* Mutant of WorkNoMark: the last sample is kept outside a burst too.      *)
WorkNoMarkKeepsLast(last) ==
  /\ \A o \in nitems_read..last : ~HasMark(o)
  /\ ScanTimeTags(nitems_read, last)
  /\ IF d_triggered THEN Fill(last) ELSE Skip(last)

(* A call whose samples, the last of them `last`, have no SOB or EOB tag;  *)
(* inside a burst the last one is not consumed.                            *)
WorkNoMark(last) ==
  /\ \A o \in nitems_read..last : ~HasMark(o)
  /\ ScanTimeTags(nitems_read, last)
  /\ \/ d_triggered /\ Fill(last)
     \/ ~d_triggered /\ Skip(last + 1)

Work ==
  /\ \E o \in nitems_read..(Len(stream) - 1) : WorkToMark(o) \/ WorkNoMark(o)
  /\ UNCHANGED <<stream, conf, start_setter>>

-----------------------------------------------------------------------------
(* Setters: each takes d_setlock, which work() does not.                   *)

SetConf(c) ==
  /\ conf' = c
  /\ UNCHANGED <<stream, nitems_read, burst, known, start_setter, ports>>

SetStartTag == \E k \in TagSettings : SetConf([conf EXCEPT !.d_sob_tag_key = k])
SetEndTag == \E k \in TagSettings : SetConf([conf EXCEPT !.d_eob_tag_key = k])
SetTimeTagKey == \E k \in TagSettings : SetConf([conf EXCEPT !.d_time_tag_key = k])
SetMaxPduSize == \E s \in SizeSettings : SetConf([conf EXCEPT !.d_max_pdu_size = s])
SetTailSize == \E s \in TailSettings : SetConf([conf EXCEPT !.d_tail_size = s])
SetPrepend == \E l \in PrependSettings : SetConf([conf EXCEPT !.prepend_len = l])
SetSampRate == \E r \in RateSettings : SetConf([conf EXCEPT !.d_samp_rate = r])
PublishSobMsgs == \E b \in SobMsgSettings : SetConf([conf EXCEPT !.d_pub_sobs = b])
EnableTimeDebug ==
  \E b \in DebugSettings : SetConf([conf EXCEPT !.d_wall_clock_time = b])

SetEobParameters ==
  \E p \in EobSettings :
    SetConf([conf EXCEPT !.d_eob_alignment = p.alignment, !.d_eob_offset = p.offset])

(* A pair on the control port sets one of the two EOB parameters.          *)
HandleCtrlMsg ==
  \E p \in EobSettings : \/ SetConf([conf EXCEPT !.d_eob_offset = p.offset])
                         \/ SetConf([conf EXCEPT !.d_eob_alignment = p.alignment])

(* set_start_time writes the three fields of the known time one after the  *)
(* other; work() can run between two of the writes.                        *)
SetStartTimeSec ==
  \E t \in StartTimeSettings :
    /\ start_setter = <<>>
    /\ known' = [known EXCEPT !.sec = t.sec]
    /\ start_setter' = <<"frac", t>>
    /\ UNCHANGED <<stream, nitems_read, conf, burst, ports>>

SetStartTimeFrac ==
  /\ start_setter # <<>> /\ start_setter[1] = "frac"
  /\ known' = [known EXCEPT !.frac = start_setter[2].frac]
  /\ start_setter' = <<"off", start_setter[2]>>
  /\ UNCHANGED <<stream, nitems_read, conf, burst, ports>>

SetStartTimeOffset ==
  /\ start_setter # <<>> /\ start_setter[1] = "off"
  /\ known' = [known EXCEPT !.off = 0]
  /\ start_setter' = <<>>
  /\ UNCHANGED <<stream, nitems_read, conf, burst, ports>>

Setters ==
  \/ SetStartTag \/ SetEndTag \/ SetTimeTagKey \/ SetMaxPduSize \/ SetTailSize
  \/ SetPrepend \/ SetSampRate \/ PublishSobMsgs \/ EnableTimeDebug
  \/ SetEobParameters \/ HandleCtrlMsg
  \/ SetStartTimeSec \/ SetStartTimeFrac \/ SetStartTimeOffset

-----------------------------------------------------------------------------
(* The constructor.  The start time it is given is the true one.           *)
Init ==
  /\ stream \in InitStreams
  /\ nitems_read = 0
  /\ conf = InitConf
  /\ d_triggered = FALSE
  /\ d_vector = <<>>
  /\ d_sob_tag_offset = 0
  /\ d_burst_counter = 0
  /\ known = TimeTag(0)
  /\ start_setter = <<>>
  /\ detects = <<>>
  /\ published = <<>>
  /\ h_pre = 0

Next == Work \/ Setters

Spec == Init /\ [][Next]_vars

(* The scheduler keeps calling work() while samples are buffered and       *)
(* offers all of them sooner or later; nothing obliges the application to  *)
(* call a setter.                                                          *)
FairSpec == Spec /\ WF_vars(Work)

-----------------------------------------------------------------------------
(* Properties                                                              *)

Messages == [data : Seq(Items), pdu_num : Nat, burst_time : Times,
             wall_clock : BOOLEAN, sob : Nat, pre : Nat, pads : Nat]

(* Every variable has its type, and work() never consumes past the samples *)
(* it was offered.                                                         *)
TypeOK ==
  /\ stream \in Seq(Seq(TagKeys))
  /\ nitems_read \in 0..Len(stream)
  /\ conf \in Confs
  /\ d_triggered \in BOOLEAN
  /\ d_vector \in Seq(Items)
  /\ d_sob_tag_offset \in Nat
  /\ d_burst_counter \in Nat
  /\ known \in KnownTimes
  /\ start_setter \in {<<>>} \cup ({"frac", "off"} \X Times)
  /\ detects \in Seq(Nat)
  /\ published \in Seq(Messages)
  /\ h_pre \in Nat

(* A vector that holds pre prepended items, the samples from sob on with   *)
(* none missing, repeated or out of order, and then pads zeros.            *)
IsRun(vec, pre, sob, pads) ==
  \A i \in 1..Len(vec) :
    vec[i] = IF i <= pre THEN Prepended
             ELSE IF i <= Len(vec) - pads THEN sob + i - pre - 1 ELSE Pad

(* Offset after the last sample of a message.                              *)
EndOf(m) == m.sob + Len(m.data) - m.pre - m.pads

(* Every PDU is one unbroken run of samples that starts at its own SOB,    *)
(* all of them consumed, and a PDU starts only after the previous one      *)
(* ended: no sample is in two PDUs, and PDU numbers increase.  It holds    *)
(* whatever the split of the stream into work() calls and whatever the     *)
(* application changes between two calls.                                  *)
PdusAreDisjointRuns ==
  /\ \A i \in 1..Len(published) :
       LET m == published[i]
       IN  /\ IsRun(m.data, m.pre, m.sob, m.pads)
           /\ EndOf(m) <= nitems_read
           /\ m.pdu_num < d_burst_counter
  /\ \A i, j \in 1..Len(published) :
       i < j => /\ EndOf(published[i]) <= published[j].sob
                /\ published[i].pdu_num < published[j].pdu_num

(* Sample-by-sample definition of what the block extracts, for a constant  *)
(* configuration: the state after the first n samples of the stream.       *)
RefEmit(r, vec) ==
  [triggered |-> FALSE, vec |-> <<>>, num |-> r.num + 1, sob |-> r.sob,
   out |-> IF Len(vec) > conf.d_tail_size
           THEN Append(r.out, [data |-> vec, pdu_num |-> r.num, sob |-> r.sob])
           ELSE r.out]

RefSample(r, o) ==
  IF MarkIsSob(o) THEN
    [r EXCEPT !.triggered = TRUE, !.sob = o,
              !.num = IF r.triggered THEN @ + 1 ELSE @,
              !.vec = [i \in 1..conf.prepend_len |-> Prepended] \o <<o>>]
  ELSE IF ~r.triggered THEN r
  ELSE IF HasMark(o) THEN RefEmit(r, r.vec \o Zeros(EobPads(Len(r.vec))))
  ELSE IF Len(r.vec) + 1 = conf.d_max_pdu_size THEN RefEmit(r, Append(r.vec, o))
  ELSE [r EXCEPT !.vec = Append(@, o)]

RefInit == [triggered |-> FALSE, vec |-> <<>>, num |-> 0, sob |-> 0, out |-> <<>>]

RefAfter[n \in 0..Len(stream)] ==
  IF n = 0 THEN RefInit ELSE RefSample(RefAfter[n - 1], n - 1)

Reference == RefAfter[nitems_read]

(* What is published depends on the stream alone and not on how the        *)
(* scheduler cuts it into work() calls.  When a second SOB was found, the  *)
(* burst is dropped one call before that SOB is consumed.                  *)
ChunkingIndependent ==
  LET ref == Reference
  IN  /\ ref.out = [i \in 1..Len(published) |->
                      [data |-> published[i].data, pdu_num |-> published[i].pdu_num,
                       sob |-> published[i].sob]]
      /\ d_triggered => ref.triggered /\ ref.vec = d_vector /\ ref.num = d_burst_counter
      /\ ~d_triggered /\ ref.triggered =>
           MarkIsSob(nitems_read) /\ ref.num + 1 = d_burst_counter

(* The burst time of every PDU is the true time of its SOB, whichever time *)
(* tag it was computed from.                                               *)
BurstTimeExact ==
  \A i \in 1..Len(published) :
    LET m == published[i]
    IN  Ticks(m.burst_time) = TrueTime(m.sob)

(* A sample with a SOB tag, and one whose SOB tags all stand behind an EOB *)
(* tag: the scan of work() stops at the EOB, and the SOB is consumed with  *)
(* it unseen (lib/tags_to_pdu_impl.cc:226-229).                           *)
HasSob(o) == \E i \in 1..Len(TagsAt(o)) : TagsAt(o)[i] = conf.d_sob_tag_key

SobBehindEob(o) ==
  \E e \in 1..Len(TagsAt(o)) :
    /\ TagsAt(o)[e] = conf.d_eob_tag_key
    /\ \A j \in 1..e : TagsAt(o)[j] # conf.d_sob_tag_key

(* Each SOB among the consumed samples was announced on the detects port   *)
(* once, in order, unless it stands behind an EOB tag of its own sample:   *)
(* none else is lost to a burst that was full, ended or dropped just       *)
(* before it.                                                              *)
LeadingSobsDetected ==
  /\ \A i, j \in 1..Len(detects) : i < j => detects[i] < detects[j]
  /\ {detects[i] : i \in 1..Len(detects)} =
       {o \in 0..(nitems_read - 1) : HasSob(o) /\ ~SobBehindEob(o)}

(* Only alignment zeros make a PDU longer than the maximum, never by a     *)
(* whole alignment, and a padded PDU ends on the alignment.                *)
AlignedAndBounded ==
  \A i \in 1..Len(published) :
    LET m == published[i]
    IN  /\ Len(m.data) - m.pads <= conf.d_max_pdu_size
        /\ m.pads < conf.d_eob_alignment
        /\ m.pads > 0 => /\ Len(m.data) - m.pads < conf.d_max_pdu_size
                         /\ (Len(m.data) - conf.d_eob_offset) % conf.d_eob_alignment = 0

(* The whole stream is consumed, but for its last sample when a burst was  *)
(* still open there: inside a burst work() keeps the last sample it sees.  *)
StreamConsumed ==
  <>[](nitems_read = Len(stream) \/ (d_triggered /\ nitems_read = Len(stream) - 1))

(* The fraction of a burst time is a fraction of a second (README, "Timed  *)
(* Transmissions": a properly formatted UHD time tuple).                   *)
BurstTimeNormalised ==
  \A i \in 1..Len(published) : published[i].burst_time.frac \in 0..(TicksPerSec - 1)
=============================================================================
