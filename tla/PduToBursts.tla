---------------------------- MODULE PduToBursts ----------------------------
(***************************************************************************)
(* The pdu_to_bursts block: a source that queues PDUs and emits their      *)
(* items as a stream, each burst between a tx_sob and a tx_eob tag, with a *)
(* tx_time tag on the SOB of a timed burst (lib/pdu_to_bursts_impl.cc).    *)
(*                                                                         *)
(* The message handler store_pdu and work() run in the thread of the       *)
(* block, in any order; the scheduler calls work() with room for any       *)
(* number of items.  set_max_queue_size is called by the application.      *)
(*                                                                         *)
(* An item is its position in its PDU, and a PDU is numbered in the order  *)
(* of arrival.                                                             *)
(***************************************************************************)
EXTENDS Integers, SequencesExt

CONSTANTS
  DropModes,       \* the early-burst behaviours considered: TRUE is drop or balk
  PduKinds,        \* what can arrive: [valid, len, time]
  QueueSizes,      \* sizes for max_queue_size, at construction and later
  MaxChunk,        \* most items work() is asked for in one call
  MaxPdus,         \* bound: messages received
  MaxOut           \* bound: items emitted, for calls that make no progress

(* tx_time is absent, present with a value that is no UHD time, or good.   *)
TxTimes == {"absent", "malformed", "good"}

ASSUME ConstAssumption ==
  /\ DropModes \subseteq BOOLEAN
  /\ PduKinds \subseteq [valid : BOOLEAN, len : Nat, time : TxTimes]
  /\ QueueSizes \subseteq Nat
  /\ {MaxChunk, MaxPdus, MaxOut} \subseteq Nat \ {0}

NoTime == 0   \* d_time_tag is PMT_NIL; a time is named by the PDU it came with

VARIABLES
  d_drop_early_bursts,
  d_max_queue_size,
  d_pdu_queue,
  d_data,          \* items of the current burst that are still to be written
  d_tag_sob,
  d_time_tag,
  out,             \* the items written to the output stream
  sobs, eobs,      \* offsets tagged tx_sob, tx_eob
  times,           \* tx_time tags: [at |-> offset, of |-> PDU]
  h_received,      \* history: messages received
  h_accepted,      \* history: PDUs put in the queue
  h_early          \* history: those of them that came with data still queued

tags == <<sobs, eobs, times>>
vars == <<d_drop_early_bursts, d_max_queue_size, d_pdu_queue, d_data, d_tag_sob,
          d_time_tag, out, tags, h_received, h_accepted, h_early>>

-----------------------------------------------------------------------------
(* store_pdu                                                               *)

IsOdd(n) == n % 2 = 1

(* d_drop_early_bursts & (d_data.size() | d_pdu_queue.size()): a bitwise   *)
(* and of a bool, 0 or 1, with the sizes keeps their lowest bit only.      *)
DropEarly ==
  d_drop_early_bursts /\ (IsOdd(Len(d_data)) \/ IsOdd(Len(d_pdu_queue)))

StorePdu ==
  \E kind \in PduKinds :
    LET pdu == [id |-> h_received + 1, len |-> kind.len, time |-> kind.time]
        stored == /\ ~DropEarly
                  /\ kind.valid /\ kind.len > 0
                  /\ Len(d_pdu_queue) < d_max_queue_size
    IN  /\ h_received < MaxPdus
        /\ h_received' = h_received + 1
        /\ IF stored
           THEN /\ d_pdu_queue' = Append(d_pdu_queue, pdu)
                /\ h_accepted' = Append(h_accepted, pdu)
                /\ h_early' = IF d_data # <<>> \/ d_pdu_queue # <<>>
                              THEN h_early \cup {pdu.id} ELSE h_early
           ELSE UNCHANGED <<d_pdu_queue, h_accepted, h_early>>
        /\ UNCHANGED <<d_drop_early_bursts, d_max_queue_size, d_data, d_tag_sob,
                       d_time_tag, out, tags>>

-----------------------------------------------------------------------------
(* queue_data                                                              *)

ItemsOf(pdu) == [i \in 1..pdu.len |-> [pdu |-> pdu.id, idx |-> i]]

AllItems(pdus) == FlattenSeq([i \in 1..Len(pdus) |-> ItemsOf(pdus[i])])

HasTxTime(pdu) == pdu.time # "absent"

(* Mutant of Taken: the time of the second PDU is not looked at.           *)
TakenWithSecond == IF Len(d_pdu_queue) > 1 THEN 2 ELSE 1

(* The first PDU and the ones without tx_time right behind it.             *)
Taken ==
  CHOOSE k \in 1..Len(d_pdu_queue) :
    /\ \A i \in 2..k : ~HasTxTime(d_pdu_queue[i])
    /\ k < Len(d_pdu_queue) => HasTxTime(d_pdu_queue[k + 1])

(* Mutant of QueuedTime: the time is read after the queue was drained.     *)
QueuedTimeOfLast == IF d_pdu_queue[Taken].time = "good" THEN d_pdu_queue[Taken].id
                                                        ELSE d_time_tag

QueuedTime == IF Head(d_pdu_queue).time = "good" THEN Head(d_pdu_queue).id
                                                 ELSE d_time_tag

-----------------------------------------------------------------------------
(* work                                                                    *)

(* Mutant of Erased: the next item is removed too.                         *)
ErasedOneMore(count) == count + 1

(* Items removed from d_data after `count` of them were written and more   *)
(* remain.                                                                 *)
Erased(count) == count - 1

(* Mutant of LastOf: the offset after the last item.                       *)
EndOf(first, data) == first + Len(data)

(* Offset of the last item of data, written from offset first on.          *)
LastOf(first, data) == first + Len(data) - 1

(* Room for n items; `data` is to be written, its SOB still to be tagged   *)
(* if tag_sob, with the time time_tag.                                     *)
Write(n, data, tag_sob, time_tag) ==
  LET written == Len(out)
      fits    == Len(data) <= n
  IN  /\ Len(out) >= MaxOut => fits \/ n > 1
      /\ out' = out \o (IF fits THEN data ELSE SubSeq(data, 1, n))
      /\ d_data' = IF fits THEN <<>> ELSE SubSeq(data, Erased(n) + 1, Len(data))
      /\ d_tag_sob' = FALSE
      /\ sobs' = IF tag_sob THEN sobs \cup {written} ELSE sobs
      /\ eobs' = IF fits THEN eobs \cup {LastOf(written, data)} ELSE eobs
      /\ IF tag_sob /\ time_tag # NoTime
         THEN /\ times' = times \cup {[at |-> written, of |-> time_tag]}
              /\ d_time_tag' = NoTime
         ELSE times' = times /\ d_time_tag' = time_tag

(* Mutant of FetchReady: work() waits for a second PDU.                    *)
FetchReadyForTwo == d_data = <<>> /\ Len(d_pdu_queue) > 1

FetchReady == d_data = <<>> /\ d_pdu_queue # <<>>

WorkFor(n) ==
  /\ \/ /\ FetchReady
        /\ Write(n, AllItems(SubSeq(d_pdu_queue, 1, Taken)), TRUE, QueuedTime)
        /\ d_pdu_queue' = SubSeq(d_pdu_queue, Taken + 1, Len(d_pdu_queue))
     \/ /\ d_data # <<>>
        /\ Write(n, d_data, d_tag_sob, d_time_tag)
        /\ UNCHANGED d_pdu_queue
  /\ UNCHANGED <<d_drop_early_bursts, d_max_queue_size, h_received, h_accepted,
                 h_early>>

Work == \E n \in 1..MaxChunk : WorkFor(n)

SetMaxQueueSize ==
  /\ d_max_queue_size' \in QueueSizes
  /\ UNCHANGED <<d_drop_early_bursts, d_pdu_queue, d_data, d_tag_sob, d_time_tag,
                 out, tags, h_received, h_accepted, h_early>>

-----------------------------------------------------------------------------
(* The constructor does not initialise d_tag_sob.                          *)
Init ==
  /\ d_drop_early_bursts \in DropModes
  /\ d_max_queue_size \in QueueSizes
  /\ d_pdu_queue = <<>>
  /\ d_data = <<>>
  /\ d_tag_sob \in BOOLEAN
  /\ d_time_tag = NoTime
  /\ out = <<>>
  /\ sobs = {} /\ eobs = {} /\ times = {}
  /\ h_received = 0 /\ h_accepted = <<>> /\ h_early = {}

Next == StorePdu \/ Work \/ SetMaxQueueSize

Spec == Init /\ [][Next]_vars

(* The scheduler calls work() as long as there is data and the output      *)
(* buffer has room; it holds thousands of items and downstream drains it,  *)
(* so calls with room for at least two items keep coming.                  *)
FairSpec == Spec /\ WF_vars(\E n \in 2..MaxChunk : WorkFor(n))

-----------------------------------------------------------------------------
(* Properties                                                              *)

Pdus == [id : 1..MaxPdus, len : Nat, time : TxTimes]
Items == [pdu : 1..MaxPdus, idx : Nat]

(* Every variable has its type; tags stand on items that were written, the *)
(* EOB tag of a burst that just fits included.                             *)
TypeOK ==
  /\ d_drop_early_bursts \in BOOLEAN
  /\ d_max_queue_size \in QueueSizes
  /\ d_pdu_queue \in Seq(Pdus)
  /\ d_data \in Seq(Items)
  /\ d_tag_sob \in BOOLEAN
  /\ d_time_tag \in {NoTime} \cup 1..MaxPdus
  /\ out \in Seq(Items)
  /\ sobs \cup eobs \subseteq 0..(Len(out) - 1)
  /\ times \subseteq [at : 0..(Len(out) - 1), of : 1..MaxPdus]
  /\ h_received \in 0..MaxPdus
  /\ h_accepted \in Seq(Pdus)
  /\ h_early \subseteq 1..MaxPdus

(* A sequence without the immediate repetitions of its elements.           *)
Collapsed(s) ==
  LET fresh == {i \in 1..Len(s) : i = 1 \/ s[i] # s[i - 1]}
  IN  [k \in 1..Cardinality(fresh) |->
        s[CHOOSE i \in fresh : Cardinality({j \in fresh : j <= i}) = k]]

(* Whatever is accepted comes out, in order, PDU after PDU and item after  *)
(* item: queued or written, no item is lost, overtaken or written again    *)
(* later on.  An item can only be repeated at once (see NoItemRepeated).   *)
NothingLostOrReordered ==
  Collapsed(out \o d_data \o AllItems(d_pdu_queue)) = AllItems(h_accepted)

LenOf(id) == (CHOOSE p \in ToSet(h_accepted) : p.id = id).len

(* SOB and EOB tags alternate and enclose all output: the stream between a *)
(* SOB and its EOB is made of whole PDUs, and between bursts there is      *)
(* nothing.  A PDU with a tx_time key never shares a burst with one before.*)
BurstsFramed ==
  /\ \A o \in 0..(Len(out) - 1) :
       /\ o \in sobs <=> o = 0 \/ (o - 1) \in eobs
       /\ o \in sobs => out[o + 1].idx = 1
       /\ o \in eobs => out[o + 1].idx = LenOf(out[o + 1].pdu)
  /\ out # <<>> => (d_data = <<>> <=> (Len(out) - 1) \in eobs)
  /\ \A p \in ToSet(h_accepted) : HasTxTime(p) =>
       \A o \in 0..(Len(out) - 1) :
         out[o + 1] = [pdu |-> p.id, idx |-> 1] =>
           o \in sobs \/ (o > 0 /\ out[o] = out[o + 1])

(* A tx_time tag stands on the SOB of the burst that its own PDU starts,   *)
(* and every PDU with a good time has one, exactly one, when it starts.    *)
TimesOnOwnBurst ==
  /\ \A t \in times : /\ t.at \in sobs
                      /\ out[t.at + 1] = [pdu |-> t.of, idx |-> 1]
  /\ \A p \in ToSet(h_accepted) :
       p.time = "good" /\ [pdu |-> p.id, idx |-> 1] \in ToSet(out) =>
         Cardinality({t \in times : t.of = p.id}) = 1

(* Every accepted PDU is written to its last item.                         *)
EverythingSent == <>[](d_data = <<>> /\ d_pdu_queue = <<>>)

(* Each item is written once: "not everything will fit... send first       *)
(* noutput_items from PDU" (lib/pdu_to_bursts_impl.cc:292).                *)
NoItemRepeated == IsInjective(out)

(* DROP MODE: messages "that arrive while there is still data queued from  *)
(* previous PMTs will be dropped" (lib/pdu_to_bursts_impl.cc:41).          *)
EarlyBurstsDropped == d_drop_early_bursts => h_early = {}

(* APPEND MODE: "If an untimed message is received with data still queued  *)
(* from previous messages, it will be appended to the end of the same      *)
(* burst" (lib/pdu_to_bursts_impl.cc:34): it does not start a burst.       *)
UntimedAppended ==
  \A p \in ToSet(h_accepted) : p.id \in h_early /\ p.time = "absent" =>
    \A o \in sobs : out[o + 1].pdu # p.id
=============================================================================
