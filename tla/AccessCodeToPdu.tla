-------------------------- MODULE AccessCodeToPdu --------------------------
(***************************************************************************)
(* The access_code_to_pdu block: finds bursts in a stream of bits by the   *)
(* code they start with and publishes those whose tail is right            *)
(* (lib/access_code_to_pdu_impl.cc).  Overlapping bursts share one output  *)
(* buffer.                                                                 *)
(*                                                                         *)
(* One step is one turn of the loop of work().  The block has no setter    *)
(* and work() keeps everything in members, so how the bits are cut into    *)
(* calls makes no difference.  d_burst_counter is Len(published) and       *)
(* d_bit_index is Len(stream).                                             *)
(***************************************************************************)
EXTENDS AccessCode

CONSTANTS
  Configs,      \* configurations given to make()
  RegLen,       \* bits of the data register (64)
  MaxBits       \* bound: bits of the stream

ASSUME ConfigsAssumption ==
  /\ Configs \subseteq Confs
  /\ RegLen \in Nat \ {0} /\ MaxBits \in Nat
  /\ \A c \in Configs : Constructible(c) /\ Len(c.code) <= RegLen /\ Len(c.tail) <= RegLen

VARIABLES
  conf,                 \* the parameters of the block
  stream,               \* history: the bits received
  d_data_reg,           \* the data register, the last bit at the end
  d_nread,              \* bits read since the start or the last strict burst
  d_lock,
  d_burst_vector,       \* pending bursts: how many bits of each were received
  d_reversed_vector,    \* pending bursts: is it inverted?
  d_output,             \* the bits of the oldest pending burst
  published             \* the PDUs, in order

register == <<d_data_reg, d_nread>>
pending  == <<d_burst_vector, d_reversed_vector, d_output>>
vars     == <<conf, stream, register, d_lock, pending, published>>

Init ==
  /\ conf \in Configs
  /\ stream = <<>>
  /\ d_data_reg = [i \in 1..RegLen |-> 0] /\ d_nread = 0
  /\ d_lock = FALSE
  /\ d_burst_vector = <<>> /\ d_reversed_vector = <<>> /\ d_output = <<>>
  /\ published = <<>>

-----------------------------------------------------------------------------
(* The search for a code, before the new bit is shifted in                 *)

(* Mutant of Searching: codes are looked for before enough bits were read. *)
SearchingTooEarly == ~d_lock \/ d_burst_vector = <<>>

(* Mutant of Searching: codes are looked for although the lock is held.    *)
SearchingWhileLocked == d_nread >= Len(conf.code)

Searching ==
  /\ ~d_lock \/ d_burst_vector = <<>>
  /\ d_nread >= Len(conf.code)

Found == Searching /\ CodeEnds(conf, d_data_reg)

(* Mutant of Dumped: a code does not discard what is pending.              *)
NeverDumped == FALSE

Dumped == Found /\ conf.readmode = Reset

Counts    == IF Dumped THEN <<>> ELSE d_burst_vector

(* Mutant of OpenedCounts: the new burst is put before the older ones.     *)
OpenedInFront ==
  IF Found THEN <<Len(conf.code)>> \o Counts ELSE d_burst_vector

OpenedCounts ==
  IF Found THEN Append(Counts, Len(conf.code)) ELSE d_burst_vector
OpenedReversed ==
  IF Found THEN Append(IF Dumped THEN <<>> ELSE d_reversed_vector, Reversed(conf, d_data_reg))
           ELSE d_reversed_vector
OpenedOutput ==
  IF ~Found THEN d_output
  ELSE (IF Dumped THEN <<>> ELSE d_output)
         \o (IF Counts = <<>> THEN LastBits(d_data_reg, Len(conf.code)) ELSE <<>>)
OpenedLock ==
  IF ~Searching THEN d_lock
  ELSE IF ~Found THEN FALSE
  ELSE conf.readmode = Strict \/ d_lock

(* Every pending burst has one more bit.                                   *)
GrownCounts == [i \in DOMAIN OpenedCounts |-> OpenedCounts[i] + 1]

Shift(bit) ==
  /\ Len(stream) < MaxBits
  /\ stream' = Append(stream, bit)
  /\ d_data_reg' = Append(Tail(d_data_reg), bit)
  /\ UNCHANGED conf

-----------------------------------------------------------------------------
(* A bit while no burst is pending.                                        *)
ReadIdle(bit) ==
  /\ OpenedCounts = <<>>
  /\ Shift(bit)
  /\ d_nread' = d_nread + 1
  /\ d_lock' = OpenedLock
  /\ UNCHANGED <<pending, published>>

(* A bit that does not end the oldest burst.                               *)
ReadBurst(bit) ==
  /\ OpenedCounts # <<>>
  /\ OpenedCounts[1] + 1 # conf.burst_len
  /\ Shift(bit)
  /\ d_nread' = d_nread + 1
  /\ d_lock' = OpenedLock
  /\ d_burst_vector' = GrownCounts
  /\ d_reversed_vector' = OpenedReversed
  /\ d_output' = Append(OpenedOutput, bit)
  /\ UNCHANGED published

(* Mutant of PopBurst: one bit too many is cut off the buffer.             *)
PopBurstOneMore(output) ==
  /\ d_burst_vector' = Tail(GrownCounts)
  /\ d_reversed_vector' = Tail(OpenedReversed)
  /\ d_output' = IF Len(GrownCounts) = 1 THEN <<>>
                 ELSE SubSeq(output, conf.burst_len - GrownCounts[2] + 2, Len(output))

(* The oldest burst is removed; the buffer keeps the bits of the next one. *)
PopBurst(output) ==
  /\ d_burst_vector' = Tail(GrownCounts)
  /\ d_reversed_vector' = Tail(OpenedReversed)
  /\ d_output' = IF Len(GrownCounts) = 1 THEN <<>>
                 ELSE SubSeq(output, conf.burst_len - GrownCounts[2] + 1, Len(output))

LastBit(bit) ==
  /\ OpenedCounts # <<>>
  /\ OpenedCounts[1] + 1 = conf.burst_len
  /\ Shift(bit)
  /\ PopBurst(Append(OpenedOutput, bit))

(* publish_message                                                         *)
Message(output) ==
  [bit_index |-> Len(stream) + 1 - conf.burst_len,
   bit_reversed |-> OpenedReversed[1],
   data |-> Payload(conf, output, OpenedReversed[1])]

PublishBurst(bit) ==
  /\ LastBit(bit)
  /\ TailEnds(conf, d_data_reg', OpenedReversed[1])
  /\ published' = Append(published, Message(Append(OpenedOutput, bit)))
  /\ d_nread' = IF OpenedLock THEN 0 ELSE d_nread + 1
  /\ d_lock' = OpenedLock

RejectBurst(bit) ==
  /\ LastBit(bit)
  /\ ~TailEnds(conf, d_data_reg', OpenedReversed[1])
  /\ d_nread' = d_nread + 1
  /\ d_lock' = FALSE
  /\ UNCHANGED published

Next ==
  \E bit \in Bit :
    \/ ReadIdle(bit)
    \/ ReadBurst(bit)
    \/ PublishBurst(bit)
    \/ RejectBurst(bit)

Spec == Init /\ [][Next]_vars

-----------------------------------------------------------------------------
(* Properties                                                              *)

(* Types of the members of access_code_to_pdu_impl: neither the search nor *)
(* a pending burst counts bits that were not received, although the        *)
(* register is full of zeros from the start.                               *)
TypeOK ==
  /\ conf \in Configs
  /\ stream \in Seq(Bit)
  /\ d_data_reg \in Seq(Bit) /\ Len(d_data_reg) = RegLen
  /\ d_nread \in 0..Len(stream)
  /\ d_lock \in BOOLEAN
  /\ d_burst_vector \in Seq(0..Len(stream))
  /\ d_reversed_vector \in Seq(BOOLEAN)
  /\ d_output \in Seq(Bit)

(* The shared buffer of work() holds the bits of the oldest pending burst, *)
(* all of them and no other: what is cut when a burst ends is right for    *)
(* the next one, however the bursts overlap.                               *)
OutputIsOldestBurst ==
  d_output = (IF d_burst_vector = <<>> THEN <<>>
              ELSE LastBits(stream, d_burst_vector[1]))

(* The buffer never grows past a burst, and the pending bursts are         *)
(* distinct windows, oldest first, each with its own inversion flag.  Code *)
(* that fills the whole burst is left out: it is never complete.           *)
BufferBounded ==
  conf.burst_len > Len(conf.code) =>
    /\ Len(d_output) < conf.burst_len
    /\ Len(d_reversed_vector) = Len(d_burst_vector)
    /\ \A i \in DOMAIN d_burst_vector :
         /\ Len(conf.code) < d_burst_vector[i] /\ d_burst_vector[i] < conf.burst_len
         /\ \A j \in 1..(i - 1) : d_burst_vector[i] < d_burst_vector[j]

(* The lock is a matter of strict mode, where it is held while a burst is  *)
(* received: no other burst starts meanwhile.                              *)
LockMeansStrict ==
  /\ d_lock => conf.readmode = Strict
  /\ conf.readmode = Strict => /\ Len(d_burst_vector) <= 1
                               /\ d_burst_vector # <<>> => d_lock

(* The first bit of the strict burst awaited: that of the pending burst,   *)
(* or of the first window not yet searched.                                *)
Candidate ==
  IF conf.readmode # Strict THEN 0
  ELSE IF d_burst_vector # <<>> THEN Len(stream) - d_burst_vector[1]
  ELSE IF d_nread < Len(conf.code) THEN Len(stream) - d_nread
  ELSE Len(stream) - Len(conf.code)

(* A window is published exactly when the promise of BurstWindows says so. *)
Windows == INSTANCE BurstWindows WITH candidate <- Candidate
RefinesWindows == Windows!Spec
=============================================================================
