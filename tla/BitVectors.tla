----------------------------- MODULE BitVectors -----------------------------
(***************************************************************************)
(* The blocks that transform the data of a PDU without keeping anything:   *)
(* pack_unpack, pdu_binary_tools, upsample and pdu_downsample              *)
(* (lib/pack_unpack_impl.cc, pdu_binary_tools_impl.cc, upsample_impl.cc,   *)
(* pdu_downsample_impl.cc), in pairs: one at the sender, the one that      *)
(* undoes it at the receiver.  All handle any type of item alike, so that  *)
(* an item is a number.                                                    *)
(***************************************************************************)
EXTENDS Integers, Sequences

LsbFirst == "BIT_ORDER_LSB_FIRST"
MsbFirst == "BIT_ORDER_MSB_FIRST"

CONSTANTS
  Data,             \* data of PDUs, sequences of bits
  Orders,           \* bit orders of pack_unpack
  Factors           \* factors of upsample and pdu_downsample

(* upsample refuses a factor of 0.                                         *)
BitsAssumption == Data \subseteq Seq({0, 1}) /\ Factors \subseteq Nat \ {0}

(* pack_unpack *)

(* Bit j of a byte is moved down, and what is above it cut off.            *)
Weights == <<1, 2, 4, 8, 16, 32, 64, 128>>
BitOf(order, byte, j) ==
  (byte \div Weights[IF order = LsbFirst THEN j ELSE 9 - j]) % 2
Unpack(data, order) ==
  [i \in 1..(8 * Len(data)) |->
     BitOf(order, data[((i - 1) \div 8) + 1], ((i - 1) % 8) + 1)]

Padded(data) == data \o [i \in 1..((8 - (Len(data) % 8)) % 8) |-> 0]

(* A bit goes in at the top and the byte moves down, or at the bottom and  *)
(* the byte moves up.                                                      *)
ShiftIn(order, byte, bit) ==
  IF order = LsbFirst THEN (byte \div 2) + (IF bit # 0 THEN 128 ELSE 0)
                      ELSE ((byte * 2) % 256) + (IF bit # 0 THEN 1 ELSE 0)

ByteOf(order, bits, i) ==
  LET byte[j \in 0..8] ==
        IF j = 0 THEN 0 ELSE ShiftIn(order, byte[j - 1], bits[(8 * (i - 1)) + j])
  IN  byte[8]

Pack(data, order) ==
  LET bits == Padded(data)
  IN  [i \in 1..(Len(bits) \div 8) |-> ByteOf(order, bits, i)]

(* The table bitreverse.                                                   *)
BitReverse(byte) == Pack(Unpack(<<byte>>, LsbFirst), MsbFirst)[1]
Bitswap(data) == [i \in DOMAIN data |-> BitReverse(data[i])]

(* pdu_binary_tools *)

BitFlip(data) == [i \in DOMAIN data |-> IF data[i] % 2 = 0 THEN data[i] + 1 ELSE data[i] - 1]
ToNrz(data) == [i \in DOMAIN data |-> data[i] * 2 - 1]

(* (x + 1) / 2 converted to a byte, and x > 0.                             *)
FromNrz(data) == [i \in DOMAIN data |-> (data[i] + 1) \div 2]
Slice(data) == [i \in DOMAIN data |-> IF data[i] > 0 THEN 1 ELSE 0]

(* What does not fill a byte is left at zero.                              *)
EndianSwap(data) ==
  LET whole == 8 * (Len(data) \div 8)
  IN  [i \in DOMAIN data |->
         IF i > whole THEN 0
         ELSE LET first == i - ((i - 1) % 8) IN data[2 * first + 7 - i]]

ManchesterEncode(data) ==
  [i \in 1..(2 * Len(data)) |->
     LET bit == data[(i + 1) \div 2]
     IN  IF i % 2 = 1 THEN IF bit # 0 THEN 1 ELSE 0
                      ELSE IF bit # 0 THEN 0 ELSE 1]
ManchesterDecode(data) ==
  [i \in 1..(Len(data) \div 2) |-> IF data[2 * i] < data[2 * i - 1] THEN 1 ELSE 0]

(* upsample and pdu_downsample *)

Upsample(data, n, repeat) ==
  [i \in 1..(n * Len(data)) |->
     IF repeat \/ (i - 1) % n = 0 THEN data[(i - 1) \div n + 1] ELSE 0]
(* Mutant of Downsample: a last item behind whole groups is lost.          *)
DownsampleRoundedDown(data, decimation, phase) ==
  [i \in 1..(IF Len(data) > phase THEN (Len(data) - phase) \div decimation ELSE 0) |->
     data[phase + (i - 1) * decimation + 1]]

Downsample(data, decimation, phase) ==
  [i \in 1..(IF Len(data) > phase
             THEN (Len(data) - phase + decimation - 1) \div decimation ELSE 0) |->
     data[phase + (i - 1) * decimation + 1]]

-----------------------------------------------------------------------------
(* A PDU goes through the block of the sender and then, perhaps through    *)
(* one that turns every byte around, through that of the receiver.         *)

VARIABLES
  data,             \* the data sent
  order, factor, repeat,    \* parameters of both ends
  coding,           \* the pair of blocks in use
  link,             \* the data between them
  swapped,          \* were the bytes turned around?
  received,         \* the data received
  stage

config == <<data, order, factor, repeat, coding>>
vars == <<config, link, swapped, received, stage>>

Codings == {"bytes", "swap", "nrz", "slice", "manchester", "flip", "samples"}

Init ==
  /\ data \in Data /\ order \in Orders /\ factor \in Factors /\ repeat \in BOOLEAN
  /\ coding \in Codings
  /\ link = <<>> /\ received = <<>> /\ swapped = FALSE /\ stage = "send"

Send ==
  /\ stage = "send" /\ stage' = "link"
  /\ link' = CASE coding = "bytes" -> Pack(data, order)
               [] coding = "swap" -> EndianSwap(data)
               [] coding \in {"nrz", "slice"} -> ToNrz(data)
               [] coding = "manchester" -> ManchesterEncode(data)
               [] coding = "flip" -> BitFlip(data)
               [] coding = "samples" -> Upsample(data, factor, repeat)
  /\ UNCHANGED <<config, swapped, received>>

Swap ==
  /\ stage = "link" /\ ~swapped /\ coding = "bytes"
  /\ link' = Bitswap(link) /\ swapped' = TRUE
  /\ UNCHANGED <<config, received, stage>>

(* Any phase of the repeated samples will do, only 0 of the others.        *)
Receive ==
  /\ stage = "link" /\ stage' = "received"
  /\ \E phase \in IF repeat /\ coding = "samples" THEN 0..(factor - 1) ELSE {0} :
       received' =
         CASE coding = "bytes" -> Unpack(link, order)
           [] coding = "swap" -> Pack(link, order)
           [] coding = "nrz" -> FromNrz(link)
           [] coding = "slice" -> Slice(link)
           [] coding = "manchester" -> ManchesterDecode(link)
           [] coding = "flip" -> BitFlip(link)
           [] coding = "samples" -> Downsample(link, factor, phase)
  /\ UNCHANGED <<config, link, swapped>>

Next == Send \/ Swap \/ Receive

Spec == Init /\ [][Next]_vars

-----------------------------------------------------------------------------
(* Properties                                                              *)

Other(o) == IF o = LsbFirst THEN MsbFirst ELSE LsbFirst

(* What was sent is received: padded to whole bytes by packing, in every   *)
(* byte the other way around after a bitswap; turning eight bits around is *)
(* packing in the other order, when there are only whole bytes.            *)
RoundTrip ==
  stage = "received" =>
    CASE coding = "bytes" ->
           received = IF swapped THEN EndianSwap(Padded(data)) ELSE Padded(data)
      [] coding = "swap" ->
           Len(data) % 8 = 0 => received = Pack(data, Other(order))
      [] OTHER -> received = data
=============================================================================
