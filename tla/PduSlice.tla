------------------------------ MODULE PduSlice ------------------------------
(***************************************************************************)
(* The pdu_slice block: cuts a slice out of the data of a PDU, in Python's *)
(* notation (lib/pdu_slice_impl.cc).                                       *)
(*                                                                         *)
(* The notation is kept as text and parsed again for every PDU, into       *)
(* members that slice_vector then adapts to the length of the data.        *)
(* Neither the handler nor set_slice, which any thread may call, takes a   *)
(* lock: their steps interleave wherever one uses what the other writes.   *)
(*                                                                         *)
(* A notation is a record of its two or three fields.  One that is refused *)
(* raises an error, but what was stored and parsed before stays.           *)
(***************************************************************************)
EXTENDS Integers, Sequences

CONSTANTS
  Notations,        \* notations the application sets
  Lengths,          \* lengths of the data; item number i is i
  Blank,            \* a field without text
  Absent,           \* the third field of a notation with one colon
  NoNumber,         \* a field that does not parse as a number
  Malformed,        \* first field of a notation without brackets, or with other colons
  MaxSteps          \* bound: notations set and PDUs handled

SliceAssumption ==
  /\ Lengths \subseteq Nat
  /\ Absent \notin {NoNumber, 0}
  /\ \A n \in Notations :
       /\ n.start \in {Blank, NoNumber, Malformed} \/ n.start \in Int
       /\ n.stop \in {Blank, NoNumber} \/ n.stop \in Int
       /\ n.stride \in {Blank, Absent, NoNumber} \/ n.stride \in Int

VARIABLES
  d_slice,          \* the notation
  d_start_index, d_stop_index, d_stride_size, d_blank_start, d_blank_stop,
  at,               \* where the calls of set_slice and handle_pdu are
  arg,              \* handle_pdu: the notation it gave to set_slice
  in_len,           \* handle_pdu: items of the data
  out,              \* indices of the items published last
  steps,
  asked,            \* history: the notation last set by the application
  h_pdu_overlap,    \* history: a set_slice overlapped the PDU being handled
  h_set_overlap     \* history: the last set_slice overlapped a PDU

parsed   == <<d_start_index, d_stop_index, d_stride_size, d_blank_start, d_blank_stop>>
handling == <<arg, in_len>>
overlaps == <<asked, h_pdu_overlap, h_set_overlap>>
vars     == <<d_slice, parsed, at, handling, out, steps, overlaps>>

IntMax == 1000      \* INT_MAX, more than any length

(* The constructor keeps the notation and parses nothing.                  *)
Init ==
  /\ d_slice \in Notations
  /\ d_start_index = 0 /\ d_stop_index = IntMax /\ d_stride_size = 1
  /\ d_blank_start = FALSE /\ d_blank_stop = FALSE
  /\ at = [c \in {"set_slice", "handle_pdu"} |-> "idle"]
  /\ arg = d_slice /\ in_len = 0 /\ out = <<>> /\ steps = 0
  /\ asked = d_slice /\ h_pdu_overlap = FALSE /\ h_set_overlap = FALSE

Go(c, place) == at' = [at EXCEPT ![c] = place]

-----------------------------------------------------------------------------
(* set_slice, of the application and of the handler                        *)

(* The application calls set_slice, which stores the notation.             *)
SetSlice(n) ==
  /\ at.set_slice = "idle"
  /\ d_slice' = n /\ Go("set_slice", "start")
  /\ asked' = n
  /\ h_set_overlap' = (at.handle_pdu # "idle")
  /\ h_pdu_overlap' = (h_pdu_overlap \/ at.handle_pdu # "idle")
  /\ UNCHANGED <<parsed, handling, out>>

(* After the last field the application's call returns and the handler's   *)
(* goes on to the data; an error leaves both.                              *)
Return(c) == Go(c, IF c = "handle_pdu" THEN "adapt" ELSE "idle")

(* The first field, and how many colons there are.                         *)
ParseStart(c) ==
  /\ at[c] = "start"
  /\ \/ d_slice.start = Malformed /\ Go(c, "idle") /\ UNCHANGED parsed
     \/ /\ d_slice.start # Malformed
        /\ Go(c, IF d_slice.start = NoNumber THEN "idle"
                 ELSE IF d_slice.stride = Absent THEN "one colon" ELSE "two colons")
        /\ d_blank_start' = (d_slice.start = Blank)
        /\ d_start_index' = IF d_slice.start \in {Blank, NoNumber} THEN d_start_index
                            ELSE d_slice.start
        /\ UNCHANGED <<d_stop_index, d_stride_size, d_blank_stop>>
  /\ UNCHANGED <<d_slice, handling, out, overlaps>>

(* What is read as the second and third field: if the notation was stored  *)
(* anew meanwhile, the colons counted may not be the ones it has.          *)
StopField(c) ==
  IF d_slice.stop = Blank /\ (at[c] = "one colon") # (d_slice.stride = Absent)
  THEN NoNumber ELSE d_slice.stop
StrideField == IF d_slice.stride = Absent THEN d_slice.stop ELSE d_slice.stride

ParseStop(c) ==
  /\ d_blank_stop' = (StopField(c) = Blank)
  /\ d_stop_index' = IF StopField(c) \in {Blank, NoNumber} THEN d_stop_index ELSE StopField(c)
  /\ UNCHANGED <<d_slice, d_start_index, d_blank_start, handling, out, overlaps>>

(* With one colon the stride is only reset in the branch that reads a stop *)
(* index.                                                                  *)
ParseOneColon(c) ==
  /\ at[c] = "one colon"
  /\ ParseStop(c)
  /\ d_stride_size' = IF StopField(c) \in {Blank, NoNumber} THEN d_stride_size ELSE 1
  /\ IF StopField(c) = NoNumber THEN Go(c, "idle") ELSE Return(c)

(* A stride of 0 is stored before it is refused.                           *)
ParseTwoColons(c) ==
  /\ at[c] = "two colons"
  /\ ParseStop(c)
  /\ d_stride_size' = IF StopField(c) = NoNumber \/ StrideField = NoNumber THEN d_stride_size
                      ELSE IF StrideField = Blank THEN 1 ELSE StrideField
  /\ IF StopField(c) = NoNumber \/ StrideField \in {NoNumber, 0} THEN Go(c, "idle")
     ELSE Return(c)

-----------------------------------------------------------------------------
(* handle_pdu                                                              *)

(* The handler passes its own copy of the notation to set_slice ...        *)
HandlePdu(v_len) ==
  /\ at.handle_pdu = "idle"
  /\ arg' = d_slice /\ in_len' = v_len /\ Go("handle_pdu", "store")
  /\ h_pdu_overlap' = (at.set_slice # "idle")
  /\ h_set_overlap' = (h_set_overlap \/ at.set_slice # "idle")
  /\ UNCHANGED <<d_slice, parsed, out, asked>>

(* ... which stores it, over one that was set meanwhile.                   *)
StoreAgain ==
  /\ at.handle_pdu = "store"
  /\ d_slice' = arg /\ Go("handle_pdu", "start")
  /\ UNCHANGED <<parsed, handling, out, overlaps>>

(* slice_vector: the indices brought into the data of v_len items.         *)
FromEnd(index, v_len) ==
  LET i == IF index < -v_len THEN 0 ELSE index
  IN  IF i < 0 THEN i + v_len ELSE i
StartIndex(p, v_len) ==
  LET i == FromEnd(p.start, v_len)
  IN  IF p.blank_start THEN IF p.stride > 0 THEN 0 ELSE v_len - 1
      ELSE IF i > v_len THEN IF p.stride > 0 THEN v_len ELSE v_len - 1 ELSE i
(* Mutant of StopIndex: the stop is the last item, which it leaves out.    *)
StopBeforeLast(p, v_len) ==
  LET i == FromEnd(p.stop, v_len)
  IN  IF p.blank_stop THEN IF p.stride > 0 THEN v_len ELSE -1
      ELSE IF i > v_len THEN v_len - 1 ELSE i

StopIndex(p, v_len) ==
  LET i == FromEnd(p.stop, v_len)
  IN  IF p.blank_stop THEN IF p.stride > 0 THEN v_len ELSE -1
      ELSE IF i > v_len THEN v_len ELSE i

(* The indices from start, by stride, before stop.                         *)
Walk(start, stop, stride) ==
  LET distance == IF stride > 0 THEN stop - start ELSE start - stop
      step == IF stride > 0 THEN stride ELSE -stride
  IN  [i \in 1..(IF distance > 0 THEN (distance + step - 1) \div step ELSE 0) |->
         start + (i - 1) * stride]

(* The members as slice_vector finds them.                                 *)
Members == [start |-> d_start_index, stop |-> d_stop_index, stride |-> d_stride_size,
            blank_start |-> d_blank_start, blank_stop |-> d_blank_stop]

Adapt ==
  /\ at.handle_pdu = "adapt"
  /\ d_start_index' = StartIndex(Members, in_len)
  /\ d_stop_index' = StopIndex(Members, in_len)
  /\ Go("handle_pdu", "loop")
  /\ UNCHANGED <<d_slice, d_stride_size, d_blank_start, d_blank_stop, handling, out, overlaps>>

(* With a stride of 0 the loop makes no way.                               *)
Endless == d_stride_size = 0 /\ d_start_index > d_stop_index

LoopEnds ==
  /\ at.handle_pdu = "loop" /\ ~Endless
  /\ out' = Walk(d_start_index, d_stop_index, d_stride_size)
  /\ Go("handle_pdu", "idle")
  /\ UNCHANGED <<d_slice, parsed, handling, overlaps>>

LoopsForEver ==
  /\ at.handle_pdu = "loop" /\ Endless
  /\ Go("handle_pdu", "for ever")
  /\ UNCHANGED <<d_slice, parsed, handling, out, overlaps>>

Calls ==
  /\ steps < MaxSteps /\ steps' = steps + 1
  /\ \/ \E n \in Notations : SetSlice(n)
     \/ \E v_len \in Lengths : HandlePdu(v_len)

Within ==
  /\ \/ \E c \in {"set_slice", "handle_pdu"} :
          ParseStart(c) \/ ParseOneColon(c) \/ ParseTwoColons(c)
     \/ StoreAgain \/ Adapt \/ LoopEnds \/ LoopsForEver
  /\ UNCHANGED steps

Next == Calls \/ Within

Spec == Init /\ [][Next]_vars

-----------------------------------------------------------------------------
(* Properties                                                              *)

(* Python's reading of a notation for v_len items.                         *)
Clamp(i, low, high) == IF i < low THEN low ELSE IF i > high THEN high ELSE i
PythonIndex(index, v_len, low, high) ==
  Clamp(IF index < 0 THEN index + v_len ELSE index, low, high)
PythonSlice(n, v_len) ==
  LET stride == IF n.stride \in {Blank, Absent} THEN 1 ELSE n.stride
      low == IF stride > 0 THEN 0 ELSE -1
      high == IF stride > 0 THEN v_len ELSE v_len - 1
      start == IF n.start # Blank THEN PythonIndex(n.start, v_len, low, high)
               ELSE IF stride > 0 THEN low ELSE high
      stop == IF n.stop # Blank THEN PythonIndex(n.stop, v_len, low, high)
              ELSE IF stride > 0 THEN high ELSE low
  IN  Walk(start, stop, stride)

(* set_slice refuses it with an error.                                     *)
Refused(n) ==
  \/ n.start \in {NoNumber, Malformed} \/ n.stop = NoNumber \/ n.stride \in {NoNumber, 0}

(* The stride of an earlier notation is in force, of a refused one too:    *)
(* set_slice does not reset it for one colon and a blank stop.             *)
StrideStale == d_slice.stride = Absent /\ d_stride_size # 1

(* Where a negative stride leaves Python: from the position behind the     *)
(* last item, or when an index is before the first.                        *)
BackwardsFromOutside ==
  /\ d_stride_size < 0
  /\ \/ d_slice.start # Blank /\ (d_slice.start < -in_len \/ d_slice.start = in_len)
     \/ d_slice.stop # Blank /\ d_slice.stop < -in_len

(* A PDU that no set_slice overlapped is published, and cut like Python    *)
(* does by a notation that is not refused, whatever was parsed, refused    *)
(* and adapted to other lengths before, but for a stale stride and indices *)
(* outside the data of a negative one.  The notation is the one set last,  *)
(* unless that call overlapped a PDU: then the handler may have put back   *)
(* the one before.                                                         *)
SlicedLikePython ==
  LoopEnds \/ LoopsForEver =>
    /\ h_set_overlap \/ d_slice = asked
    /\ h_pdu_overlap \/ /\ ~Refused(d_slice)
                        /\ \/ StrideStale \/ BackwardsFromOutside
                           \/ LoopEnds /\ out' = PythonSlice(d_slice, in_len)

SlicesLikePython == [][SlicedLikePython]_vars
=============================================================================
