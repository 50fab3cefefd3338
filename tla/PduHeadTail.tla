---------------------------- MODULE PduHeadTail ----------------------------
(***************************************************************************)
(* The pdu_head_tail block: publishes the first and the last items of the  *)
(* latest PDUs, one after the other in a buffer                            *)
(* (lib/pdu_head_tail_impl.cc).                                            *)
(*                                                                         *)
(* Byte and float mode do the same on buffers of their own; the two        *)
(* conversions of an item are left out.  The handler and the setters lock  *)
(* d_setlock.                                                              *)
(***************************************************************************)
EXTENDS Naturals, Sequences

CONSTANTS
  Items,            \* values of items; 0 fills what is missing
  DataLengths,      \* lengths of the PDUs
  LengthSettings, HistSettings,
  MaxPdus           \* bound: PDUs since the last setter

(* A history of 0 PDUs is accepted by the code and overruns its buffers:   *)
(* it has no meaning here.                                                 *)
HeadTailAssumption ==
  /\ 0 \in Items /\ DataLengths \subseteq Nat
  /\ LengthSettings \subseteq Nat /\ HistSettings \subseteq Nat \ {0}

VARIABLES
  d_length, d_maxhistsize, d_histsize,
  d_head, d_tail,   \* the buffers
  pdus              \* history: the PDUs handled since a setter was called

vars == <<d_length, d_maxhistsize, d_histsize, d_head, d_tail, pdus>>

Zeros(n) == [i \in 1..n |-> 0]
Least(m, n) == IF m < n THEN m ELSE n

ResetBuffers(length, maxhistsize) ==
  /\ d_length' = length /\ d_maxhistsize' = maxhistsize
  /\ d_histsize' = 0
  /\ d_head' = Zeros(length * maxhistsize) /\ d_tail' = Zeros(length * maxhistsize)
  /\ pdus' = <<>>

Init ==
  /\ d_length \in LengthSettings /\ d_maxhistsize \in HistSettings
  /\ d_histsize = 0
  /\ d_head = Zeros(d_length * d_maxhistsize) /\ d_tail = d_head
  /\ pdus = <<>>

LoopSize(data) == Least(Len(data), d_length)
TailIdx(data) == IF Len(data) < d_length THEN 0 ELSE Len(data) - d_length

HeadBits(data) ==
  [i \in 1..d_length |-> IF i <= LoopSize(data) THEN data[i] ELSE 0]
TailBits(data) ==
  [i \in 1..d_length |-> IF i <= d_length - LoopSize(data) THEN 0
                         ELSE data[TailIdx(data) + i - (d_length - LoopSize(data))]]

(* Mutant of Stored: a full buffer is not shifted.                         *)
StoredUnshifted(buffer, bits) ==
  LET s == IF d_histsize < d_maxhistsize THEN d_histsize * d_length
           ELSE (d_maxhistsize - 1) * d_length
  IN  [i \in DOMAIN buffer |->
         IF i > s /\ i <= s + d_length THEN bits[i - s] ELSE buffer[i]]

(* The bits go behind those of the PDUs held; a full buffer is shifted     *)
(* down by one PDU first.                                                  *)
Stored(buffer, bits) ==
  LET s == IF d_histsize < d_maxhistsize THEN d_histsize * d_length
           ELSE (d_maxhistsize - 1) * d_length
      shifted == [i \in DOMAIN buffer |->
                    IF d_histsize < d_maxhistsize \/ i > s THEN buffer[i]
                    ELSE buffer[i + d_length]]
  IN  [i \in DOMAIN buffer |->
         IF i > s /\ i <= s + d_length THEN bits[i - s] ELSE shifted[i]]

HandlePdu(data) ==
  /\ Len(pdus) < MaxPdus
  /\ d_head' = Stored(d_head, HeadBits(data))
  /\ d_tail' = Stored(d_tail, TailBits(data))
  /\ d_histsize' = IF d_histsize < d_maxhistsize THEN d_histsize + 1 ELSE d_histsize
  /\ pdus' = Append(pdus, data)
  /\ UNCHANGED <<d_length, d_maxhistsize>>

SetLength(length) == ResetBuffers(length, d_maxhistsize)
SetHistsize(histsize) == ResetBuffers(d_length, histsize)
SetSpaceBytes == ResetBuffers(d_length, d_maxhistsize)

Next ==
  \/ \E n \in DataLengths : \E data \in [1..n -> Items] : HandlePdu(data)
  \/ \E length \in LengthSettings : SetLength(length)
  \/ \E histsize \in HistSettings : SetHistsize(histsize)
  \/ SetSpaceBytes

Spec == Init /\ [][Next]_vars

-----------------------------------------------------------------------------
(* Properties                                                              *)

(* What is published after a PDU: the part of a buffer in use.             *)
Published(buffer) == SubSeq(buffer, 1, d_histsize * d_length)

Held == Least(Len(pdus), d_maxhistsize)
Recent(k) == pdus[Len(pdus) - Held + k]

(* The heads and tails published are those of the latest PDUs, in order    *)
(* and as many as the history holds, each at its place and padded with     *)
(* zeros on its open side, however the lengths of PDUs and settings        *)
(* change: no item of a PDU shifted out, or of another length, remains.    *)
HistoryIsLatest ==
  /\ Len(Published(d_head)) = Held * d_length
  /\ Len(Published(d_tail)) = Held * d_length
  /\ \A k \in 1..Held, i \in 1..d_length :
       LET data == Recent(k)
           at == (k - 1) * d_length + i
           back == Len(data) - (d_length - i)
       IN  /\ Published(d_head)[at] = IF i <= Len(data) THEN data[i] ELSE 0
           /\ Published(d_tail)[at] = IF back >= 1 THEN data[back] ELSE 0
=============================================================================
