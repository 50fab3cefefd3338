---------------------------- MODULE BurstWindows ----------------------------
(***************************************************************************)
(* What access_code_to_pdu promises, stated on the stream alone: which     *)
(* windows of burst_len bits are published.  There is no register, no      *)
(* lock, no list of pending bursts and no output buffer here.              *)
(***************************************************************************)
EXTENDS Naturals, Sequences

CONSTANTS
  Configs,            \* configurations given to make()
  MaxBits,            \* bound: bits of the stream
  Bit, Strict, Reset, \* the bits, and the two read modes that restrict what is published
  CodeEnds(_, _), Reversed(_, _), TailEnds(_, _, _), Payload(_, _, _)
                      \* how words are compared and a PDU is made (module AccessCode)

VARIABLES
  conf,         \* the configuration
  stream,       \* the bits received
  candidate,    \* strict mode: the start of the burst awaited or received
  published     \* the PDUs, in order

vars == <<conf, stream, candidate, published>>

Prefix(s, n) == SubSeq(s, 1, n)
Suffix(s, n) == SubSeq(s, Len(s) - n + 1, Len(s))

(* A code starts after the first `at' bits of s.                           *)
CodeAt(s, at) ==
  LET end == at + Len(conf.code)
  IN  end <= Len(s) /\ CodeEnds(conf, Prefix(s, end))

(* Permissive: every code opens a burst.  Reset: a code that ends before   *)
(* the last bit of the burst discards it.  Strict: only the candidate.  A  *)
(* burst that would be all code is never complete.                         *)
Selected(s, at) ==
  /\ CodeAt(s, at)
  /\ conf.burst_len > Len(conf.code)
  /\ conf.readmode = Reset =>
       \A later \in (at + 1)..(at + conf.burst_len - 1 - Len(conf.code)) : ~CodeAt(s, later)
  /\ conf.readmode = Strict => at = candidate

(* In strict mode a position without a code is passed, and so is a burst   *)
(* when it ends: the next one starts after a published burst, but may      *)
(* start with the last bits of a rejected one.                             *)
NextCandidate(s, accepted) ==
  IF conf.readmode # Strict \/ Len(stream) < candidate + Len(conf.code) THEN candidate
  ELSE IF ~CodeAt(stream, candidate) THEN candidate + 1
  ELSE IF Len(s) # candidate + conf.burst_len THEN candidate
  ELSE IF accepted THEN Len(s) ELSE Len(s) - Len(conf.code)

Pdu(s, at) ==
  LET reversed == Reversed(conf, Prefix(s, at + Len(conf.code)))
  IN  [bit_index |-> at, bit_reversed |-> reversed,
       data |-> Payload(conf, Suffix(s, conf.burst_len), reversed)]

Init ==
  /\ conf \in Configs
  /\ stream = <<>> /\ candidate = 0 /\ published = <<>>

Read(bit) ==
  LET s  == Append(stream, bit)
      at == Len(s) - conf.burst_len
      accepted == /\ at \in Nat
                  /\ Selected(s, at)
                  /\ TailEnds(conf, s, Reversed(conf, Prefix(s, at + Len(conf.code))))
  IN  /\ Len(stream) < MaxBits
      /\ stream' = s
      /\ candidate' = NextCandidate(s, accepted)
      /\ published' = IF accepted THEN Append(published, Pdu(s, at)) ELSE published
      /\ UNCHANGED conf

Next == \E bit \in Bit : Read(bit)

Spec == Init /\ [][Next]_vars
=============================================================================
