------------------------- MODULE MCAccessCodeToPdu -------------------------
(***************************************************************************)
(* Small instances of AccessCodeToPdu: every stream of MaxBits bits.       *)
(***************************************************************************)
EXTENDS AccessCodeToPdu

Conf(code, tail, len, threshold, sync, read) ==
  [code |-> code, tail |-> tail, burst_len |-> len, threshold |-> threshold,
   syncmode |-> sync, readmode |-> read]

Modes == {<<Keep, Permissive>>, <<Fix, Reset>>, <<Discard, Strict>>}

(* A code that overlaps itself, with and without a tail; with threshold 0  *)
(* an inverted burst needs every bit wrong, with threshold 1 it may have   *)
(* one bit right.                                                          *)
MCConfigs ==
  {Conf(<<1, 0, 1>>, tail, 5, threshold, mode[1], mode[2]) :
     tail \in {<<>>, <<1, 1>>}, threshold \in {0, 1}, mode \in Modes}
  \cup
  \* two equal bits are a code: up to four permissive bursts pend, or dump each other
  {Conf(<<1, 1>>, <<1>>, 7, 0, Keep, Permissive), Conf(<<1, 1>>, <<>>, 6, 0, Keep, Reset)}
  \cup
  \* a threshold above the length of the tail; only a tail; code and nothing else
  {Conf(<<0, 0, 1, 1>>, <<1>>, 6, 2, Keep, Permissive),
   Conf(<<>>, <<1, 0>>, 3, 0, Keep, Strict),
   Conf(<<1, 0>>, <<>>, 2, 0, Fix, Strict)}
=============================================================================
