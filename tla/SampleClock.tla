---------------------------- MODULE SampleClock ----------------------------
(***************************************************************************)
(* How the blocks that read time tags keep time: a known time at a known   *)
(* sample, carried to another sample by the sample rate.  Time is counted  *)
(* in ticks, TicksPerSec to the second, and every sample rate divides      *)
(* TicksPerSec, so that the times are exact integers; the rounding of the  *)
(* doubles in the code is abstracted away, the split of a time into whole  *)
(* seconds and a fraction is not.                                          *)
(***************************************************************************)
EXTENDS Integers

CONSTANTS
  TicksPerSec,      \* resolution of the time
  ClockAtZero,      \* true time of stream offset 0, in ticks
  TrueRate          \* true sample rate of the stream

Rates == {rate \in 1..TicksPerSec : TicksPerSec % rate = 0}

ASSUME ClockAssumption ==
  /\ TicksPerSec \in Nat \ {0}
  /\ ClockAtZero \in Nat
  /\ TrueRate \in Rates

Times == [sec : Int, frac : Int]

(* d_known_time_int_sec, d_known_time_frac_sec and d_known_time_offset.    *)
KnownTimes == [sec : Int, frac : Int, off : Nat]

Ticks(time) == time.sec * TicksPerSec + time.frac

Period(rate) == TicksPerSec \div rate

TrueTime(o) == ClockAtZero + o * Period(TrueRate)

(* set_known_time_offset with the value of a time tag: the upstream radio  *)
(* stamps it with the true time of its sample.                             *)
TimeTag(o) == [sec  |-> TrueTime(o) \div TicksPerSec,
               frac |-> TrueTime(o) % TicksPerSec,
               off  |-> o]

(* Conversion of a time to whole seconds: truncation towards zero.         *)
Truncated(ticks) ==
  IF ticks >= 0 THEN ticks \div TicksPerSec ELSE -((-ticks) \div TicksPerSec)
=============================================================================
