------------------------- MODULE SampleClockProofs -------------------------
(***************************************************************************)
(* Facts about the arithmetic of SampleClock for every resolution, start   *)
(* time and rate.                                                          *)
(***************************************************************************)
EXTENDS SampleClock, TLAPS

LEMMA PeriodNat ==
  ASSUME NEW rate \in Rates
  PROVE  Period(rate) \in Nat
BY ClockAssumption DEF Rates, Period

LEMMA TruncatedInt ==
  ASSUME NEW ticks \in Int
  PROVE  Truncated(ticks) \in Int
BY ClockAssumption DEF Truncated

LEMMA TrueTimeNat ==
  ASSUME NEW o \in Nat
  PROVE  TrueTime(o) \in Nat
<1>1. Period(TrueRate) \in Nat
  BY ClockAssumption, PeriodNat
<1> QED  BY <1>1, ClockAssumption DEF TrueTime

(* A time tag splits the true time of its sample without loss.             *)
LEMMA TimeTagTrue ==
  ASSUME NEW o \in Nat
  PROVE  /\ TimeTag(o) \in KnownTimes
         /\ TimeTag(o).off = o
         /\ Ticks(TimeTag(o)) = TrueTime(o)
<1> DEFINE t == TrueTime(o)
<1>1. t \in Nat
  BY TrueTimeNat
<1>2. TimeTag(o) \in KnownTimes
  BY <1>1, ClockAssumption DEF TimeTag, KnownTimes
<1> HIDE DEF t
<1>3. (t \div TicksPerSec) * TicksPerSec + (t % TicksPerSec) = t
  BY <1>1, ClockAssumption
<1>4. Ticks(TimeTag(o)) = t
  BY <1>3 DEF Ticks, TimeTag, t
<1> QED  BY <1>2, <1>4 DEF TimeTag, t
=============================================================================
