------------------------ MODULE MCTagMessageTrigger ------------------------
(***************************************************************************)
(* A small instance of TagMessageTrigger: every stream of StreamLength     *)
(* samples with TagCount tags, a trigger and at most one time tag among    *)
(* them.                                                                   *)
(***************************************************************************)
EXTENDS TagMessageTrigger

CONSTANTS TagCount, TRIG, ARM, TIME, Configured, Replaced

MCKeys == {TRIG, ARM, TIME}
MCMessages == {Configured, Replaced}

MCTags ==
  {s \in [1..TagCount -> StreamTags] :
     /\ \A i \in 2..TagCount : s[i - 1].offset <= s[i].offset
     /\ \E i \in 1..TagCount : s[i].key = TRIG
     /\ Cardinality({i \in 1..TagCount : s[i].key = TIME}) <= 1}

(* The uninitialised disarm offset is past the stream, so that reading it  *)
(* would let every trigger pass.  With holdoff 1, the delay can take the   *)
(* fraction of a tx_time to exactly one second.  One block waits for an    *)
(* arming tag and sends timed PDUs, the other fires at will and sends      *)
(* plain messages.                                                         *)
Armable ==
  [d_trigger_key |-> TRIG, d_arming_key |-> ARM, d_time_tag_key |-> TIME,
   d_message |-> Configured, d_holdoff |-> 1, d_samp_rate |-> 2,
   delay |-> [sec |-> 0, frac |-> 1], d_tpdu_mode |-> TRUE]

MCConfs == {Armable, [Armable EXCEPT !.d_arming_key = NIL, !.d_tpdu_mode = FALSE]}

MCStartTimes == {TimeTag(0)}
TrueStartTimes == {[sec |-> t.sec, frac |-> t.frac] : t \in MCStartTimes}
MCDelays == {[sec |-> 1, frac |-> 3]}

(* Armings that no arming tag explains.                                    *)
ArmCommands ==
  h_arm.num - (IF d_fire_at_will THEN 0
               ELSE Cardinality({k \in 1..(next_tag - 1) : tags[k].key = ARM}))

(* Bound: one parameter or the limit differs from what it was at the       *)
(* start, or one command was given; one more in the last step.             *)
OneChange ==
  \E c \in InitConfs :
    Cardinality({p \in DOMAIN conf : conf[p] # c[p]})
      + (IF h_limit.set = Unlimited THEN 0 ELSE 1)
      + Cardinality({i \in 1..Len(published) : published[i].by = "command"})
      + ArmCommands <= 1

(* Bound: nothing happens after the last sample.                           *)
NotDone == nitems_read < StreamLength
=============================================================================
