---------------------------- MODULE MCTagsToPdu ----------------------------
(***************************************************************************)
(* Small instances of TagsToPdu.  MCStreams holds every stream of          *)
(* StreamLength samples whose tags are taken from TagChoices.              *)
(***************************************************************************)
EXTENDS TagsToPdu, FiniteSets

CONSTANTS StreamLength, SOB, EOB, TIME

MCTagKeys == {SOB, EOB, TIME}

(* Two tags on one sample: both orders matter, as the scan of work() stops *)
(* at the first SOB or EOB.                                                *)
MCTagChoices ==
  {<<>>, <<SOB>>, <<EOB>>, <<TIME>>, <<TIME, SOB>>, <<EOB, SOB>>}

MCStreams == [1..StreamLength -> MCTagChoices]

(* A PDU holds at most four items, a prepended one included; the end is    *)
(* aligned to lengths of 3 and 6 (offset 3 makes a burst of two items wrap *)
(* around below zero); a burst with two items is not published.            *)
MCConf ==
  [d_sob_tag_key |-> SOB, d_eob_tag_key |-> EOB, d_time_tag_key |-> TIME,
   d_max_pdu_size |-> 4, d_tail_size |-> 2, prepend_len |-> 1,
   d_eob_alignment |-> 3, d_eob_offset |-> 3, d_pub_sobs |-> TRUE,
   d_samp_rate |-> 2, d_wall_clock_time |-> FALSE]

(* With room for five items an EOB finds two, three or four of them: two   *)
(* wrap around, three are aligned, and four get two zeros, which take the  *)
(* PDU past its maximum size.                                              *)
PaddedConf == [MCConf EXCEPT !.d_max_pdu_size = 5]

(* While the flowgraph runs, the application changes every parameter; the  *)
(* SOB and EOB keys can swap roles in the middle of a burst.               *)
ReconfStreams == [1..StreamLength -> {<<>>, <<SOB>>, <<EOB>>}]
ReconfTags == {SOB, EOB}
ReconfEob == {[alignment |-> 2, offset |-> 1]}
ReconfTimes == {[sec |-> 9, frac |-> 1]}

(* Bound: at most two of the eleven parameters differ from the ones given  *)
(* to make(), or one parameter and the start time; one more can change in  *)
(* the last step of a behaviour.                                           *)
FewChanges ==
  Cardinality({p \in DOMAIN conf : conf[p] # InitConf[p]})
    + (IF known = TimeTag(0) /\ start_setter = <<>> THEN 0 ELSE 1) <= 2
=============================================================================
