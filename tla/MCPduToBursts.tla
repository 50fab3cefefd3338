--------------------------- MODULE MCPduToBursts ---------------------------
(* Small instances of PduToBursts.                                         *)
EXTENDS PduToBursts

(* Untimed PDUs of one to three items, a timed one, one whose tx_time is   *)
(* malformed, an empty one and one of the wrong type.                      *)
MCPduKinds ==
  [valid : {TRUE}, len : 1..3, time : {"absent"}]
    \cup [valid : {TRUE}, len : {2}, time : {"good", "malformed"}]
    \cup {[valid |-> TRUE, len |-> 0, time |-> "absent"],
          [valid |-> FALSE, len |-> 1, time |-> "absent"]}
=============================================================================
