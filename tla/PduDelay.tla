------------------------------ MODULE PduDelay ------------------------------
(***************************************************************************)
(* The pdu_delay block: holds every PDU back for a time of its own         *)
(* (python/pdu_utils/pdu_delay.py).                                        *)
(*                                                                         *)
(* Each PDU has a timer that runs in a thread of its own; timers fire at   *)
(* any moment from their due time on, in any order.  set_delay and         *)
(* set_debug are called by the application at any time.                    *)
(***************************************************************************)
EXTENDS Naturals, Sequences, FiniteSets

CONSTANTS
  Pdus,             \* PDUs that arrive
  Delays,           \* delays
  Unusable,         \* a "delay" of the metadata that is negative or no number
  None,             \* no such entry of the metadata
  MaxTime           \* bound: the clock

DelayAssumption ==
  /\ Delays \subseteq Nat /\ MaxTime \in Nat
  /\ Unusable \notin Nat /\ None \notin Nat /\ None \notin [at : Nat, delay : Nat]

VARIABLES
  now,              \* time.time()
  delay, debug,     \* members
  timers,           \* PDUs with a timer: when it is due, and time_in
  published,        \* PDUs published, with their times in and out
  arrived           \* history: when a PDU came and the delay that held for it

vars == <<now, delay, debug, timers, published, arrived>>

Init ==
  /\ now = 0
  /\ delay \in Delays /\ debug \in BOOLEAN
  /\ timers = {} /\ published = {}
  /\ arrived = [p \in Pdus |-> None]

(* The delay of the metadata counts if it is a non-negative number.        *)
Chosen(own) == IF own \in Delays THEN own ELSE delay

HandlePdu(p, own) ==
  /\ arrived[p] = None
  /\ arrived' = [arrived EXCEPT ![p] = [at |-> now, delay |-> Chosen(own)]]
  /\ timers' = timers \cup {[pdu |-> p, due |-> now + Chosen(own),
                             time_in |-> IF debug THEN now ELSE None]}
  /\ UNCHANGED <<now, delay, debug, published>>

(* Mutant of OnTimer: the timer is periodic.                               *)
OnTimerAgain(t) ==
  /\ now >= t.due
  /\ published' = published \cup {[pdu |-> t.pdu, at |-> now, time_in |-> t.time_in,
                                   time_out |-> IF debug THEN now ELSE None]}
  /\ UNCHANGED <<now, delay, debug, timers, arrived>>

OnTimer(t) ==
  /\ now >= t.due
  /\ timers' = timers \ {t}
  /\ published' = published \cup {[pdu |-> t.pdu, at |-> now, time_in |-> t.time_in,
                                   time_out |-> IF debug THEN now ELSE None]}
  /\ UNCHANGED <<now, delay, debug, arrived>>

(* A negative delay raises an error and changes nothing.                   *)
SetDelay(d) == delay' = d /\ UNCHANGED <<now, debug, timers, published, arrived>>
SetDebug(b) == debug' = b /\ UNCHANGED <<now, delay, timers, published, arrived>>

Tick ==
  /\ now < MaxTime
  /\ now' = now + 1
  /\ UNCHANGED <<delay, debug, timers, published, arrived>>

Next ==
  \/ \E p \in Pdus, own \in Delays \cup {Unusable, None} : HandlePdu(p, own)
  \/ \E t \in timers : OnTimer(t)
  \/ \E d \in Delays : SetDelay(d)
  \/ \E b \in BOOLEAN : SetDebug(b)
  \/ Tick

Spec == Init /\ [][Next]_vars

-----------------------------------------------------------------------------
(* Properties                                                              *)

(* Each PDU is published at most once, never before the delay that held    *)
(* when it came has passed, and in debug mode what its metadata says of    *)
(* that time is true, whatever the application has set meanwhile.          *)
DelayHonoured ==
  \A a \in published :
    /\ \A b \in published : a.pdu = b.pdu => a = b
    /\ arrived[a.pdu] # None
    /\ a.at >= arrived[a.pdu].at + arrived[a.pdu].delay
    /\ a.time_in # None /\ a.time_out # None =>
         a.time_out - a.time_in >= arrived[a.pdu].delay
=============================================================================
