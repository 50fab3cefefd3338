---------------------------- MODULE PduFlowCtrl ----------------------------
(***************************************************************************)
(* Flow controllers in front of blocks whose message queues are unbounded  *)
(* (python/pdu_utils/pdu_flow_ctrl.py, lib/pdu_flow_ctrl_helper.cc).       *)
(*                                                                         *)
(* Every controller runs in a thread of its own: its handler reads the     *)
(* lengths of the watched queues one after the other and then publishes    *)
(* or drops the PDU, while other controllers publish and the watched       *)
(* blocks take messages.                                                   *)
(***************************************************************************)
EXTENDS Naturals, Sequences, FiniteSets

CONSTANTS
  Controllers,      \* the pdu_flow_ctrl blocks
  Ports,            \* input ports of the watched blocks
  Watched,          \* the ports the helper of a controller reads, in order
  Wired,            \* the ports the output of a controller is connected to
  MaxNmsgs,         \* max_nmsgs of every controller
  Supply            \* bound: PDUs the source of a controller posts

(* A controller is placed right in front of the blocks it watches.         *)
WiringAssumption ==
  /\ IsFiniteSet(Controllers)
  /\ Watched \in [Controllers -> Seq(Ports)]
  /\ Wired \in [Controllers -> SUBSET Ports]
  /\ \A c \in Controllers : \A p \in Wired[c] : \E i \in 1..Len(Watched[c]) : Watched[c][i] = p
  /\ MaxNmsgs \in Nat \ {0} /\ Supply \in Nat

VARIABLES
  inbox,            \* PDUs waiting at the pdu_in port of a controller
  nmsgs,            \* messages waiting at a port of a watched block
  reading,          \* 0, or the position of the port the handler reads next
  max_nmsgs,        \* the longest queue it has seen
  n_dropped,        \* the count of a controller, which stop() prints
  posted            \* PDUs its source has posted

vars == <<inbox, nmsgs, reading, max_nmsgs, n_dropped, posted>>

Init ==
  /\ inbox = [c \in Controllers |-> 0]
  /\ nmsgs = [p \in Ports |-> 0]
  /\ reading = [c \in Controllers |-> 0]
  /\ max_nmsgs = [c \in Controllers |-> 0]
  /\ n_dropped = [c \in Controllers |-> 0]
  /\ posted = [c \in Controllers |-> 0]

(* The source of a controller posts a PDU.                                 *)
Post(c) ==
  /\ posted[c] < Supply
  /\ posted' = [posted EXCEPT ![c] = @ + 1]
  /\ inbox' = [inbox EXCEPT ![c] = @ + 1]
  /\ UNCHANGED <<nmsgs, reading, max_nmsgs, n_dropped>>

(* pdu_handler is called and asks the helper.                              *)
Handle(c) ==
  /\ reading[c] = 0 /\ inbox[c] > 0
  /\ inbox' = [inbox EXCEPT ![c] = @ - 1]
  /\ reading' = [reading EXCEPT ![c] = 1]
  /\ max_nmsgs' = [max_nmsgs EXCEPT ![c] = 0]
  /\ UNCHANGED <<nmsgs, n_dropped, posted>>

ReadNmsgs(c) ==
  /\ reading[c] \in 1..Len(Watched[c])
  /\ LET n == nmsgs[Watched[c][reading[c]]]
     IN  max_nmsgs' = [max_nmsgs EXCEPT ![c] = IF n > @ THEN n ELSE @]
  /\ reading' = [reading EXCEPT ![c] = @ + 1]
  /\ UNCHANGED <<inbox, nmsgs, n_dropped, posted>>

Decided(c) == reading[c] = Len(Watched[c]) + 1

(* Mutant of Publish: "more than the configured number" taken literally.   *)
PublishUpToLimit(c) ==
  /\ Decided(c) /\ max_nmsgs[c] <= MaxNmsgs
  /\ nmsgs' = [p \in Ports |-> IF p \in Wired[c] THEN nmsgs[p] + 1 ELSE nmsgs[p]]
  /\ reading' = [reading EXCEPT ![c] = 0]
  /\ UNCHANGED <<inbox, max_nmsgs, n_dropped, posted>>

Publish(c) ==
  /\ Decided(c) /\ max_nmsgs[c] < MaxNmsgs
  /\ nmsgs' = [p \in Ports |-> IF p \in Wired[c] THEN nmsgs[p] + 1 ELSE nmsgs[p]]
  /\ reading' = [reading EXCEPT ![c] = 0]
  /\ UNCHANGED <<inbox, max_nmsgs, n_dropped, posted>>

DropPdu(c) ==
  /\ Decided(c) /\ ~(max_nmsgs[c] < MaxNmsgs)
  /\ n_dropped' = [n_dropped EXCEPT ![c] = @ + 1]
  /\ reading' = [reading EXCEPT ![c] = 0]
  /\ UNCHANGED <<inbox, nmsgs, max_nmsgs, posted>>

(* A watched block takes a message.                                        *)
Consume(p) ==
  /\ nmsgs[p] > 0
  /\ nmsgs' = [nmsgs EXCEPT ![p] = @ - 1]
  /\ UNCHANGED <<inbox, reading, max_nmsgs, n_dropped, posted>>

Handler(c) == Handle(c) \/ ReadNmsgs(c) \/ Publish(c) \/ DropPdu(c)

Next ==
  \/ \E c \in Controllers : Post(c) \/ Handler(c)
  \/ \E p \in Ports : Consume(p)

Spec == Init /\ [][Next]_vars

-----------------------------------------------------------------------------
(* Properties                                                              *)

(* Types of the members.                                                   *)
TypeOK ==
  /\ inbox \in [Controllers -> Nat]
  /\ nmsgs \in [Ports -> Nat]
  /\ reading \in [Controllers -> Nat]
  /\ \A c \in Controllers : reading[c] <= Len(Watched[c]) + 1
  /\ max_nmsgs \in [Controllers -> Nat]
  /\ n_dropped \in [Controllers -> Nat]
  /\ posted \in [Controllers -> Nat]

Sources(p) == {c \in Controllers : p \in Wired[c]}

(* The check of pdu_handler comes before the publication and is not atomic *)
(* with it; every other source of the port can be between the two at once. *)
(* Still a watched queue exceeds the limit by at most the number of these  *)
(* other controllers, and with one controller never.                       *)
QueueBounded ==
  \A p \in Ports : Sources(p) # {} => nmsgs[p] <= MaxNmsgs - 1 + Cardinality(Sources(p))

(* The handlers that have read the port, found room in it and everywhere   *)
(* else so far, and have not published yet.                                *)
Committed(p) ==
  {c \in Sources(p) :
     /\ max_nmsgs[c] < MaxNmsgs
     /\ \E i \in 1..(reading[c] - 1) : i <= Len(Watched[c]) /\ Watched[c][i] = p}

(* Why: a handler commits to a port only when it finds room there, and its *)
(* commitment is the message it will add.                                  *)
CommitmentsBounded ==
  \A p \in Ports :
    Sources(p) # {} =>
      nmsgs[p] + Cardinality(Committed(p)) <= MaxNmsgs - 1 + Cardinality(Sources(p))
=============================================================================
