--------------------------- MODULE MessageRouting ---------------------------
(***************************************************************************)
(* The blocks that pass messages on or count them, connected in a chain:   *)
(*   message_emitter -> message_gate -> message_keep_1_in_n                *)
(*     -> pdu_round_robin -> one message_counter at each output            *)
(* (lib/message_emitter_impl.cc, message_gate_impl.cc,                     *)
(* message_keep_1_in_n_impl.cc, pdu_round_robin_impl.cc and                *)
(* message_counter_impl.{h,cc}).                                           *)
(*                                                                         *)
(* Each block handles its queue in a thread of its own.  The application   *)
(* calls emit(), set_enabled, set_n and the resets from threads of its     *)
(* own.  The gate and keep_1_in_n lock; emit(), the handler of the counter *)
(* and reset of the counter do not, so that an increment is a read and a   *)
(* write.  A message is its number in the order of publication.            *)
(***************************************************************************)
EXTENDS Naturals, Sequences, FiniteSets

CONSTANTS
  Callers,          \* threads that call emit()
  Port,             \* the thread of the emitter, which calls emit(msg)
  NumOutputs,       \* num_outputs of the round robin
  KeepSettings,     \* values of n of keep_1_in_n, 0 is refused
  MaxMessages       \* bound: calls of emit

RoutingAssumption ==
  /\ Port \notin Callers /\ IsFiniteSet(Callers)
  /\ NumOutputs \in Nat \ {0}
  /\ KeepSettings \subseteq Nat /\ KeepSettings \ {0} # {}
  /\ MaxMessages \in Nat

Emitters == Callers \cup {Port}
Outputs == 0..(NumOutputs - 1)

VARIABLES
  d_n_msgs,                 \* count of the emitter
  emitting,                 \* a thread in emit: how far it is, and what it read
  calls,                    \* calls of emit so far
  n_published,              \* messages published by the emitter
  h_overlap,                \* history: a call read d_n_msgs while another would write it
  at_gate, at_keep, at_rr,  \* queues of the blocks
  d_enabled, d_n_passed, d_n_blocked,
  d_n, d_ctr_keep,
  d_counter,                \* output the round robin uses next
  delivered,                \* messages sent to an output, in order
  handled,                  \* how many of them the counter has taken
  d_ctr, counting,          \* count of each counter; is an increment under way?
  h_since, h_torn           \* history: messages counted since a reset, or torn by it

emitter == <<d_n_msgs, emitting, calls, n_published, h_overlap>>
gate    == <<d_enabled, d_n_passed, d_n_blocked>>
keep    == <<d_n, d_ctr_keep>>
robin   == <<d_counter, delivered>>
counter == <<handled, d_ctr, counting, h_since, h_torn>>
vars == <<emitter, at_gate, gate, at_keep, keep, at_rr, robin, counter>>

Rest == [phase |-> "rest", read |-> 0]
NotCounting == [busy |-> FALSE, read |-> 0]

Init ==
  /\ d_n_msgs = 0 /\ calls = 0 /\ n_published = 0 /\ h_overlap = FALSE
  /\ emitting = [e \in Emitters |-> Rest]
  /\ at_gate = <<>> /\ at_keep = <<>> /\ at_rr = <<>>
  /\ d_enabled \in BOOLEAN /\ d_n_passed = 0 /\ d_n_blocked = 0
  /\ d_n \in KeepSettings \ {0} /\ d_ctr_keep = 0
  /\ d_counter = 0 /\ delivered = [o \in Outputs |-> <<>>]
  /\ handled = [o \in Outputs |-> 0]
  /\ d_ctr = [o \in Outputs |-> 0] /\ counting = [o \in Outputs |-> NotCounting]
  /\ h_since = [o \in Outputs |-> 0] /\ h_torn = [o \in Outputs |-> FALSE]

-----------------------------------------------------------------------------
(* message_emitter: d_n_msgs++ and then the publication                    *)

EmitRead(e) ==
  /\ emitting[e] = Rest /\ calls < MaxMessages
  /\ calls' = calls + 1
  /\ emitting' = [emitting EXCEPT ![e] = [phase |-> "write", read |-> d_n_msgs]]
  /\ h_overlap' = (h_overlap \/ \E f \in Emitters : emitting[f].phase = "write")
  /\ UNCHANGED <<d_n_msgs, n_published, at_gate, gate, at_keep, keep, at_rr, robin, counter>>

(* Mutant of EmitWrite: a message is counted twice.                        *)
EmitWriteTwice(e) ==
  /\ emitting[e].phase = "write"
  /\ d_n_msgs' = emitting[e].read + 2
  /\ emitting' = [emitting EXCEPT ![e] = [phase |-> "publish", read |-> 0]]
  /\ UNCHANGED <<calls, n_published, h_overlap, at_gate, gate, at_keep, keep, at_rr, robin, counter>>

EmitWrite(e) ==
  /\ emitting[e].phase = "write"
  /\ d_n_msgs' = emitting[e].read + 1
  /\ emitting' = [emitting EXCEPT ![e] = [phase |-> "publish", read |-> 0]]
  /\ UNCHANGED <<calls, n_published, h_overlap, at_gate, gate, at_keep, keep, at_rr, robin, counter>>

EmitPublish(e) ==
  /\ emitting[e].phase = "publish"
  /\ emitting' = [emitting EXCEPT ![e] = Rest]
  /\ n_published' = n_published + 1
  /\ at_gate' = Append(at_gate, n_published + 1)
  /\ UNCHANGED <<d_n_msgs, calls, h_overlap, gate, at_keep, keep, at_rr, robin, counter>>

-----------------------------------------------------------------------------
(* message_gate                                                            *)

GateHandle ==
  /\ at_gate # <<>>
  /\ at_gate' = Tail(at_gate)
  /\ IF d_enabled
     THEN /\ d_n_passed' = d_n_passed + 1
          /\ at_keep' = Append(at_keep, Head(at_gate))
          /\ UNCHANGED d_n_blocked
     ELSE d_n_blocked' = d_n_blocked + 1 /\ UNCHANGED <<d_n_passed, at_keep>>
  /\ UNCHANGED <<emitter, d_enabled, keep, at_rr, robin, counter>>

(* A reset also opens the gate.                                            *)
GateReset ==
  /\ d_n_passed' = 0 /\ d_n_blocked' = 0 /\ d_enabled' = TRUE
  /\ UNCHANGED <<emitter, at_gate, at_keep, keep, at_rr, robin, counter>>

SetEnabled(enabled) ==
  /\ d_enabled' = enabled
  /\ UNCHANGED <<emitter, at_gate, d_n_passed, d_n_blocked, at_keep, keep, at_rr, robin,
                 counter>>

-----------------------------------------------------------------------------
(* message_keep_1_in_n                                                     *)

KeepHandle ==
  /\ at_keep # <<>>
  /\ at_keep' = Tail(at_keep)
  /\ IF d_ctr_keep + 1 >= d_n
     THEN d_ctr_keep' = 0 /\ at_rr' = Append(at_rr, Head(at_keep))
     ELSE d_ctr_keep' = d_ctr_keep + 1 /\ UNCHANGED at_rr
  /\ UNCHANGED <<emitter, at_gate, gate, d_n, robin, counter>>

SetN(n) ==
  /\ n # 0
  /\ d_n' = n
  /\ UNCHANGED <<emitter, at_gate, gate, at_keep, d_ctr_keep, at_rr, robin, counter>>

-----------------------------------------------------------------------------
(* pdu_round_robin                                                         *)

RobinHandle ==
  /\ at_rr # <<>>
  /\ at_rr' = Tail(at_rr)
  /\ delivered' = [delivered EXCEPT ![d_counter] = Append(@, Head(at_rr))]
  /\ d_counter' = (d_counter + 1) % NumOutputs
  /\ UNCHANGED <<emitter, at_gate, gate, at_keep, keep, counter>>

-----------------------------------------------------------------------------
(* message_counter                                                         *)

CountRead(o) ==
  /\ ~counting[o].busy /\ handled[o] < Len(delivered[o])
  /\ counting' = [counting EXCEPT ![o] = [busy |-> TRUE, read |-> d_ctr[o]]]
  /\ UNCHANGED <<emitter, at_gate, gate, at_keep, keep, at_rr, robin,
                 handled, d_ctr, h_since, h_torn>>

CountWrite(o) ==
  /\ counting[o].busy
  /\ d_ctr' = [d_ctr EXCEPT ![o] = counting[o].read + 1]
  /\ counting' = [counting EXCEPT ![o] = NotCounting]
  /\ handled' = [handled EXCEPT ![o] = @ + 1]
  /\ h_since' = [h_since EXCEPT ![o] = @ + 1]
  /\ UNCHANGED <<emitter, at_gate, gate, at_keep, keep, at_rr, robin, h_torn>>

(* Mutant of CounterReset: the count stays.                                *)
CounterResetNothing(o) ==
  /\ h_since' = [h_since EXCEPT ![o] = 0]
  /\ h_torn' = [h_torn EXCEPT ![o] = counting[o].busy]
  /\ UNCHANGED <<emitter, at_gate, gate, at_keep, keep, at_rr, robin, handled, counting, d_ctr>>

CounterReset(o) ==
  /\ d_ctr' = [d_ctr EXCEPT ![o] = 0]
  /\ h_since' = [h_since EXCEPT ![o] = 0]
  /\ h_torn' = [h_torn EXCEPT ![o] = counting[o].busy]
  /\ UNCHANGED <<emitter, at_gate, gate, at_keep, keep, at_rr, robin, handled, counting>>

Next ==
  \/ \E e \in Emitters : EmitRead(e) \/ EmitWrite(e) \/ EmitPublish(e)
  \/ GateHandle \/ GateReset
  \/ \E enabled \in BOOLEAN : SetEnabled(enabled)
  \/ KeepHandle
  \/ \E n \in KeepSettings : SetN(n)
  \/ RobinHandle
  \/ \E o \in Outputs : CountRead(o) \/ CountWrite(o) \/ CounterReset(o)

Spec == Init /\ [][Next]_vars

-----------------------------------------------------------------------------
(* Properties                                                              *)

(* Types of the queues and of the round robin.                             *)
RobinTypeOK ==
  /\ n_published \in Nat
  /\ at_gate \in Seq(Nat) /\ at_keep \in Seq(Nat) /\ at_rr \in Seq(Nat)
  /\ d_counter \in Outputs
  /\ delivered \in [Outputs -> Seq(Nat)]

(* The outputs of the round robin get the same number of messages, up to   *)
(* one, and the ones before d_counter are those ahead.                     *)
OutputsBalanced ==
  \A o, p \in Outputs :
    Len(delivered[o]) + (IF p < d_counter THEN 1 ELSE 0)
      = Len(delivered[p]) + (IF o < d_counter THEN 1 ELSE 0)

(* get_ctr of a counter is the number of messages since the last reset,    *)
(* unless the reset came in the middle of an increment, which then undoes  *)
(* it: the handler and reset are not synchronised.                         *)
CounterExact == \A o \in Outputs : h_torn[o] \/ d_ctr[o] = h_since[o]

(* The emitter never counts more messages than emit was called for, and    *)
(* exactly those if no call read the count while another was about to      *)
(* write it: emit() without a message does not lock.                       *)
Writing == {e \in Emitters : emitting[e].phase = "write"}
EmitterCountsCalls ==
  /\ d_n_msgs + Cardinality(Writing) <= calls
  /\ ~h_overlap => d_n_msgs + Cardinality(Writing) = calls
=============================================================================
