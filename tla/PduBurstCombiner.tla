-------------------------- MODULE PduBurstCombiner --------------------------
(***************************************************************************)
(* The pdu_burst_combiner block: joins the PDUs x of y of a burst into one *)
(* (lib/pdu_burst_combiner_impl.cc).                                       *)
(*                                                                         *)
(* The data of a PDU is its position among the ones received.  Any PDU can *)
(* follow any other: the blocks in front of this one drop PDUs.  PDUs of   *)
(* another type and empty ones are ignored before anything changes.        *)
(***************************************************************************)
EXTENDS Naturals, Integers, Sequences

CONSTANTS
  Indices,          \* burst_index tuples <<x, y>>, <<0, 0>> when it is missing
  MaxPdus           \* bound: number of PDUs

IndicesAssumption == Indices \subseteq Nat \X Nat /\ MaxPdus \in Nat

VARIABLES
  d_data,           \* the PDUs joined so far
  d_burst0_metadata,        \* the PDU whose metadata is kept, or 0
  d_burst_count,
  received,         \* history: the tuples of the PDUs received
  sent,             \* the PDU published by the last step, or Nothing
  stopped           \* has an exception ended the thread of the block?

vars == <<d_data, d_burst0_metadata, d_burst_count, received, sent, stopped>>

Nothing == [meta |-> 0, data |-> <<>>]

Init ==
  /\ d_data = <<>> /\ d_burst0_metadata = 0 /\ d_burst_count = 0
  /\ received = <<>> /\ sent = Nothing /\ stopped = FALSE

ResetState == d_data' = <<>> /\ d_burst0_metadata' = 0 /\ d_burst_count' = 0

This == Len(received) + 1

Publish(meta, data) == sent' = [meta |-> meta, data |-> data]
Silent == sent' = Nothing

Continue(x, y) ==
  /\ d_burst_count # 0 /\ x < y
  /\ d_data' = Append(d_data, This)
  /\ Silent
  /\ UNCHANGED <<d_burst0_metadata, d_burst_count>>

Finish(x, y) ==
  /\ d_burst_count # 0 /\ x = y
  /\ Publish(d_burst0_metadata, Append(d_data, This))
  /\ ResetState

(* Mutant of Abandon: the burst is not given up.                           *)
AbandonNothing(x, y) ==
  /\ d_burst_count # 0 /\ x > y
  /\ Silent
  /\ UNCHANGED <<d_data, d_burst0_metadata, d_burst_count>>

(* The message logged first has a lone % in its format, for which          *)
(* boost::format throws, where logging is compiled in.                     *)
Abandon(x, y) ==
  /\ d_burst_count # 0 /\ x > y
  /\ ResetState /\ Silent

AbandonThrows(x, y) ==
  /\ d_burst_count # 0 /\ x > y
  /\ Silent
  /\ UNCHANGED <<d_data, d_burst0_metadata, d_burst_count>>

(* Mutant of Begin: a burst begins with any of its PDUs.                   *)
BeginAnywhere(x, y) ==
  /\ d_burst_count = 0 /\ y > 1
  /\ d_data' = <<This>> /\ d_burst0_metadata' = This /\ d_burst_count' = y
  /\ Silent

Begin(x, y) ==
  /\ d_burst_count = 0 /\ y > 1 /\ x = 1
  /\ d_data' = <<This>> /\ d_burst0_metadata' = This /\ d_burst_count' = y
  /\ Silent

Refuse(x, y) ==
  /\ d_burst_count = 0 /\ y > 1 /\ x # 1
  /\ ResetState /\ Silent

PassOn(x, y) ==
  /\ d_burst_count = 0 /\ y <= 1
  /\ Publish(This, <<This>>)
  /\ ResetState

HandlePdu(x, y) ==
  /\ ~stopped /\ Len(received) < MaxPdus
  /\ received' = Append(received, <<x, y>>)
  /\ \/ /\ \/ Continue(x, y) \/ Finish(x, y) \/ Abandon(x, y)
           \/ Begin(x, y) \/ Refuse(x, y) \/ PassOn(x, y)
        /\ UNCHANGED stopped
     \/ AbandonThrows(x, y) /\ stopped' = TRUE

Next == \E i \in Indices : HandlePdu(i[1], i[2])

Spec == Init /\ [][Next]_vars

-----------------------------------------------------------------------------
(* Properties                                                              *)

X(i) == received[i][1]
Y(i) == received[i][2]
Last == Len(received)

(* A whole burst was received last: PDUs first to Last are 1 to y of y.    *)
WholeBurst(first) ==
  /\ Y(first) > 1
  /\ Last - first + 1 = Y(first)
  /\ \A i \in first..Last : X(i) = i - first + 1 /\ Y(i) = Y(first)

(* Nothing is joined when the PDU before was the last of its burst, or     *)
(* nothing came before.                                                    *)
Fresh(first) == first = 1 \/ X(first - 1) >= Y(first - 1)

(* Whatever was lost or garbled before, a burst received whole after the   *)
(* last PDU of another one is published, with the metadata of its first    *)
(* PDU: while the block runs, it needs one last PDU at most to recover.    *)
WholeBurstJoined ==
  \A first \in 1..Last :
    WholeBurst(first) /\ Fresh(first) =>
      sent = [meta |-> first, data |-> [i \in 1..(Last - first + 1) |-> first + i - 1]]

(* Whatever is published is a run of PDUs received without a gap, up to    *)
(* the last one, with the metadata of its first; more than one are only    *)
(* joined from a first of several to the next last of its burst, which is  *)
(* not always the same burst (d_burst_count is not compared).              *)
JoinsRuns ==
  sent # Nothing =>
    LET first == sent.meta
    IN  /\ sent.data = [i \in 1..(Last - first + 1) |-> first + i - 1]
        /\ X(Last) = Y(Last) \/ first = Last
        /\ first < Last => /\ X(first) = 1 /\ Y(first) > 1
                           /\ \A i \in first..(Last - 1) : X(i) < Y(i)
=============================================================================
