--------------------------- MODULE TakeSkipToPdu ---------------------------
(***************************************************************************)
(* The take_skip_to_pdu block: cuts a stream into PDUs of d_take items     *)
(* with d_skip items between them (lib/take_skip_to_pdu_impl.cc).          *)
(*                                                                         *)
(* Item number k of the stream is k itself.  A step is one call of work()  *)
(* with some number of available items; the setters lock d_setlock, which  *)
(* work() holds, so they act between two calls.                            *)
(***************************************************************************)
EXTENDS Naturals, Sequences

CONSTANTS
  StreamLength,     \* number of items
  InitTakes, InitSkips,     \* parameters of make()
  TakeSettings, SkipSettings        \* what the application may set

TakeSkipAssumption ==
  /\ StreamLength \in Nat
  /\ InitTakes \subseteq Nat \ {0}      \* the constructor refuses 0
  /\ InitSkips \subseteq Nat
  /\ TakeSettings \subseteq Nat         \* the setter does not
  /\ SkipSettings \subseteq Nat

VARIABLES
  nitems_read,      \* items consumed
  d_take, d_skip,
  d_next,           \* item at which the block switches
  d_triggered,      \* is it taking?
  d_vector,         \* items taken for the next PDU
  pdu,              \* the PDU published last
  plan,             \* history: start and length of the PDU the block is at, or skips to
  planned           \* history: what the plan of the last PDU was

state == <<nitems_read, d_next, d_triggered, d_vector, pdu, plan, planned>>
vars  == <<state, d_take, d_skip>>

(* A run of n items.                                                       *)
Items(start, n) == [i \in 1..n |-> start + i - 1]

Init ==
  /\ d_take \in InitTakes
  /\ d_skip \in InitSkips
  /\ nitems_read = 0
  /\ d_next = d_take /\ d_triggered = TRUE /\ d_vector = <<>>
  /\ pdu = <<>>
  /\ plan = [start |-> 0, length |-> d_take]
  /\ planned = [start |-> 0, length |-> 0]

Consume(consumed) == nitems_read' = nitems_read + consumed

Switches(n) == d_next <= nitems_read + n
ToSwitch == d_next - nitems_read

(* All n items are taken, or skipped.                                      *)
WorkThrough(n) ==
  /\ ~Switches(n)
  /\ Consume(n)
  /\ d_vector' = IF d_triggered THEN d_vector \o Items(nitems_read, n) ELSE d_vector
  /\ UNCHANGED <<d_next, d_triggered, pdu, plan, planned>>

(* Mutant of WorkPublish: the items taken are not cleared.                 *)
WorkPublishKeepsItems(n) ==
  /\ Switches(n) /\ d_triggered
  /\ Consume(ToSwitch)
  /\ pdu' = d_vector \o Items(nitems_read, ToSwitch)
  /\ d_vector' = pdu'
  /\ d_triggered' = (d_skip = 0)
  /\ d_next' = IF d_skip = 0 THEN d_next + d_take ELSE d_next + d_skip
  /\ planned' = plan
  /\ plan' = [start |-> plan.start + plan.length + d_skip, length |-> d_take]

(* Mutant of WorkPublish: without a skip, d_next is not moved on.          *)
WorkPublishStays(n) ==
  /\ Switches(n) /\ d_triggered
  /\ Consume(ToSwitch)
  /\ pdu' = d_vector \o Items(nitems_read, ToSwitch)
  /\ d_vector' = <<>>
  /\ d_triggered' = (d_skip = 0)
  /\ d_next' = d_next + d_skip
  /\ planned' = plan
  /\ plan' = [start |-> d_next + d_skip, length |-> d_take]

(* The last item of a PDU is among them.  Without a skip the next PDU      *)
(* follows at once.                                                        *)
WorkPublish(n) ==
  /\ Switches(n) /\ d_triggered
  /\ Consume(ToSwitch)
  /\ pdu' = d_vector \o Items(nitems_read, ToSwitch)
  /\ d_vector' = <<>>
  /\ d_triggered' = (d_skip = 0)
  /\ d_next' = IF d_skip = 0 THEN d_next + d_take ELSE d_next + d_skip
  /\ planned' = plan
  /\ plan' = [start |-> plan.start + plan.length + d_skip, length |-> d_take]

(* The last item of a gap is among them: the length in force now counts.   *)
WorkStart(n) ==
  /\ Switches(n) /\ ~d_triggered
  /\ Consume(ToSwitch)
  /\ d_triggered' = TRUE
  /\ d_next' = d_next + d_take
  /\ plan' = [plan EXCEPT !.length = d_take]
  /\ UNCHANGED <<d_vector, pdu, planned>>

Work ==
  /\ \E n \in 1..(StreamLength - nitems_read) :
       WorkThrough(n) \/ WorkPublish(n) \/ WorkStart(n)
  /\ UNCHANGED <<d_take, d_skip>>

SetTake(take) == d_take' = take /\ UNCHANGED <<state, d_skip>>
SetSkip(skip) == d_skip' = skip /\ UNCHANGED <<state, d_take>>

Next ==
  \/ Work
  \/ \E take \in TakeSettings : SetTake(take)
  \/ \E skip \in SkipSettings : SetSkip(skip)

Spec == Init /\ [][Next]_vars

(* The scheduler calls work() again while there is input.                  *)
FairSpec == Spec /\ WF_vars(Work)

-----------------------------------------------------------------------------
(* Properties                                                              *)

(* Types of the members.                                                   *)
TypeOK ==
  /\ nitems_read \in Nat /\ nitems_read <= StreamLength
  /\ d_take \in Nat /\ d_skip \in Nat /\ d_next \in Nat
  /\ d_triggered \in BOOLEAN
  /\ d_vector \in Seq(Nat) /\ pdu \in Seq(Nat)
  /\ plan \in [start : Nat, length : Nat] /\ planned \in [start : Nat, length : Nat]

(* However the stream is cut into calls and whenever the application sets  *)
(* d_take and d_skip: a PDU is a run of consecutive items, starts after    *)
(* the gap in force when the previous one ended, and is as long as the     *)
(* take in force when it began.                                            *)
PduAsPlanned == pdu = Items(planned.start, planned.length)

(* Why: what was taken so far is the beginning of the planned PDU, and     *)
(* d_next is its end, or its start while skipping; no switch is passed.    *)
OnPlan ==
  /\ nitems_read <= d_next
  /\ d_triggered => /\ d_next = plan.start + plan.length
                    /\ plan.start <= nitems_read
                    /\ d_vector = Items(plan.start, nitems_read - plan.start)
  /\ ~d_triggered => d_next = plan.start /\ d_vector = <<>>

(* All of the stream is consumed, unless take and skip are zero again and  *)
(* again: then work() consumes nothing and publishes empty PDUs.           *)
StreamConsumed ==
  <>(nitems_read = StreamLength) \/ []<>(d_take = 0 /\ d_skip = 0)
=============================================================================
