---------------------------- MODULE PduPreamble ----------------------------
(***************************************************************************)
(* The pdu_preamble block: puts a preamble, a tail and zeros around the    *)
(* bits of a PDU, each bit interpolated (lib/pdu_preamble_impl.cc).        *)
(*                                                                         *)
(* The preamble and the tail are kept interpolated.  set_interp and        *)
(* set_nrz write their parameter and copy the preamble and the tail        *)
(* without the lock, and hand the copies to set_preamble and set_tail,     *)
(* which lock, store and interpolate them.  The message handler holds the  *)
(* lock; its loop is one step: a PDU made while a setter runs may mix      *)
(* settings within its data too, which nothing here promises against.      *)
(***************************************************************************)
EXTENDS Naturals, Integers, Sequences

CONSTANTS
  Threads,          \* threads of the application
  Words,            \* preambles and tails, sequences of bits
  Interps,          \* interpolation factors
  Pads,             \* numbers of zeros
  Data,             \* data of the PDUs that arrive
  MaxCalls          \* bound: calls of a setter in a behaviour

PreambleAssumption ==
  Words \cup Data \subseteq Seq(0..255) /\ Interps \subseteq Nat /\ Pads \subseteq Nat

Parts == {"preamble", "tail"}

Idle == [todo |-> <<>>, phase |-> "idle", word |-> <<>>, at |-> 1, copies |-> 0]

VARIABLES
  d_word,           \* d_preamble and d_tail
  d_word_interp,    \* d_preamble_interp and d_tail_interp
  d_interp, d_nrz,
  d_zero_pad,       \* also the length of d_zeros
  call,             \* the setter a thread is in: parts to render, progress
  pdu,              \* the PDU published last, and what it was made from
  asked,            \* history: the preamble and tail set last, in lock order
  overlapped,       \* history: a part was set while a copy of it was under way
  calls             \* number of calls of setters

params == <<d_interp, d_nrz, d_zero_pad>>
words  == <<d_word, d_word_interp>>
past   == <<asked, overlapped>>
vars   == <<words, params, call, pdu, past, calls>>

Value(bit, nrz) == IF nrz THEN IF bit > 0 THEN 1 ELSE -1 ELSE bit

(* Each bit interp times.                                                  *)
Rendered(word, interp, nrz) ==
  [i \in 1..(Len(word) * interp) |-> Value(word[((i - 1) \div interp) + 1], nrz)]

Zeros(n) == [i \in 1..n |-> 0]

(* The constructor sets every parameter, through set_interp.               *)
Init ==
  /\ d_word \in [Parts -> Words] /\ asked = d_word
  /\ d_interp \in Interps /\ d_nrz \in BOOLEAN /\ d_zero_pad \in Pads
  /\ d_word_interp = [p \in Parts |-> Rendered(d_word[p], d_interp, d_nrz)]
  /\ call = [t \in Threads |-> Idle]
  /\ pdu = [out |-> <<>>, expected |-> <<>>, quiet |-> FALSE]
  /\ overlapped = [p \in Parts |-> FALSE]
  /\ calls = 0

LockFree == \A t \in Threads : call[t].phase # "render"

Enter(t, c) ==
  /\ call[t].phase = "idle" /\ calls < MaxCalls
  /\ calls' = calls + 1
  /\ call' = [call EXCEPT ![t] = c]

(* set_preamble and set_tail called by the application.                    *)
SetWord(t, part, word) ==
  /\ Enter(t, [Idle EXCEPT !.todo = <<part>>, !.phase = "set", !.word = word])
  /\ UNCHANGED <<words, params, pdu, past>>

SetInterp(t, interp) ==
  /\ Enter(t, [Idle EXCEPT !.todo = <<"preamble", "tail">>, !.phase = "copy"])
  /\ d_interp' = interp
  /\ UNCHANGED <<words, d_nrz, d_zero_pad, pdu, past>>

(* Mutant of SetNrz: the tail is not rendered again.                       *)
SetNrzOfPreamble(t, nrz) ==
  /\ Enter(t, [Idle EXCEPT !.todo = <<"preamble">>, !.phase = "copy"])
  /\ d_nrz' = nrz
  /\ UNCHANGED <<words, d_interp, d_zero_pad, pdu, past>>

SetNrz(t, nrz) ==
  /\ Enter(t, [Idle EXCEPT !.todo = <<"preamble", "tail">>, !.phase = "copy"])
  /\ d_nrz' = nrz
  /\ UNCHANGED <<words, d_interp, d_zero_pad, pdu, past>>

SetZeroPad(t, pad) ==
  /\ LockFree
  /\ Enter(t, Idle)
  /\ d_zero_pad' = pad
  /\ UNCHANGED <<words, d_interp, d_nrz, pdu, past>>

(* Mutant of CopyWord: set_tail is given the preamble.                     *)
CopyPreamble(t) ==
  /\ call[t].phase = "copy"
  /\ call' = [call EXCEPT ![t].phase = "restore", ![t].word = d_word["preamble"]]
  /\ UNCHANGED <<words, params, pdu, past, calls>>

(* The argument of set_preamble or set_tail is copied, without the lock.   *)
CopyWord(t) ==
  /\ call[t].phase = "copy"
  /\ call' = [call EXCEPT ![t].phase = "restore", ![t].word = d_word[Head(call[t].todo)]]
  /\ UNCHANGED <<words, params, pdu, past, calls>>

(* A copy of the part that another thread holds will undo this one.        *)
CopiesHeld(t, part) ==
  \E o \in Threads \ {t} : call[o].phase = "restore" /\ Head(call[o].todo) = part

LockWord(t) ==
  LET part == Head(call[t].todo)
  IN  /\ call[t].phase \in {"set", "restore"}
      /\ LockFree
      /\ d_word' = [d_word EXCEPT ![part] = call[t].word]
      /\ d_word_interp' = [d_word_interp EXCEPT ![part] = <<>>]
      /\ call' = [call EXCEPT ![t].phase = "render", ![t].at = 1, ![t].copies = 0]
      /\ IF call[t].phase = "set"
         THEN /\ asked' = [asked EXCEPT ![part] = call[t].word]
              /\ overlapped' = [overlapped EXCEPT ![part] = CopiesHeld(t, part)]
         ELSE UNCHANGED past
      /\ UNCHANGED <<params, pdu, calls>>

(* One turn of the inner loop; d_nrz and d_interp are read again, as other *)
(* threads may write them.                                                 *)
RenderBit(t) ==
  LET part == Head(call[t].todo)
      c == call[t]
  IN  /\ c.phase = "render" /\ c.at <= Len(d_word[part])
      /\ IF c.copies < d_interp
         THEN /\ d_word_interp' = [d_word_interp EXCEPT
                    ![part] = Append(@, Value(d_word[part][c.at], d_nrz))]
              /\ call' = [call EXCEPT ![t].copies = @ + 1]
         ELSE /\ call' = [call EXCEPT ![t].at = @ + 1, ![t].copies = 0]
              /\ UNCHANGED d_word_interp
      /\ UNCHANGED <<d_word, params, pdu, past, calls>>

(* The lock is released; set_interp and set_nrz go on with the tail.       *)
Unlock(t) ==
  LET c == call[t]
  IN  /\ c.phase = "render" /\ c.at > Len(d_word[Head(c.todo)])
      /\ call' = [call EXCEPT ![t] =
           IF Len(c.todo) = 1 THEN Idle
           ELSE [Idle EXCEPT !.todo = Tail(c.todo), !.phase = "copy"]]
      /\ UNCHANGED <<words, params, pdu, past, calls>>

(* handle_msg: the PDU, and whether any setter had begun and not returned. *)
HandleMsg(data) ==
  /\ LockFree
  /\ pdu' = [out |-> Zeros(d_zero_pad) \o d_word_interp["preamble"]
                       \o Rendered(data, d_interp, d_nrz)
                       \o d_word_interp["tail"] \o Zeros(d_zero_pad),
             expected |-> Zeros(d_zero_pad)
                       \o Rendered(d_word["preamble"] \o data \o d_word["tail"],
                                   d_interp, d_nrz)
                       \o Zeros(d_zero_pad),
             quiet |-> \A t \in Threads : call[t] = Idle]
  /\ UNCHANGED <<words, params, call, past, calls>>

Next ==
  \/ \E t \in Threads :
       \/ \E part \in Parts, word \in Words : SetWord(t, part, word)
       \/ \E interp \in Interps : SetInterp(t, interp)
       \/ \E nrz \in BOOLEAN : SetNrz(t, nrz)
       \/ \E pad \in Pads : SetZeroPad(t, pad)
       \/ CopyWord(t) \/ LockWord(t) \/ RenderBit(t) \/ Unlock(t)
  \/ \E data \in Data : HandleMsg(data)

Spec == Init /\ [][Next]_vars

-----------------------------------------------------------------------------
(* Properties                                                              *)

(* Although set_interp and set_nrz write without the lock and other        *)
(* threads render meanwhile, every PDU handled while no setter runs is     *)
(* made of one set of parameters: whoever writes a parameter renders       *)
(* everything again afterwards.                                            *)
QuietPdusCoherent == pdu.quiet => pdu.out = pdu.expected

(* A preamble or tail the application set is only lost when it was set     *)
(* while set_interp or set_nrz of another thread held a copy of the old.   *)
OnlyOverlapLosesWords ==
  \A p \in Parts : d_word[p] = asked[p] \/ overlapped[p]
=============================================================================
