------------------------------ MODULE PduSetM ------------------------------
(***************************************************************************)
(* The pdu_set_m block: adds a key and a value to the metadata of PDUs and *)
(* takes commands that change them (lib/pdu_set_m_impl.cc).                *)
(*                                                                         *)
(* Handlers run in the thread of the block, setters also in threads of the *)
(* application; all take d_setlock, a mutex that its owner cannot take     *)
(* again (gr::thread::mutex).  A value is text, or a template with one key *)
(* in braces whose value in the metadata it takes.                         *)
(***************************************************************************)
EXTENDS Naturals, Sequences

CONSTANTS
  Block, Apps,      \* the thread of the block, threads of the application
  InitPairs,        \* keys and values given to make() and to set_kv
  Metas,            \* metadata of the PDUs that arrive
  Commands,         \* commands of the control port: kind and argument
  Free,             \* nobody holds the lock
  MaxInbox          \* bound: messages sent to the block

(* Text as it is, a template, and a template whose key was or was not in   *)
(* the metadata: the text around the braces is left out.                   *)
Value(form, name) == [form |-> form, name |-> name]

IsPair(pair) == pair = [key |-> pair.key, value |-> pair.value]

SetMAssumption ==
  /\ Block \notin Apps /\ Free \notin Apps \cup {Block}
  /\ \A pair \in InitPairs : IsPair(pair)

VARIABLES
  d_setlock,        \* the thread that holds the lock, or Free
  d_k, d_v, d_kv_merge, d_v_overwrite,
  inbox,            \* messages of both ports, in the order the block takes them
  setting,          \* a thread in set_key, set_val or set_kv: what it has to write
  received,         \* messages received so far
  metadata,         \* of the PDU published last
  asked             \* history: the pairs a caller has asked for

params == <<d_k, d_v, d_kv_merge, d_v_overwrite>>
vars == <<d_setlock, params, inbox, setting, received, metadata, asked>>

Threads == Apps \cup {Block}
Pdu(meta) == [kind |-> "pdu", arg |-> meta]

Init ==
  /\ d_setlock = Free
  /\ \E pair \in InitPairs : d_k = pair.key /\ d_v = pair.value
  /\ asked = {[key |-> d_k, value |-> d_v]}
  /\ d_kv_merge \in BOOLEAN /\ d_v_overwrite \in BOOLEAN
  /\ inbox = <<>> /\ received = 0
  /\ setting = [t \in Threads |-> <<>>]
  /\ metadata = <<>>

(* A PDU or a command arrives.                                             *)
Receive ==
  /\ received < MaxInbox
  /\ received' = received + 1
  /\ \E m \in {Pdu(meta) : meta \in Metas} \cup Commands : inbox' = Append(inbox, m)
  /\ UNCHANGED <<d_setlock, params, setting, metadata, asked>>

-----------------------------------------------------------------------------
(* The setters, each a write or two under the lock                         *)

Write(what, value) == [what |-> what, value |-> value]

(* set_kv called by the application: it locks first.                       *)
SetKv(a, pair) ==
  /\ setting[a] = <<>> /\ d_setlock = Free
  /\ d_setlock' = a
  /\ setting' = [setting EXCEPT ![a] = <<Write("key", pair.key), Write("value", pair.value)>>]
  /\ asked' = asked \cup {pair}
  /\ UNCHANGED <<params, inbox, received, metadata>>

SetFlags(a, merge, overwrite) ==
  /\ setting[a] = <<>> /\ d_setlock = Free
  /\ d_kv_merge' = merge /\ d_v_overwrite' = overwrite
  /\ merge = d_kv_merge \/ overwrite = d_v_overwrite      \* one setter each
  /\ UNCHANGED <<d_setlock, d_k, d_v, inbox, setting, received, metadata, asked>>

(* Mutant of WriteNext: the lock is released between key and value.        *)
WriteNextUnlocks(t) ==
  /\ setting[t] # <<>> /\ d_setlock = t /\ t \in Apps
  /\ LET w == Head(setting[t])
     IN  IF w.what = "key" THEN d_k' = w.value /\ UNCHANGED d_v
                           ELSE d_v' = w.value /\ UNCHANGED d_k
  /\ setting' = [setting EXCEPT ![t] = Tail(@)]
  /\ d_setlock' = Free
  /\ UNCHANGED <<d_kv_merge, d_v_overwrite, inbox, received, metadata, asked>>

WriteNext(t) ==
  /\ setting[t] # <<>> /\ d_setlock = t /\ t \in Apps
  /\ LET w == Head(setting[t])
     IN  IF w.what = "key" THEN d_k' = w.value /\ UNCHANGED d_v
                           ELSE d_v' = w.value /\ UNCHANGED d_k
  /\ setting' = [setting EXCEPT ![t] = Tail(@)]
  /\ d_setlock' = IF Len(setting[t]) = 1 THEN Free ELSE t
  /\ UNCHANGED <<d_kv_merge, d_v_overwrite, inbox, received, metadata, asked>>

-----------------------------------------------------------------------------
(* handle_ctrl_msg takes the lock.  A set command then calls set_val or    *)
(* set_key, which waits for the lock to be free.                           *)

HandleCommand ==
  /\ inbox # <<>> /\ setting[Block] = <<>> /\ d_setlock = Free
  /\ LET c == Head(inbox)
     IN  /\ c.kind # "pdu"
         /\ IF c.kind \in {"set_key", "set_val"}
            THEN /\ d_setlock' = Block
                 /\ setting' = [setting EXCEPT ![Block] =
                      <<Write(IF c.kind = "set_key" THEN "key" ELSE "value", c.arg)>>]
                 /\ UNCHANGED inbox
            ELSE inbox' = Tail(inbox) /\ UNCHANGED <<d_setlock, setting>>
  /\ UNCHANGED <<params, received, metadata, asked>>

SetByCommand ==
  /\ setting[Block] # <<>> /\ d_setlock = Free
  /\ LET w == Head(setting[Block])
     IN  IF w.what = "key" THEN d_k' = w.value /\ UNCHANGED d_v
                           ELSE d_v' = w.value /\ UNCHANGED d_k
  /\ setting' = [setting EXCEPT ![Block] = <<>>]
  /\ inbox' = Tail(inbox)
  /\ UNCHANGED <<d_setlock, d_kv_merge, d_v_overwrite, received, metadata, asked>>

-----------------------------------------------------------------------------
(* handle_msg.  With merging, text is not added at all: parse_val drops    *)
(* the dictionary it makes.                                                *)

With(meta, key, value) ==
  [k \in DOMAIN meta \cup {key} |-> IF k = key THEN value ELSE meta[k]]

ParseVal(meta) ==
  IF d_v.form = "text" THEN meta
  ELSE With(meta, d_k, Value(IF d_v.name \in DOMAIN meta THEN "filled" ELSE "unfilled", d_v.name))

HandlePdu ==
  /\ inbox # <<>> /\ setting[Block] = <<>> /\ d_setlock = Free
  /\ Head(inbox).kind = "pdu"
  /\ inbox' = Tail(inbox)
  /\ LET meta == Head(inbox).arg
     IN  metadata' = IF ~d_v_overwrite /\ d_k \in DOMAIN meta THEN metadata
                     ELSE IF d_kv_merge THEN ParseVal(meta)
                     ELSE With(meta, d_k, d_v)
  /\ UNCHANGED <<d_setlock, params, setting, received, asked>>

BlockThread == HandleCommand \/ SetByCommand \/ HandlePdu

Next ==
  \/ Receive
  \/ \E a \in Apps :
       \/ \E pair \in InitPairs : SetKv(a, pair)
       \/ \E merge, overwrite \in BOOLEAN : SetFlags(a, merge, overwrite)
       \/ WriteNext(a)
  \/ BlockThread

Spec == Init /\ [][Next]_vars

(* The thread of the block handles what is in its queue, and a setter that *)
(* began goes on; a thread that waits for the lock gets it at last.        *)
FairSpec ==
  /\ Spec
  /\ SF_vars(BlockThread)
  /\ \A a \in Apps : WF_vars(WriteNext(a))

-----------------------------------------------------------------------------
(* Properties                                                              *)

(* Key and value are always from one call of set_kv when a PDU is handled: *)
(* the handler never sees a pair half set.                                 *)
PairsTogether ==
  d_setlock = Free => [key |-> d_k, value |-> d_v] \in asked

(* "The following handler is responsible for accepting commands to set the *)
(* various controllable variables using their public methods"              *)
(* (lib/pdu_set_m_impl.cc:64-67): every message is handled in the end.     *)
EveryCommandHandled == inbox # <<>> ~> inbox = <<>>
=============================================================================
