-------------------------- MODULE PduBlocksProofs --------------------------
(***************************************************************************)
(* What the blocks of PduBlocks promise, for any settings, PDUs, threads   *)
(* and lengths of behaviours: for each block an inductive invariant of its *)
(* own, and the promises as its consequences.                              *)
(***************************************************************************)
EXTENDS PduBlocks, PduFlowCtrlProofs, Induction, FiniteSetTheorems, SequenceTheorems, TLAPS

-----------------------------------------------------------------------------
(* A behaviour begins with one block, and every step is one of that block  *)
(* or changes nothing of it.                                               *)

LEMMA BlockBegins ==
  ASSUME BlocksInit
  PROVE  /\ block = "take_skip_to_pdu" => TS!Init
         /\ block = "pdu_preamble" => PP!Init
         /\ block = "pdu_burst_combiner" => BC!Init
         /\ block = "pdu_logger" => PL!Init
         /\ block = "pdu_delay" => PD!Init
         /\ block = "message_routing" => MR!Init
         /\ block = "pdu_slice" => SL!Init
         /\ block = "pdu_head_tail" => HT!Init
         /\ block = "pdu_align" => AL!Init
         /\ block = "bit_vectors" => BV!Init
         /\ block = "pdu_set_m" => SM!Init
BY DEF BlocksInit

LEMMA BlockSteps ==
  ASSUME [BlocksNext]_allvars
  PROVE  /\ block' = block
         /\ block = "take_skip_to_pdu" => TS!Next \/ UNCHANGED TSvars
         /\ block = "pdu_preamble" => PP!Next \/ UNCHANGED PPvars
         /\ block = "pdu_burst_combiner" => BC!Next \/ UNCHANGED BCvars
         /\ block = "pdu_logger" => PL!Next \/ UNCHANGED PLvars
         /\ block = "pdu_delay" => PD!Next \/ UNCHANGED PDvars
         /\ block = "message_routing" => MR!Next \/ UNCHANGED MRvars
         /\ block = "pdu_slice" => SL!Next \/ UNCHANGED SLvars
         /\ block = "pdu_head_tail" => HT!Next \/ UNCHANGED HTvars
         /\ block = "pdu_align" => AL!Next \/ UNCHANGED ALvars
         /\ block = "bit_vectors" => BV!Next \/ UNCHANGED BVvars
         /\ block = "pdu_set_m" => SM!Next \/ UNCHANGED SMvars
BY DEF BlocksNext, allvars, OthersIdle

CounterInv ==
  /\ d_ctr \in [MR!Outputs -> Nat] /\ h_since \in [MR!Outputs -> Nat]
  /\ h_torn \in [MR!Outputs -> BOOLEAN]
  /\ counting \in [MR!Outputs -> [busy : BOOLEAN, read : Nat]]
  /\ \A o \in MR!Outputs : ~h_torn[o] => d_ctr[o] = h_since[o]
  /\ \A o \in MR!Outputs : ~h_torn[o] /\ counting[o].busy => counting[o].read = d_ctr[o]

(* The counter equals the PDUs handled since the last untorn reset.        *)
LEMMA CounterStep ==
  ASSUME CounterInv, MR!Next
  PROVE  CounterInv'
<1>1. ASSUME UNCHANGED MR!counter  PROVE CounterInv'
  BY <1>1 DEF CounterInv, MR!counter
<1>2. ASSUME NEW e \in MR!Emitters, MR!EmitRead(e) \/ MR!EmitWrite(e) \/ MR!EmitPublish(e)
      PROVE  UNCHANGED MR!counter
  BY <1>2 DEF MR!EmitRead, MR!EmitWrite, MR!EmitPublish, MR!counter
<1>3. ASSUME MR!GateHandle \/ MR!GateReset \/ MR!KeepHandle \/ MR!RobinHandle
      PROVE  UNCHANGED MR!counter
  BY <1>3 DEF MR!GateHandle, MR!GateReset, MR!KeepHandle, MR!RobinHandle, MR!counter
<1>4. ASSUME NEW enabled \in BOOLEAN, MR!SetEnabled(enabled)
      PROVE  UNCHANGED MR!counter
  BY <1>4 DEF MR!SetEnabled, MR!counter
<1>5. ASSUME NEW n \in KeepSettings, MR!SetN(n)
      PROVE  UNCHANGED MR!counter
  BY <1>5 DEF MR!SetN, MR!counter
<1>6. ASSUME NEW o \in MR!Outputs, MR!CountRead(o)
      PROVE  CounterInv'
  BY <1>6 DEF MR!CountRead, CounterInv
<1>7. ASSUME NEW o \in MR!Outputs, MR!CountWrite(o)
      PROVE  CounterInv'
  BY <1>7 DEF MR!CountWrite, CounterInv, MR!NotCounting
<1>8. ASSUME NEW o \in MR!Outputs, MR!CounterReset(o)
      PROVE  CounterInv'
  BY <1>8 DEF MR!CounterReset, CounterInv
<1> QED  BY <1>1, <1>2, <1>3, <1>4, <1>5, <1>6, <1>7, <1>8 DEF MR!Next

(* The counter of PDUs is exact, but for a reset within an increment.      *)
THEOREM Counted == BlocksSpec => []CounterExact
<1> DEFINE I == block = "message_routing" => CounterInv
<1>1. BlocksInit => I
  <2>1. ASSUME MR!Init PROVE CounterInv
    <3>1. MR!NotCounting \in [busy : BOOLEAN, read : Nat]
      BY DEF MR!NotCounting
    <3> QED  BY <2>1, <3>1 DEF MR!Init, CounterInv, MR!NotCounting
  <2> QED  BY <2>1, BlockBegins
<1>2. I /\ [BlocksNext]_allvars => I'
  <2>1. ASSUME CounterInv, UNCHANGED MRvars PROVE CounterInv'
    BY <2>1 DEF CounterInv, MRvars
  <2> QED  BY <2>1, CounterStep, BlockSteps
<1>3. I => CounterExact
  BY DEF CounterExact, MR!CounterExact, CounterInv
<1> QED  BY <1>1, <1>2, <1>3, PTL DEF BlocksSpec

(* A message at the end of an output.                                      *)
LEMMA QueueGrows ==
  ASSUME NEW queue \in Seq(Nat), NEW message \in Nat
  PROVE  Append(queue, message) \in Seq(Nat)
OBVIOUS

(* The output after d, which the round robin takes next.                   *)
LEMMA NextOutput ==
  ASSUME MR!RoutingAssumption, NEW d \in MR!Outputs
  PROVE  (d + 1) % NumOutputs = IF d + 1 = NumOutputs THEN 0 ELSE d + 1
<1>1. NumOutputs \in Nat /\ NumOutputs > 0 /\ d \in Nat /\ d + 1 <= NumOutputs
  BY MR!RoutingAssumption DEF MR!RoutingAssumption, MR!Outputs
<1>2. CASE d + 1 = NumOutputs
  BY <1>1, <1>2
<1>3. CASE d + 1 < NumOutputs
  BY <1>1, <1>3
<1> QED  BY <1>1, <1>2, <1>3

(* The steps of the other blocks leave the round MR!robin alone.              *)
LEMMA RobinStep ==
  ASSUME MR!RoutingAssumption, MR!RobinTypeOK, MR!Next
  PROVE  MR!RobinHandle \/ UNCHANGED MR!robin
<1>1. ASSUME NEW e \in MR!Emitters, MR!EmitRead(e) \/ MR!EmitWrite(e) \/ MR!EmitPublish(e)
      PROVE  UNCHANGED MR!robin
  BY <1>1 DEF MR!EmitRead, MR!EmitWrite, MR!EmitPublish, MR!robin
<1>2. ASSUME NEW o \in MR!Outputs, MR!CountRead(o) \/ MR!CountWrite(o) \/ MR!CounterReset(o)
      PROVE  UNCHANGED MR!robin
  BY <1>2 DEF MR!CountRead, MR!CountWrite, MR!CounterReset, MR!robin
<1>3. ASSUME MR!GateHandle \/ MR!GateReset \/ MR!KeepHandle
      PROVE  UNCHANGED MR!robin
  BY <1>3 DEF MR!GateHandle, MR!GateReset, MR!KeepHandle, MR!robin
<1>4. ASSUME NEW enabled \in BOOLEAN, MR!SetEnabled(enabled)
      PROVE  UNCHANGED MR!robin
  BY <1>4 DEF MR!SetEnabled, MR!robin
<1>5. ASSUME NEW n \in KeepSettings, MR!SetN(n)
      PROVE  UNCHANGED MR!robin
  BY <1>5 DEF MR!SetN, MR!robin
<1>6. CASE UNCHANGED MRvars
  BY <1>6 DEF MRvars, MR!robin
<1> QED  BY <1>1, <1>2, <1>3, <1>4, <1>5, <1>6 DEF MR!Next

(* The types of the round robin and of its outputs are kept.               *)
LEMMA RobinTypeStep ==
  ASSUME MR!RoutingAssumption, MR!RobinTypeOK, MR!Next
  PROVE  MR!RobinTypeOK'
<1> USE DEF MR!RobinTypeOK
<1>1. ASSUME NEW e \in MR!Emitters, MR!EmitRead(e) \/ MR!EmitWrite(e)
      PROVE  MR!RobinTypeOK'
  BY <1>1 DEF MR!EmitRead, MR!EmitWrite, MR!robin
<1>2. ASSUME NEW e \in MR!Emitters, MR!EmitPublish(e)
      PROVE  MR!RobinTypeOK'
  BY <1>2 DEF MR!EmitPublish, MR!robin
<1>3. ASSUME NEW o \in MR!Outputs, MR!CountRead(o) \/ MR!CountWrite(o) \/ MR!CounterReset(o)
      PROVE  MR!RobinTypeOK'
  BY <1>3 DEF MR!CountRead, MR!CountWrite, MR!CounterReset, MR!robin, MR!emitter
<1>4. ASSUME MR!GateHandle PROVE MR!RobinTypeOK'
  <2>1. Head(at_gate) \in Nat /\ Tail(at_gate) \in Seq(Nat)
    BY <1>4 DEF MR!GateHandle
  <2>2. at_keep' = Append(at_keep, Head(at_gate)) \/ at_keep' = at_keep
    BY <1>4, Zenon DEF MR!GateHandle
  <2>3. at_keep' \in Seq(Nat)
    BY <2>1, <2>2, QueueGrows, Zenon
  <2>4. /\ at_gate' = Tail(at_gate) /\ at_rr' = at_rr
        /\ UNCHANGED MR!robin /\ UNCHANGED MR!emitter
    BY <1>4, Zenon DEF MR!GateHandle
  <2> QED  BY <2>1, <2>3, <2>4 DEF MR!robin, MR!emitter
<1>5. ASSUME MR!KeepHandle PROVE MR!RobinTypeOK'
  <2>1. Head(at_keep) \in Nat /\ Tail(at_keep) \in Seq(Nat)
    BY <1>5 DEF MR!KeepHandle
  <2>2. at_rr' = Append(at_rr, Head(at_keep)) \/ at_rr' = at_rr
    BY <1>5, Zenon DEF MR!KeepHandle
  <2>3. at_rr' \in Seq(Nat)
    BY <2>1, <2>2, QueueGrows, Zenon
  <2>4. /\ at_keep' = Tail(at_keep) /\ at_gate' = at_gate
        /\ UNCHANGED MR!robin /\ UNCHANGED MR!emitter
    BY <1>5, Zenon DEF MR!KeepHandle
  <2> QED  BY <2>1, <2>3, <2>4 DEF MR!robin, MR!emitter
<1>6. ASSUME MR!GateReset PROVE MR!RobinTypeOK'
  BY <1>6 DEF MR!GateReset, MR!robin, MR!emitter
<1>7. ASSUME NEW enabled \in BOOLEAN, MR!SetEnabled(enabled) PROVE MR!RobinTypeOK'
  BY <1>7 DEF MR!SetEnabled, MR!robin, MR!emitter
<1>8. ASSUME NEW n \in KeepSettings, MR!SetN(n) PROVE MR!RobinTypeOK'
  BY <1>8 DEF MR!SetN, MR!robin, MR!emitter
<1>9. ASSUME MR!RobinHandle PROVE MR!RobinTypeOK'
  <2>1. (d_counter + 1) % NumOutputs \in MR!Outputs
    BY NextOutput, MR!RoutingAssumption DEF MR!Outputs, MR!RoutingAssumption
  <2>2. Head(at_rr) \in Nat /\ Tail(at_rr) \in Seq(Nat)
    BY <1>9 DEF MR!RobinHandle
  <2>3. delivered' \in [MR!Outputs -> Seq(Nat)]
    BY <1>9, <2>2 DEF MR!RobinHandle
  <2> QED  BY <1>9, <2>1, <2>2, <2>3 DEF MR!RobinHandle, MR!emitter
<1>10. CASE UNCHANGED MRvars
  BY <1>10 DEF MRvars, MR!robin, MR!emitter
<1> QED  BY <1>1, <1>2, <1>3, <1>4, <1>5, <1>6, <1>7, <1>8, <1>9, <1>10 DEF MR!Next

(* A message handled keeps the outputs within one of each other.           *)
LEMMA BalancedStep ==
  ASSUME MR!RoutingAssumption, MR!RobinTypeOK, MR!OutputsBalanced, MR!RobinHandle
  PROVE  MR!OutputsBalanced'
<1> DEFINE Ahead(o, c) == IF o < c THEN 1 ELSE 0
<1>1. /\ delivered' = [delivered EXCEPT ![d_counter] = Append(delivered[d_counter], Head(at_rr))]
      /\ d_counter' = (d_counter + 1) % NumOutputs
      /\ Head(at_rr) \in Nat
  BY DEF MR!RobinHandle, MR!RobinTypeOK
<1>2. d_counter \in MR!Outputs
  BY DEF MR!RobinTypeOK
<1>3. d_counter' = IF d_counter + 1 = NumOutputs THEN 0 ELSE d_counter + 1
  BY <1>1, <1>2, NextOutput
<1>4. ASSUME NEW o \in MR!Outputs
      PROVE  /\ Len(delivered[o]) \in Nat
             /\ Len(delivered'[o]) = IF o = d_counter THEN Len(delivered[o]) + 1
                                                     ELSE Len(delivered[o])
  BY <1>1, <1>2 DEF MR!RobinTypeOK
<1> SUFFICES ASSUME NEW o \in MR!Outputs, NEW p \in MR!Outputs
             PROVE  Len(delivered'[o]) + Ahead(p, d_counter') = Len(delivered'[p]) + Ahead(o, d_counter')
  BY DEF MR!OutputsBalanced
<1>5. Len(delivered[o]) + Ahead(p, d_counter) = Len(delivered[p]) + Ahead(o, d_counter)
  BY DEF MR!OutputsBalanced
<1>6. o \in 0..(NumOutputs - 1) /\ p \in 0..(NumOutputs - 1) /\ d_counter \in 0..(NumOutputs - 1)
      /\ NumOutputs \in Nat \ {0}
  BY <1>2, MR!RoutingAssumption DEF MR!Outputs, MR!RoutingAssumption
<1>7. /\ Len(delivered[o]) \in Nat /\ Len(delivered[p]) \in Nat
      /\ Len(delivered'[o]) = IF o = d_counter THEN Len(delivered[o]) + 1 ELSE Len(delivered[o])
      /\ Len(delivered'[p]) = IF p = d_counter THEN Len(delivered[p]) + 1 ELSE Len(delivered[p])
  BY <1>4
<1> DEFINE lo == Len(delivered[o])   lp == Len(delivered[p])
           lo2 == Len(delivered'[o]) lp2 == Len(delivered'[p])
           c == d_counter            c2 == d_counter'
<1>8. /\ lo \in Nat /\ lp \in Nat
      /\ lo2 = (IF o = c THEN lo + 1 ELSE lo) /\ lp2 = (IF p = c THEN lp + 1 ELSE lp)
      /\ lo + Ahead(p, c) = lp + Ahead(o, c)
      /\ o \in 0..(NumOutputs - 1) /\ p \in 0..(NumOutputs - 1) /\ c \in 0..(NumOutputs - 1)
      /\ NumOutputs \in Nat /\ c2 = (IF c + 1 = NumOutputs THEN 0 ELSE c + 1)
  BY <1>3, <1>5, <1>6, <1>7
<1> HIDE DEF lo, lp, lo2, lp2, c, c2
<1>9. lo2 + Ahead(p, c2) = lp2 + Ahead(o, c2)
  BY <1>8
<1> QED  BY <1>9 DEF lo2, lp2, c2

(* However messages are emitted, blocked and skipped, any two outputs of   *)
(* the round robin have had the same number of messages, up to one.        *)
THEOREM OutputsAlwaysBalanced ==
  BlocksSpec => [](block = "message_routing" => MR!OutputsBalanced)
<1> DEFINE I == block = "message_routing" => MR!RobinTypeOK /\ MR!OutputsBalanced
<1>1. BlocksInit => I
  <2>1. ASSUME MR!Init PROVE MR!RobinTypeOK /\ MR!OutputsBalanced
    BY <2>1, BlockAssumptions
    DEF MR!Init, MR!RobinTypeOK, MR!OutputsBalanced, MR!RoutingAssumption, MR!Outputs
  <2> QED  BY <2>1, BlockBegins
<1>2. I /\ [BlocksNext]_allvars => I'
  <2>1. ASSUME MR!RobinTypeOK, MR!OutputsBalanced, MR!Next
        PROVE  MR!RobinTypeOK' /\ MR!OutputsBalanced'
    <3>1. ASSUME UNCHANGED MR!robin PROVE MR!OutputsBalanced'
      BY <2>1, <3>1 DEF MR!OutputsBalanced, MR!robin
    <3> QED  BY <2>1, <3>1, BlockAssumptions, RobinStep, RobinTypeStep, BalancedStep
  <2>2. ASSUME MR!RobinTypeOK, MR!OutputsBalanced, UNCHANGED MRvars
        PROVE  MR!RobinTypeOK' /\ MR!OutputsBalanced'
    BY <2>2 DEF MRvars, MR!RobinTypeOK, MR!OutputsBalanced
  <2> QED  BY <2>1, <2>2, BlockSteps
<1>3. I => (block = "message_routing" => MR!OutputsBalanced)
  OBVIOUS
<1> QED  BY <1>1, <1>2, <1>3, PTL DEF BlocksSpec

-----------------------------------------------------------------------------
(* The emitter                                                             *)

Waiting == Cardinality(MR!Writing)

(* A call that is about to write holds a count that was true, or too small,*)
(* when it was read; without overlap it is the only one.                   *)
EmitterInv ==
  /\ d_n_msgs \in Nat /\ emit_calls \in Nat /\ h_overlap \in BOOLEAN
  /\ emitting \in [MR!Emitters -> [phase : {"rest", "write", "publish"}, read : Nat]]
  /\ d_n_msgs + Waiting <= emit_calls
  /\ \A e \in MR!Writing : emitting[e].read + Waiting <= emit_calls
  /\ ~h_overlap => /\ d_n_msgs + Waiting = emit_calls
                   /\ \A e, f \in MR!Writing : e = f
                   /\ \A e \in MR!Writing : emitting[e].read = d_n_msgs

(* The operators of FiniteSets that MessageRouting sees are the same.      *)
LEMMA RoutingSets ==
  /\ \A S : MR!IsFiniteSet(S) <=> IsFiniteSet(S)
  /\ \A S : MR!Cardinality(S) = Cardinality(S)
<1>1. \A S : MR!IsFiniteSet(S) <=> IsFiniteSet(S)
  BY DEF MR!IsFiniteSet, IsFiniteSet
<1>2. \A S : MR!Cardinality(S) = Cardinality(S)
  BY DEF MR!Cardinality, Cardinality
<1> QED  BY <1>1, <1>2

(* Finitely many emitters write at a time.                                 *)
LEMMA WritingFinite ==
  ASSUME MR!RoutingAssumption
  PROVE  /\ IsFiniteSet(MR!Writing) /\ Waiting \in Nat
         /\ Waiting = 0 <=> MR!Writing = {}
<1>1. IsFiniteSet(MR!Emitters)
  BY RoutingSets, FS_AddElement DEF MR!RoutingAssumption, MR!Emitters
<1>2. IsFiniteSet(MR!Writing)
  BY <1>1, FS_Subset DEF MR!Writing
<1> QED  BY <1>2, FS_CardinalityType, FS_EmptySet DEF Waiting

(* An emitter reads the counter.                                           *)
LEMMA EmitReadStep ==
  ASSUME MR!RoutingAssumption, EmitterInv, NEW e \in MR!Emitters, MR!EmitRead(e)
  PROVE  EmitterInv'
<1>1. e \notin MR!Writing
  BY DEF MR!EmitRead, MR!Writing, MR!Rest
<1>2. /\ d_n_msgs' = d_n_msgs /\ emit_calls' = emit_calls + 1
      /\ emitting' = [emitting EXCEPT ![e] = [phase |-> "write", read |-> d_n_msgs]]
      /\ h_overlap' = (h_overlap \/ MR!Writing # {})
  BY DEF MR!EmitRead, MR!Writing
<1>3. MR!Writing' = MR!Writing \cup {e}
  BY <1>2 DEF MR!Writing, EmitterInv
<1>4. Waiting' = Waiting + 1 /\ Waiting \in Nat
  BY <1>1, <1>3, WritingFinite, FS_AddElement DEF Waiting
<1>5. emitting' \in [MR!Emitters -> [phase : {"rest", "write", "publish"}, read : Nat]]
  BY <1>2 DEF EmitterInv
<1>6. \A f \in MR!Writing : emitting'[f] = emitting[f] /\ emitting[f].read \in Nat
  BY <1>1, <1>2 DEF MR!Writing, EmitterInv
<1>7. emitting'[e].read = d_n_msgs
  BY <1>2 DEF EmitterInv
<1>8. \A f \in MR!Writing' : emitting'[f].read + Waiting' <= emit_calls'
  BY <1>2, <1>3, <1>4, <1>6, <1>7 DEF EmitterInv
<1>9. ASSUME ~h_overlap'
      PROVE  /\ d_n_msgs' + Waiting' = emit_calls'
             /\ \A f, g \in MR!Writing' : f = g
             /\ \A f \in MR!Writing' : emitting'[f].read = d_n_msgs'
  <2>1. ~h_overlap /\ MR!Writing = {}
    BY <1>2, <1>9 DEF EmitterInv
  <2>2. MR!Writing' = {e}
    BY <1>3, <2>1
  <2> QED  BY <1>2, <1>4, <1>7, <2>1, <2>2 DEF EmitterInv
<1>10. d_n_msgs' \in Nat /\ emit_calls' \in Nat /\ h_overlap' \in BOOLEAN
       /\ d_n_msgs' + Waiting' <= emit_calls'
  BY <1>2, <1>4 DEF EmitterInv
<1> QED  BY <1>5, <1>8, <1>9, <1>10 DEF EmitterInv

(* An emitter writes the counter, over what others wrote meanwhile.        *)
LEMMA EmitWriteStep ==
  ASSUME MR!RoutingAssumption, EmitterInv, NEW e \in MR!Emitters, MR!EmitWrite(e)
  PROVE  EmitterInv'
<1>1. e \in MR!Writing
  BY DEF MR!EmitWrite, MR!Writing
<1>2. /\ d_n_msgs' = emitting[e].read + 1 /\ emit_calls' = emit_calls /\ h_overlap' = h_overlap
      /\ emitting' = [emitting EXCEPT ![e] = [phase |-> "publish", read |-> 0]]
  BY DEF MR!EmitWrite
<1>3. MR!Writing' = MR!Writing \ {e}
  BY <1>2 DEF MR!Writing, EmitterInv
<1>4. Waiting' = Waiting - 1 /\ Waiting \in Nat /\ Waiting # 0
  BY <1>1, <1>3, WritingFinite, FS_RemoveElement DEF Waiting
<1>5. emitting' \in [MR!Emitters -> [phase : {"rest", "write", "publish"}, read : Nat]]
  BY <1>2 DEF EmitterInv
<1>6. /\ \A f \in MR!Writing : emitting[f].read \in Nat
      /\ \A f \in MR!Writing' : emitting'[f] = emitting[f]
  BY <1>2, <1>3 DEF MR!Writing, EmitterInv
<1>7. \A f \in MR!Writing' : emitting'[f].read + Waiting' <= emit_calls'
  BY <1>2, <1>3, <1>4, <1>6 DEF EmitterInv
<1>8. ASSUME ~h_overlap'
      PROVE  /\ d_n_msgs' + Waiting' = emit_calls'
             /\ \A f, g \in MR!Writing' : f = g
             /\ \A f \in MR!Writing' : emitting'[f].read = d_n_msgs'
  <2>1. ~h_overlap /\ d_n_msgs' = d_n_msgs + 1
    BY <1>1, <1>2, <1>8 DEF EmitterInv
  <2>2. MR!Writing' = {}
    BY <1>1, <1>3, <2>1 DEF EmitterInv
  <2> QED  BY <1>2, <1>4, <2>1, <2>2 DEF EmitterInv
<1>9. d_n_msgs' \in Nat /\ emit_calls' \in Nat /\ h_overlap' \in BOOLEAN
      /\ d_n_msgs' + Waiting' <= emit_calls'
  BY <1>1, <1>2, <1>4, <1>6 DEF EmitterInv
<1> QED  BY <1>5, <1>7, <1>8, <1>9 DEF EmitterInv

(* An emitter publishes.                                                   *)
LEMMA EmitPublishStep ==
  ASSUME EmitterInv, NEW e \in MR!Emitters, MR!EmitPublish(e)
  PROVE  EmitterInv'
<1>1. /\ UNCHANGED <<d_n_msgs, emit_calls, h_overlap>>
      /\ emitting' = [emitting EXCEPT ![e] = MR!Rest]
      /\ emitting[e].phase = "publish"
  BY DEF MR!EmitPublish
<1>2. MR!Writing' = MR!Writing
  BY <1>1 DEF MR!Writing, EmitterInv, MR!Rest
<1>3. Waiting' = Waiting
  BY <1>2 DEF Waiting
<1>4. emitting' \in [MR!Emitters -> [phase : {"rest", "write", "publish"}, read : Nat]]
  BY <1>1 DEF EmitterInv, MR!Rest
<1>5. \A f \in MR!Writing : emitting'[f] = emitting[f]
  BY <1>1 DEF MR!Writing, EmitterInv
<1> QED  BY <1>1, <1>2, <1>3, <1>4, <1>5 DEF EmitterInv

(* Every step keeps the account of the emitter.                            *)
LEMMA EmitterStep ==
  ASSUME MR!RoutingAssumption, EmitterInv, MR!Next
  PROVE  EmitterInv'
<1>1. ASSUME UNCHANGED MR!emitter  PROVE EmitterInv'
  <2>1. UNCHANGED <<d_n_msgs, emit_calls, h_overlap, emitting>>
    BY <1>1 DEF MR!emitter
  <2>2. MR!Writing' = MR!Writing
    BY <2>1 DEF MR!Writing
  <2> QED  BY <2>1, <2>2 DEF EmitterInv, Waiting
<1>2. ASSUME NEW e \in MR!Emitters, MR!EmitRead(e) \/ MR!EmitWrite(e) \/ MR!EmitPublish(e)
      PROVE  EmitterInv'
  BY <1>2, EmitReadStep, EmitWriteStep, EmitPublishStep
<1>3. ASSUME MR!GateHandle \/ MR!GateReset \/ MR!KeepHandle \/ MR!RobinHandle
      PROVE  UNCHANGED MR!emitter
  BY <1>3 DEF MR!GateHandle, MR!GateReset, MR!KeepHandle, MR!RobinHandle
<1>4. ASSUME NEW enabled \in BOOLEAN, MR!SetEnabled(enabled)
      PROVE  UNCHANGED MR!emitter
  BY <1>4 DEF MR!SetEnabled
<1>5. ASSUME NEW n \in KeepSettings, MR!SetN(n)
      PROVE  UNCHANGED MR!emitter
  BY <1>5 DEF MR!SetN
<1>6. ASSUME NEW o \in MR!Outputs, MR!CountRead(o) \/ MR!CountWrite(o) \/ MR!CounterReset(o)
      PROVE  UNCHANGED MR!emitter
  BY <1>6 DEF MR!CountRead, MR!CountWrite, MR!CounterReset
<1> QED  BY <1>1, <1>2, <1>3, <1>4, <1>5, <1>6 DEF MR!Next

(* The emitter never counts more messages than emit was called for, and    *)
(* exactly those if no two calls overlap, for any number of threads.       *)
THEOREM CallsCounted == BlocksSpec => []EmitterCountsCalls
<1> DEFINE I == block = "message_routing" => EmitterInv
<1>1. BlocksInit => I
  <2>1. ASSUME MR!Init PROVE EmitterInv
    <3>1. MR!Writing = {}
      BY <2>1 DEF MR!Init, MR!Writing, MR!Rest
    <3>2. Waiting = 0
      BY <3>1, FS_EmptySet DEF Waiting
    <3>3. emitting \in [MR!Emitters -> [phase : {"rest", "write", "publish"}, read : Nat]]
      BY <2>1 DEF MR!Init, MR!Rest
    <3>4. d_n_msgs = 0 /\ emit_calls = 0
      BY <2>1 DEF MR!Init
    <3>5. h_overlap \in BOOLEAN
      BY <2>1 DEF MR!Init
    <3>6. d_n_msgs \in Nat /\ emit_calls \in Nat /\ d_n_msgs + Waiting = emit_calls
          /\ d_n_msgs + Waiting <= emit_calls
      BY <3>2, <3>4
    <3> QED  BY <3>1, <3>3, <3>5, <3>6, Zenon DEF EmitterInv
  <2> QED  BY <2>1, BlockBegins
<1>2. I /\ [BlocksNext]_allvars => I'
  <2>1. ASSUME EmitterInv, UNCHANGED MRvars PROVE EmitterInv'
    <3>1. UNCHANGED <<d_n_msgs, emit_calls, h_overlap, emitting>>
      BY <2>1 DEF MRvars
    <3>2. MR!Writing' = MR!Writing
      BY <3>1 DEF MR!Writing
    <3> QED  BY <2>1, <3>1, <3>2 DEF EmitterInv, Waiting
  <2> QED  BY <2>1, EmitterStep, BlockSteps, BlockAssumptions
<1>3. I => EmitterCountsCalls
  BY RoutingSets DEF EmitterCountsCalls, MR!EmitterCountsCalls, EmitterInv, Waiting
<1> QED  BY <1>1, <1>2, <1>3, PTL DEF BlocksSpec

-----------------------------------------------------------------------------
(* Runs of items                                                           *)

(* A run of items, its length and its members.                             *)
LEMMA ItemsType ==
  ASSUME NEW start \in Nat, NEW n \in Nat
  PROVE  /\ TS!Items(start, n) \in Seq(Nat) /\ Len(TS!Items(start, n)) = n
         /\ \A i \in 1..n : TS!Items(start, n)[i] = start + i - 1
<1>1. \A i \in 1..n : start + i - 1 \in Nat
  OBVIOUS
<1>2. TS!Items(start, n) \in [1..n -> Nat]
  BY <1>1 DEF TS!Items
<1>3. TS!Items(start, n) \in Seq(Nat)
  BY <1>2
<1>4. DOMAIN TS!Items(start, n) = 1..n
  BY DEF TS!Items
<1>5. Len(TS!Items(start, n)) = n
  BY <1>3, <1>4, LenProperties
<1> QED  BY <1>3, <1>5 DEF TS!Items

(* The run of no items.                                                    *)
LEMMA NoItems == ASSUME NEW start \in Nat PROVE TS!Items(start, 0) = <<>>
BY ItemsType, EmptySeq

(* A run and the run behind it make a run.                                 *)
LEMMA ItemsJoin ==
  ASSUME NEW start \in Nat, NEW m \in Nat, NEW n \in Nat
  PROVE  TS!Items(start, m) \o TS!Items(start + m, n) = TS!Items(start, m + n)
<1> DEFINE s == TS!Items(start, m)
           t == TS!Items(start + m, n)
           u == TS!Items(start, m + n)
<1>1. /\ s \in Seq(Nat) /\ Len(s) = m /\ \A i \in 1..m : s[i] = start + i - 1
      /\ t \in Seq(Nat) /\ Len(t) = n /\ \A i \in 1..n : t[i] = (start + m) + i - 1
      /\ u \in Seq(Nat) /\ Len(u) = m + n /\ \A i \in 1..(m + n) : u[i] = start + i - 1
  BY ItemsType
<1> HIDE DEF s, t, u
<1>2. /\ s \o t \in Seq(Nat) /\ Len(s \o t) = m + n
      /\ \A i \in 1..(m + n) : (s \o t)[i] = IF i <= m THEN s[i] ELSE t[i - m]
  BY <1>1, ConcatProperties
<1>3. \A i \in 1..(m + n) : (s \o t)[i] = u[i]
  BY <1>1, <1>2
<1>4. s \o t = u
  BY <1>1, <1>2, <1>3, SeqEqual
<1> QED  BY <1>4 DEF s, t, u

-----------------------------------------------------------------------------
(* The invariant                                                           *)

TakeSkipInv == TS!TypeOK /\ TS!OnPlan /\ TS!PduAsPlanned

(* work() uses up its input without a PDU.                                 *)
LEMMA WorkThroughInv ==
  ASSUME TS!TakeSkipAssumption, TakeSkipInv, NEW n \in 1..(StreamLength - nitems_read),
         TS!WorkThrough(n), UNCHANGED <<d_take, d_skip>>
  PROVE  TakeSkipInv'
<1> USE DEF TakeSkipInv, TS!TypeOK
<1>1. /\ nitems_read' = nitems_read + n
      /\ d_vector' = IF d_triggered THEN d_vector \o TS!Items(nitems_read, n) ELSE d_vector
      /\ d_next' = d_next /\ d_triggered' = d_triggered /\ ts_pdu' = ts_pdu
      /\ plan' = plan /\ planned' = planned
      /\ nitems_read + n < d_next
  BY TS!TakeSkipAssumption DEF TS!WorkThrough, TS!Consume, TS!Switches, TS!TakeSkipAssumption
<1>2. nitems_read' \in Nat /\ nitems_read' <= StreamLength /\ n \in Nat
  BY <1>1, TS!TakeSkipAssumption DEF TS!TakeSkipAssumption
<1>3. d_vector' \in Seq(Nat)
  BY <1>1, <1>2, ItemsType
<1>4. TS!TypeOK'
  BY <1>1, <1>2, <1>3
<1>5. TS!OnPlan'
  <2>1. nitems_read' <= d_next'
    BY <1>1, <1>2
  <2>2. ASSUME d_triggered'
        PROVE  /\ d_next' = plan'.start + plan'.length
               /\ plan'.start <= nitems_read'
               /\ d_vector' = TS!Items(plan'.start, nitems_read' - plan'.start)
    <3> DEFINE m == nitems_read - plan.start
    <3>1. /\ d_triggered /\ d_next = plan.start + plan.length
          /\ plan.start <= nitems_read /\ d_vector = TS!Items(plan.start, m)
          /\ plan.start \in Nat /\ m \in Nat /\ nitems_read = plan.start + m
      BY <1>1, <2>2 DEF TS!OnPlan
    <3>2. d_vector' = TS!Items(plan.start, m) \o TS!Items(plan.start + m, n)
      BY <1>1, <2>2, <3>1
    <3> HIDE DEF m, TakeSkipInv, TS!TypeOK
    <3>3. d_vector' = TS!Items(plan.start, m + n)
      BY <1>2, <3>1, <3>2, ItemsJoin
    <3>4. nitems_read' = plan.start + m + n /\ plan' = plan /\ plan.start <= nitems_read'
      BY <1>1, <1>2, <3>1
    <3>5. nitems_read' - plan'.start = m + n
      BY <1>2, <3>1, <3>4
    <3> QED  BY <1>1, <3>1, <3>3, <3>4, <3>5
  <2>3. ASSUME ~d_triggered' PROVE d_next' = plan'.start /\ d_vector' = <<>>
    BY <1>1, <2>3 DEF TS!OnPlan
  <2> QED  BY <2>1, <2>2, <2>3 DEF TS!OnPlan
<1>6. TS!PduAsPlanned'
  BY <1>1 DEF TS!PduAsPlanned, TS!Items
<1> QED  BY <1>4, <1>5, <1>6

(* work() completes a PDU.                                                 *)
LEMMA WorkPublishInv ==
  ASSUME TS!TakeSkipAssumption, TakeSkipInv, NEW n \in 1..(StreamLength - nitems_read),
         TS!WorkPublish(n), UNCHANGED <<d_take, d_skip>>
  PROVE  TakeSkipInv'
<1>1. /\ nitems_read' = nitems_read + (d_next - nitems_read)
      /\ ts_pdu' = d_vector \o TS!Items(nitems_read, d_next - nitems_read)
      /\ d_vector' = <<>>
      /\ d_next' = (IF d_skip = 0 THEN d_next + d_take ELSE d_next + d_skip)
      /\ planned' = plan
      /\ plan' = [start |-> plan.start + plan.length + d_skip, length |-> d_take]
      /\ d_next <= nitems_read + n /\ d_triggered
      /\ d_take' = d_take /\ d_skip' = d_skip
  BY DEF TS!WorkPublish, TS!Consume, TS!Switches, TS!ToSwitch
<1>2. d_triggered' \in BOOLEAN /\ (d_triggered' <=> d_skip = 0)
  BY DEF TS!WorkPublish
<1>3. /\ d_take \in Nat /\ d_skip \in Nat /\ d_next \in Nat /\ nitems_read \in Nat
      /\ plan \in [start : Nat, length : Nat] /\ plan.start \in Nat /\ plan.length \in Nat
      /\ StreamLength \in Nat /\ n \in Nat /\ nitems_read + n <= StreamLength
  BY DEF TakeSkipInv, TS!TypeOK, TS!TakeSkipAssumption
<1>4. /\ d_next = plan.start + plan.length /\ nitems_read <= d_next
      /\ plan.start <= nitems_read /\ d_vector = TS!Items(plan.start, nitems_read - plan.start)
  BY <1>1 DEF TakeSkipInv, TS!OnPlan
<1>5. nitems_read' = d_next /\ d_next <= StreamLength
  BY <1>1, <1>3, <1>4
<1>6. ts_pdu' = TS!Items(plan.start, plan.length)
  <2> DEFINE m == nitems_read - plan.start
             k == d_next - nitems_read
  <2>1. m \in Nat /\ k \in Nat /\ nitems_read = plan.start + m /\ m + k = plan.length
    BY <1>3, <1>4
  <2>2. ts_pdu' = TS!Items(plan.start, m) \o TS!Items(plan.start + m, k)
    BY <1>1, <1>4, <2>1
  <2> HIDE DEF m, k
  <2>3. TS!Items(plan.start, m) \o TS!Items(plan.start + m, k) = TS!Items(plan.start, m + k)
    <3>1. plan.start \in Nat /\ m \in Nat /\ k \in Nat
      BY <1>3, <2>1
    <3> QED  BY ONLY <3>1, ItemsJoin
  <2> QED  BY <2>1, <2>2, <2>3
<1>7. TS!PduAsPlanned'
  BY <1>1, <1>6 DEF TS!PduAsPlanned, TS!Items
<1>8. plan'.start = d_next + d_skip /\ plan'.length = d_take
  BY <1>1, <1>3, <1>4
<1>9. TS!TypeOK'
  <2>1. ts_pdu' \in Seq(Nat) /\ d_vector' \in Seq(Nat)
    <3>1. TS!Items(plan.start, plan.length) \in Seq(Nat)
      BY <1>3, ItemsType
    <3> QED  BY <1>1, <1>6, <3>1, EmptySeq
  <2>2. plan' \in [start : Nat, length : Nat] /\ d_next' \in Nat
    BY <1>1, <1>3
  <2>3. planned' \in [start : Nat, length : Nat]
    BY <1>1, <1>3
  <2>4. nitems_read' \in Nat /\ nitems_read' <= StreamLength /\ d_take' \in Nat /\ d_skip' \in Nat
    BY <1>1, <1>3, <1>5
  <2> QED  BY <1>2, <2>1, <2>2, <2>3, <2>4 DEF TS!TypeOK
<1>10. TS!OnPlan'
  <2>1. CASE d_skip = 0
    <3>1. d_next' = plan'.start + plan'.length /\ plan'.start = nitems_read'
      BY <1>1, <1>3, <1>5, <1>8, <2>1
    <3>2. nitems_read' - plan'.start = 0 /\ d_vector' = TS!Items(plan'.start, 0)
      BY <1>1, <1>3, <1>5, <3>1, NoItems
    <3>3. nitems_read' <= d_next' /\ plan'.start <= nitems_read'
      BY <1>1, <1>3, <1>5, <2>1, <3>1
    <3> QED  BY <1>2, <2>1, <3>1, <3>2, <3>3 DEF TS!OnPlan
  <2>2. CASE d_skip # 0
    <3>1. d_next' = plan'.start /\ d_vector' = <<>> /\ nitems_read' <= d_next'
      BY <1>1, <1>3, <1>5, <1>8, <2>2
    <3> QED  BY <1>2, <2>2, <3>1 DEF TS!OnPlan
  <2> QED  BY <2>1, <2>2
<1> QED  BY <1>7, <1>9, <1>10 DEF TakeSkipInv

(* work() ends a gap.                                                      *)
LEMMA WorkStartInv ==
  ASSUME TS!TakeSkipAssumption, TakeSkipInv, NEW n \in 1..(StreamLength - nitems_read),
         TS!WorkStart(n), UNCHANGED <<d_take, d_skip>>
  PROVE  TakeSkipInv'
<1> USE DEF TakeSkipInv, TS!TypeOK
<1>1. /\ nitems_read' = nitems_read + (d_next - nitems_read)
      /\ d_triggered' = TRUE /\ ~d_triggered
      /\ d_next' = d_next + d_take
      /\ plan' = [plan EXCEPT !.length = d_take]
      /\ d_next <= nitems_read + n
      /\ d_vector' = d_vector /\ ts_pdu' = ts_pdu /\ planned' = planned
      /\ d_take' = d_take /\ d_skip' = d_skip
  BY DEF TS!WorkStart, TS!Consume, TS!Switches, TS!ToSwitch
<1>2. d_next = plan.start /\ d_vector = <<>> /\ nitems_read <= d_next
  BY <1>1 DEF TS!OnPlan
<1>3. nitems_read' = d_next /\ d_next <= StreamLength
  BY <1>1, <1>2, TS!TakeSkipAssumption DEF TS!TakeSkipAssumption
<1>4. plan' \in [start : Nat, length : Nat] /\ plan'.start = plan.start /\ plan'.length = d_take
  BY <1>1
<1>5. TS!TypeOK'
  BY <1>1, <1>3, <1>4
<1>6. nitems_read' - plan'.start = 0 /\ d_vector' = TS!Items(plan'.start, 0)
  BY <1>1, <1>2, <1>3, <1>4, NoItems
<1>7. TS!OnPlan'
  BY <1>1, <1>2, <1>3, <1>4, <1>6 DEF TS!OnPlan
<1>8. TS!PduAsPlanned'
  BY <1>1 DEF TS!PduAsPlanned, TS!Items
<1> QED  BY <1>5, <1>7, <1>8

(* The invariant of take_skip_to_pdu holds at first.                       *)
LEMMA TakeSkipInit == ASSUME TS!TakeSkipAssumption, TS!Init PROVE TakeSkipInv
<1>1. d_take \in Nat /\ d_skip \in Nat /\ StreamLength \in Nat
  BY DEF TS!Init, TS!TakeSkipAssumption
<1>2. TS!TypeOK
  BY <1>1 DEF TS!Init, TS!TypeOK
<1>3. nitems_read - plan.start = 0 /\ d_vector = TS!Items(plan.start, 0)
  BY NoItems DEF TS!Init
<1>4. TS!OnPlan
  BY <1>1, <1>3 DEF TS!Init, TS!OnPlan
<1>5. TS!PduAsPlanned
  BY NoItems DEF TS!Init, TS!PduAsPlanned
<1> QED  BY <1>2, <1>4, <1>5 DEF TakeSkipInv

(* The invariant of take_skip_to_pdu is kept.                              *)
LEMMA TakeSkipStep == ASSUME TS!TakeSkipAssumption, TakeSkipInv, (TS!Next \/ UNCHANGED TSvars) PROVE TakeSkipInv'
<1>1. CASE TS!Work
  BY <1>1, WorkThroughInv, WorkPublishInv, WorkStartInv DEF TS!Work
<1>2. ASSUME NEW take \in TakeSettings, TS!SetTake(take) PROVE TakeSkipInv'
  BY <1>2 DEF TS!SetTake, TS!state, TakeSkipInv, TS!TypeOK, TS!OnPlan, TS!PduAsPlanned, TS!Items, TS!TakeSkipAssumption
<1>3. ASSUME NEW skip \in SkipSettings, TS!SetSkip(skip) PROVE TakeSkipInv'
  BY <1>3 DEF TS!SetSkip, TS!state, TakeSkipInv, TS!TypeOK, TS!OnPlan, TS!PduAsPlanned, TS!Items, TS!TakeSkipAssumption
<1>4. CASE UNCHANGED TSvars
  BY <1>4 DEF TSvars, TakeSkipInv, TS!TypeOK, TS!OnPlan, TS!PduAsPlanned, TS!Items
<1> QED  BY <1>1, <1>2, <1>3, <1>4 DEF TS!Next

(* Every PDU of take_skip_to_pdu is the run of items that the take and the *)
(* skip in force when it began, and when the one before it ended, call for.*)
THEOREM PdusAsPlanned == BlocksSpec => []PduAsPlanned
<1> DEFINE I == block = "take_skip_to_pdu" => TakeSkipInv
<1>1. BlocksInit => I
  BY TakeSkipInit, BlockBegins, BlockAssumptions
<1>2. I /\ [BlocksNext]_allvars => I'
  BY TakeSkipStep, BlockSteps, BlockAssumptions
<1>3. I => PduAsPlanned
  BY DEF TakeSkipInv, PduAsPlanned
<1> QED  BY <1>1, <1>2, <1>3, PTL DEF BlocksSpec

Arrivals == [at : Nat, delay : Nat]
TimerType == [pdu : Pdus, due : Nat, time_in : Nat \cup {None}]
OutputType == [pdu : Pdus, at : Nat, time_in : Nat \cup {None}, time_out : Nat \cup {None}]

DelayTypes ==
  /\ now \in Nat /\ delay \in Delays /\ debug \in BOOLEAN
  /\ timers \subseteq TimerType /\ published \subseteq OutputType
  /\ arrived \in [Pdus -> Arrivals \cup {None}]

(* A timer is the only one of a PDU that came, is due when its delay has   *)
(* passed and knows when that was.                                         *)
TimersTrue ==
  \A t \in timers :
    /\ arrived[t.pdu] # None
    /\ t.due = arrived[t.pdu].at + arrived[t.pdu].delay
    /\ t.time_in # None => t.time_in = arrived[t.pdu].at
    /\ \A u \in timers : t.pdu = u.pdu => t = u
    /\ \A a \in published : t.pdu # a.pdu

(* What is published was held until it was due.                            *)
OutputsTrue ==
  \A a \in published :
    /\ arrived[a.pdu] # None
    /\ a.at >= arrived[a.pdu].at + arrived[a.pdu].delay
    /\ a.time_in # None => a.time_in = arrived[a.pdu].at
    /\ a.time_out # None => a.time_out = a.at
    /\ \A b \in published : a.pdu = b.pdu => a = b

DelayInv == DelayTypes /\ TimersTrue /\ OutputsTrue

(* A PDU arrives and is published, or a timer starts.                      *)
LEMMA HandleInv ==
  ASSUME PD!DelayAssumption, DelayInv, NEW p \in Pdus, NEW own, PD!HandlePdu(p, own)
  PROVE  DelayInv'
<1> DEFINE d == PD!Chosen(own)
           new == [at |-> now, delay |-> d]
           timer == [pdu |-> p, due |-> now + d, time_in |-> IF debug THEN now ELSE None]
<1>1. /\ arrived[p] = None
      /\ arrived' = [arrived EXCEPT ![p] = new]
      /\ timers' = timers \cup {timer}
      /\ now' = now /\ delay' = delay /\ debug' = debug /\ published' = published
  BY DEF PD!HandlePdu
<1>2. now \in Nat /\ d \in Nat
  BY DEF DelayInv, DelayTypes, PD!Chosen, PD!DelayAssumption
<1> HIDE DEF d
<1>3. new \in Arrivals /\ new # None /\ new.at = now /\ new.delay = d
  BY <1>2 DEF Arrivals, PD!DelayAssumption
<1>4. /\ timer \in TimerType /\ timer.pdu = p /\ timer.due = now + d
      /\ timer.time_in # None => timer.time_in = now
  BY <1>2 DEF TimerType
<1> HIDE DEF new, timer
<1>5. /\ arrived' \in [Pdus -> Arrivals \cup {None}] /\ arrived'[p] = new
      /\ \A q \in Pdus : q # p => arrived'[q] = arrived[q]
  BY <1>1, <1>3 DEF DelayInv, DelayTypes
<1>6. DelayTypes'
  BY <1>1, <1>4, <1>5 DEF DelayInv, DelayTypes
<1>7. \A t \in timers : t.pdu \in Pdus /\ t.pdu # p
  BY <1>1 DEF DelayInv, DelayTypes, TimersTrue, TimerType
<1>8. \A a \in published : a.pdu \in Pdus /\ a.pdu # p
  BY <1>1 DEF DelayInv, DelayTypes, OutputsTrue, OutputType
<1>9. TimersTrue'
  <2> SUFFICES ASSUME NEW t \in timers'
               PROVE  /\ arrived'[t.pdu] # None
                      /\ t.due = arrived'[t.pdu].at + arrived'[t.pdu].delay
                      /\ t.time_in # None => t.time_in = arrived'[t.pdu].at
                      /\ \A u \in timers' : t.pdu = u.pdu => t = u
                      /\ \A a \in published' : t.pdu # a.pdu
    BY DEF TimersTrue
  <2>1. CASE t = timer
    BY <1>1, <1>3, <1>4, <1>5, <1>7, <1>8, <2>1
  <2>2. CASE t \in timers
    <3>1. arrived'[t.pdu] = arrived[t.pdu]
      BY <1>5, <1>7, <2>2
    <3>2. \A u \in timers' : t.pdu = u.pdu => t = u
      BY <1>1, <1>4, <1>7, <2>2 DEF DelayInv, TimersTrue
    <3> QED  BY <1>1, <2>2, <3>1, <3>2 DEF DelayInv, TimersTrue
  <2> QED  BY <1>1, <2>1, <2>2
<1>10. OutputsTrue'
  BY <1>1, <1>5, <1>8 DEF DelayInv, OutputsTrue
<1> QED  BY <1>6, <1>9, <1>10 DEF DelayInv

(* A timer ends and its PDU is published.                                  *)
LEMMA OnTimerInv ==
  ASSUME PD!DelayAssumption, DelayInv, NEW t \in timers, PD!OnTimer(t)
  PROVE  DelayInv'
<1> DEFINE new == [pdu |-> t.pdu, at |-> now, time_in |-> t.time_in,
                   time_out |-> IF debug THEN now ELSE None]
<1>1. /\ now >= t.due
      /\ timers' = timers \ {t}
      /\ published' = published \cup {new}
      /\ now' = now /\ delay' = delay /\ debug' = debug /\ arrived' = arrived
  BY DEF PD!OnTimer
<1>2. t \in TimerType /\ now \in Nat /\ timers \subseteq TimerType /\ published \subseteq OutputType
  BY DEF DelayInv, DelayTypes
<1>3. /\ new \in OutputType /\ new.pdu = t.pdu /\ new.at = now /\ new.time_in = t.time_in
      /\ new.time_out # None => new.time_out = now
  BY <1>2 DEF TimerType, OutputType
<1> HIDE DEF new
<1>4. DelayTypes'
  BY <1>1, <1>3 DEF DelayInv, DelayTypes
<1>5. TimersTrue'
  BY <1>1, <1>3 DEF DelayInv, TimersTrue
<1>6. OutputsTrue'
  <2> SUFFICES ASSUME NEW a \in published'
               PROVE  /\ arrived[a.pdu] # None
                      /\ a.at >= arrived[a.pdu].at + arrived[a.pdu].delay
                      /\ a.time_in # None => a.time_in = arrived[a.pdu].at
                      /\ a.time_out # None => a.time_out = a.at
                      /\ \A b \in published' : a.pdu = b.pdu => a = b
    BY <1>1 DEF OutputsTrue
  <2>1. CASE a = new
    BY <1>1, <1>3, <2>1 DEF DelayInv, TimersTrue
  <2>2. CASE a \in published
    <3>1. \A b \in published' : a.pdu = b.pdu => a = b
      BY <1>1, <1>3, <2>2 DEF DelayInv, TimersTrue, OutputsTrue
    <3> QED  BY <2>2, <3>1 DEF DelayInv, OutputsTrue
  <2> QED  BY <1>1, <2>1, <2>2
<1> QED  BY <1>4, <1>5, <1>6 DEF DelayInv

(* The invariant of pdu_delay is kept.                                     *)
LEMMA DelayStep == ASSUME PD!DelayAssumption, DelayInv, (PD!Next \/ UNCHANGED PDvars) PROVE DelayInv'
<1>1. ASSUME NEW p \in Pdus, NEW own \in Delays \cup {Unusable, None}, PD!HandlePdu(p, own)
      PROVE  DelayInv'
  BY <1>1, HandleInv
<1>2. ASSUME NEW t \in timers, PD!OnTimer(t) PROVE DelayInv'
  BY <1>2, OnTimerInv
<1>3. ASSUME \/ \E d \in Delays : PD!SetDelay(d)
             \/ \E b \in BOOLEAN : PD!SetDebug(b)
             \/ PD!Tick
             \/ UNCHANGED PDvars
      PROVE  DelayInv'
  <2>1. /\ UNCHANGED <<timers, published, arrived>>
        /\ now' \in Nat /\ delay' \in Delays /\ debug' \in BOOLEAN
    BY <1>3 DEF PD!SetDelay, PD!SetDebug, PD!Tick, PDvars, DelayInv, DelayTypes
  <2>2. DelayTypes'
    BY <2>1 DEF DelayInv, DelayTypes
  <2>3. TimersTrue' /\ OutputsTrue'
    BY <2>1 DEF DelayInv, TimersTrue, OutputsTrue
  <2> QED  BY <2>2, <2>3 DEF DelayInv
<1> QED  BY <1>1, <1>2, <1>3 DEF PD!Next

(* Whatever the application sets and in whatever order timers fire: a PDU  *)
(* is published at most once, not before its own delay has passed, and its *)
(* metadata tell the truth of that.                                        *)
THEOREM DelaysHonoured == BlocksSpec => []DelayHonoured
<1> DEFINE I == block = "pdu_delay" => DelayInv
<1>1. BlocksInit => I
  <2>1. ASSUME PD!Init PROVE DelayInv
    BY <2>1, BlockAssumptions
    DEF PD!Init, DelayInv, DelayTypes, TimersTrue, OutputsTrue, PD!DelayAssumption
  <2> QED  BY <2>1, BlockBegins
<1>2. I /\ [BlocksNext]_allvars => I'
  BY DelayStep, BlockSteps, BlockAssumptions
<1>3. DelayInv => PD!DelayHonoured
  <2> SUFFICES ASSUME DelayInv, NEW a \in published
               PROVE  /\ \A b \in published : a.pdu = b.pdu => a = b
                      /\ arrived[a.pdu] # None
                      /\ a.at >= arrived[a.pdu].at + arrived[a.pdu].delay
                      /\ a.time_in # None /\ a.time_out # None =>
                           a.time_out - a.time_in >= arrived[a.pdu].delay
    BY DEF PD!DelayHonoured
  <2>1. a \in OutputType /\ arrived[a.pdu] \in Arrivals
    BY DEF DelayInv, DelayTypes, OutputsTrue, OutputType
  <2>2. a.at \in Nat /\ arrived[a.pdu].at \in Nat /\ arrived[a.pdu].delay \in Nat
    BY <2>1 DEF OutputType, Arrivals
  <2>3. /\ a.at >= arrived[a.pdu].at + arrived[a.pdu].delay
        /\ a.time_in # None => a.time_in = arrived[a.pdu].at
        /\ a.time_out # None => a.time_out = a.at
    BY DEF DelayInv, OutputsTrue
  <2>4. ASSUME a.time_in # None, a.time_out # None
        PROVE  a.time_out - a.time_in >= arrived[a.pdu].delay
    BY <2>2, <2>3, <2>4
  <2> QED  BY <2>3, <2>4 DEF DelayInv, OutputsTrue
<1>4. I => DelayHonoured
  BY <1>3 DEF DelayHonoured
<1> QED  BY <1>1, <1>2, <1>4, PTL DEF BlocksSpec

(* The flow controllers run in the behaviours of their block, and idle in  *)
(* the others: so what holds of them alone holds here.                     *)
THEOREM FlowQueuesBounded == BlocksSpec => []QueueBounded
<1>1. BlocksInit => Init
  BY DEF BlocksInit
<1>2. [BlocksNext]_allvars => [Next]_vars
  BY DEF BlocksNext, OthersIdle, allvars
<1>3. Spec => []QueueBounded
  BY QueuesBounded, BlockAssumptions
<1> QED  BY <1>1, <1>2, <1>3, PTL DEF BlocksSpec, Spec

-----------------------------------------------------------------------------
(* The burst combiner                                                      *)

(* The PDUs first to last.                                                 *)
RunOf(first, last) == [i \in 1..(last - first + 1) |-> first + i - 1]

(* A run of PDUs is a sequence, with its members.                          *)
LEMMA RunOfType ==
  ASSUME NEW first \in Nat, NEW last \in Nat, first <= last + 1
  PROVE  /\ RunOf(first, last) \in Seq(Nat) /\ Len(RunOf(first, last)) = last - first + 1
         /\ \A i \in 1..(last - first + 1) : RunOf(first, last)[i] = first + i - 1
<1> DEFINE n == last - first + 1
<1>1. n \in Nat /\ \A i \in 1..n : first + i - 1 \in Nat
  OBVIOUS
<1> HIDE DEF n
<1>2. RunOf(first, last) = [i \in 1..n |-> first + i - 1]
  BY DEF RunOf, n
<1>3. RunOf(first, last) \in [1..n -> Nat]
  BY <1>1, <1>2
<1>4. RunOf(first, last) \in Seq(Nat) /\ Len(RunOf(first, last)) = n
  BY <1>1, <1>2, <1>3, SeqDef
<1> QED  BY <1>2, <1>4 DEF n

(* One more PDU of a run.                                                  *)
LEMMA RunOfMore ==
  ASSUME NEW first \in Nat, NEW last \in Nat, first <= last + 1
  PROVE  Append(RunOf(first, last), last + 1) = RunOf(first, last + 1)
<1> DEFINE s == RunOf(first, last)
           t == Append(s, last + 1)
           u == RunOf(first, last + 1)
           n == last - first + 1
<1>1. /\ n \in Nat /\ (last + 1) - first + 1 = n + 1 /\ first + (n + 1) - 1 = last + 1
      /\ last + 1 \in Nat /\ first <= (last + 1) + 1
  OBVIOUS
<1>2. s \in Seq(Nat) /\ Len(s) = n /\ \A i \in 1..n : s[i] = first + i - 1
  BY RunOfType
<1>3. u \in Seq(Nat) /\ Len(u) = n + 1 /\ \A i \in 1..(n + 1) : u[i] = first + i - 1
  BY <1>1, RunOfType
<1> HIDE DEF s, u
<1>4. t \in Seq(Nat) /\ Len(t) = Len(s) + 1 /\ t[Len(s) + 1] = last + 1
      /\ \A i \in 1..Len(s) : t[i] = s[i]
  BY <1>1, <1>2, AppendProperties
<1> HIDE DEF t, n
<1>5. \A i \in 1..(n + 1) : i \in 1..n \/ i = n + 1
  BY <1>1
<1>6. \A i \in 1..(n + 1) : t[i] = u[i]
  BY <1>1, <1>2, <1>3, <1>4, <1>5
<1>7. t = u
  BY <1>1, <1>2, <1>3, <1>4, <1>6, SeqEqual
<1> QED  BY <1>7 DEF t, s, u

(* The burst in progress is a run of PDUs from a first of several, all of  *)
(* which but for the last of their bursts.                                 *)
InProgress ==
  /\ d_burst0_metadata \in 1..BC!Last
  /\ d_data = RunOf(d_burst0_metadata, BC!Last)
  /\ BC!X(d_burst0_metadata) = 1 /\ BC!Y(d_burst0_metadata) > 1
  /\ \A i \in d_burst0_metadata..BC!Last : BC!X(i) < BC!Y(i)

(* A whole burst has begun with this PDU, and is not complete.             *)
HalfBurst(first) ==
  /\ BC!Y(first) > 1 /\ BC!Last - first + 1 < BC!Y(first)
  /\ \A i \in first..BC!Last : BC!X(i) = i - first + 1 /\ BC!Y(i) = BC!Y(first)

CombinerInv ==
  /\ received \in Seq(Nat \X Nat) /\ d_burst_count \in Nat
  /\ ~stopped => /\ d_burst_count # 0 => InProgress
                 /\ \A first \in 1..BC!Last :
                      HalfBurst(first) /\ BC!Fresh(first) =>
                        d_burst_count # 0 /\ d_burst0_metadata = first

(* What a step does with the PDU that comes.                               *)
LEMMA CombinerCases ==
  ASSUME CombinerInv, NEW x \in Nat, NEW y \in Nat, BC!HandlePdu(x, y)
  PROVE  /\ BC!Last \in Nat /\ BC!Last' = BC!Last + 1 /\ received' \in Seq(Nat \X Nat)
         /\ \A i \in 1..BC!Last : BC!X(i)' = BC!X(i) /\ BC!Y(i)' = BC!Y(i)
                                  /\ BC!X(i) \in Nat /\ BC!Y(i) \in Nat
         /\ received'[BC!Last + 1] = <<x, y>>
<1>1. received' = Append(received, <<x, y>>) /\ <<x, y>> \in Nat \X Nat
      /\ received \in Seq(Nat \X Nat)
  BY DEF BC!HandlePdu, CombinerInv
<1>2. /\ Len(received) \in Nat /\ received' \in Seq(Nat \X Nat)
      /\ Len(received') = Len(received) + 1
      /\ received'[Len(received) + 1] = <<x, y>>
      /\ \A i \in 1..Len(received) : received'[i] = received[i]
  BY <1>1, LenProperties, AppendProperties
<1>3. \A i \in 1..Len(received) : received[i] \in Nat \X Nat
  BY <1>1, ElementOfSeq
<1> QED  BY <1>2, <1>3 DEF BC!Last, BC!X, BC!Y

(* A run of one.                                                           *)
LEMMA RunOfOne == ASSUME NEW n \in Nat  PROVE <<n + 1>> = RunOf(n + 1, n + 1)
<1>1. n + 1 \in Nat /\ n + 1 <= n + 1 /\ n - (n + 1) + 1 = 0
  OBVIOUS
<1>2. RunOf(n + 1, n) \in Seq(Nat) /\ Len(RunOf(n + 1, n)) = 0
  BY <1>1, RunOfType
<1>3. RunOf(n + 1, n) = <<>>
  BY <1>2, EmptySeq
<1>4. Append(RunOf(n + 1, n), n + 1) = RunOf(n + 1, n + 1)
  BY <1>1, RunOfMore
<1>5. Append(<<>>, n + 1) = <<n + 1>>
  OBVIOUS
<1> QED  BY <1>3, <1>4, <1>5

(* A PDU handled keeps what has been joined so far.                        *)
LEMMA CombinerStep ==
  ASSUME CombinerInv, NEW x \in Nat, NEW y \in Nat, BC!HandlePdu(x, y)
  PROVE  CombinerInv' /\ BC!WholeBurstJoined' /\ BC!JoinsRuns'
<1> PICK l : l = BC!Last
  OBVIOUS
<1> DEFINE old(i) == /\ BC!X(i)' = BC!X(i) /\ BC!Y(i)' = BC!Y(i)
                     /\ BC!X(i) \in Nat /\ BC!Y(i) \in Nat
<1>1. /\ l \in Nat /\ BC!Last = l /\ BC!Last' = l + 1 /\ received' \in Seq(Nat \X Nat)
      /\ received'[l + 1] = <<x, y>>
  BY CombinerCases
<1>2. \A i \in 1..l : old(i)
  BY <1>1, CombinerCases
<1>3. BC!X(l + 1)' = x /\ BC!Y(l + 1)' = y
  BY <1>1 DEF BC!X, BC!Y
<1>0. l \in Nat
  BY <1>1
<1> HIDE DEF old
<1>4. ~stopped /\ d_burst_count \in Nat /\ BC!This = l + 1
  BY <1>1 DEF BC!HandlePdu, CombinerInv, BC!This, BC!Last
<1>5. d_burst_count # 0 =>
        /\ d_burst0_metadata \in 1..l
        /\ d_data = RunOf(d_burst0_metadata, l)
        /\ BC!X(d_burst0_metadata) = 1 /\ BC!Y(d_burst0_metadata) > 1
        /\ \A i \in d_burst0_metadata..l : BC!X(i) < BC!Y(i)
  BY <1>1, <1>4 DEF CombinerInv, InProgress
<1>6. d_burst_count # 0 => Append(d_data, l + 1) = RunOf(d_burst0_metadata, l + 1)
  <2> PICK m : m = d_burst0_metadata
    OBVIOUS
  <2>1. ASSUME m \in 1..l  PROVE Append(RunOf(m, l), l + 1) = RunOf(m, l + 1)
    <3>1. m \in Nat /\ m <= l + 1
      BY ONLY <1>0, <2>1
    <3> QED  BY ONLY <1>0, <3>1, RunOfMore
  <2> QED  BY <1>5, <2>1
<1>7. ASSUME NEW first \in 1..(l + 1), BC!Fresh(first)', BC!Y(first)' > 1, BC!Y(first)' >= (l + 2) - first,
             \A i \in first..(l + 1) : BC!X(i)' = i - first + 1 /\ BC!Y(i)' = BC!Y(first)'
      PROVE  /\ first = l + 1 => d_burst_count = 0 /\ x = 1 /\ y > 1
             /\ first # l + 1 => /\ d_burst_count # 0 /\ d_burst0_metadata = first
                                 /\ x = (l + 2) - first /\ y = BC!Y(first)'
  <2>1. CASE first = l + 1
    <3>1. first \in first..(l + 1) /\ first - first + 1 = 1
      BY <1>1, <2>1
    <3>2. x = 1 /\ y > 1
      BY <1>3, <1>7, <2>1, <3>1
    <3>3. l = 0 \/ (l \in 1..l /\ (l + 1) - 1 = l)
      BY ONLY <1>0
    <3>4. l = 0 \/ BC!X(l)' >= BC!Y(l)'
      BY <1>1, <1>7, <2>1, <3>3 DEF BC!Fresh, BC!X, BC!Y
    <3>5. l = 0 \/ (BC!X(l) >= BC!Y(l) /\ BC!X(l) \in Nat /\ BC!Y(l) \in Nat)
      BY <1>2, <3>3, <3>4 DEF old
    <3>6. d_burst_count # 0 => l # 0 /\ l \in d_burst0_metadata..l
      BY <1>1, <1>5
    <3>7. d_burst_count = 0
      BY <1>5, <3>5, <3>6
    <3> QED  BY <2>1, <3>2, <3>7
  <2>2. CASE first # l + 1
    <3>1. first \in 1..l /\ (l + 1) \in first..(l + 1) /\ (l + 1) - first + 1 = (l + 2) - first
      BY ONLY <1>0, <2>2, first \in 1..(l + 1)
    <3>2. x = (l + 2) - first /\ y = BC!Y(first)'
      BY <1>3, <1>7, <3>1
    <3>3. BC!Y(first)' = BC!Y(first) /\ BC!Y(first) \in Nat
      BY <1>2, <3>1 DEF old
    <3>4. BC!Y(first) > 1 /\ l - first + 1 < BC!Y(first)
      BY <1>1, <1>7, <3>1, <3>3
    <3>5. \A i \in first..l : BC!X(i) = i - first + 1 /\ BC!Y(i) = BC!Y(first)
      <4> SUFFICES ASSUME NEW i \in first..l
                   PROVE  BC!X(i) = i - first + 1 /\ BC!Y(i) = BC!Y(first)
        OBVIOUS
      <4>1. i \in 1..l /\ i \in first..(l + 1)
        BY <1>1, <3>1
      <4>2. BC!X(i)' = i - first + 1 /\ BC!Y(i)' = BC!Y(first)'
        BY <1>7, <4>1
      <4> QED  BY <1>2, <3>3, <4>1, <4>2 DEF old
    <3>6. BC!Fresh(first)
      <4>1. first = 1 \/ first - 1 \in 1..l
        BY ONLY <1>0, <3>1
      <4>2. first = 1 \/ BC!X(first - 1)' >= BC!Y(first - 1)'
        BY <1>7 DEF BC!Fresh, BC!X, BC!Y
      <4> QED  BY <1>2, <4>1, <4>2 DEF old, BC!Fresh
    <3>7. HalfBurst(first)
      BY <1>1, <3>4, <3>5 DEF HalfBurst
    <3>8. d_burst_count # 0 /\ d_burst0_metadata = first
      BY <1>1, <1>4, <3>1, <3>6, <3>7 DEF CombinerInv
    <3> QED  BY <2>2, <3>2, <3>8
  <2> QED  BY <2>1, <2>2
<1>8. CASE BC!AbandonThrows(x, y) /\ stopped' = TRUE
  <2>1. d_burst_count' = d_burst_count /\ sent' = BC!Nothing /\ x > y
    BY <1>8 DEF BC!AbandonThrows, BC!Silent
  <2>2. CombinerInv'
    BY <1>1, <1>4, <1>8, <2>1 DEF CombinerInv
  <2>3. BC!JoinsRuns'
    BY <2>1 DEF BC!JoinsRuns, BC!Nothing
  <2>4. ASSUME NEW first \in 1..(l + 1), BC!WholeBurst(first)'  PROVE FALSE
    <3>0. (l + 1) \in first..(l + 1)
      BY ONLY <1>0, first \in 1..(l + 1)
    <3>1. (l + 1) \in first..(l + 1) /\ (l + 1) - first + 1 = BC!Y(first)'
      BY <1>1, <2>4, <3>0 DEF BC!WholeBurst
    <3>2. x = (l + 1) - first + 1 /\ y = BC!Y(first)'
      BY <1>1, <1>3, <2>4, <3>1 DEF BC!WholeBurst, BC!X, BC!Y
    <3> QED  BY <2>1, <3>1, <3>2
  <2>5. BC!WholeBurstJoined'
    BY <1>1, <2>4 DEF BC!WholeBurstJoined
  <2> QED  BY <2>2, <2>3, <2>5
<1>9. CASE /\ \/ BC!Continue(x, y) \/ BC!Finish(x, y) \/ BC!Abandon(x, y)
              \/ BC!Begin(x, y) \/ BC!Refuse(x, y) \/ BC!PassOn(x, y)
           /\ UNCHANGED stopped
  <2>1. \/ /\ d_burst_count # 0 /\ x < y /\ sent' = BC!Nothing
           /\ d_data' = Append(d_data, l + 1)
           /\ d_burst_count' = d_burst_count /\ d_burst0_metadata' = d_burst0_metadata
        \/ /\ d_burst_count # 0 /\ x = y /\ d_burst_count' = 0
           /\ sent' = [meta |-> d_burst0_metadata, data |-> Append(d_data, l + 1)]
        \/ d_burst_count # 0 /\ x > y /\ d_burst_count' = 0 /\ sent' = BC!Nothing
        \/ /\ d_burst_count = 0 /\ x = 1 /\ y > 1 /\ sent' = BC!Nothing
           /\ d_data' = <<l + 1>> /\ d_burst0_metadata' = l + 1 /\ d_burst_count' = y
        \/ /\ d_burst_count = 0 /\ y > 1 /\ x # 1 /\ d_burst_count' = 0 /\ sent' = BC!Nothing
        \/ /\ d_burst_count = 0 /\ y <= 1 /\ d_burst_count' = 0
           /\ sent' = [meta |-> l + 1, data |-> <<l + 1>>]
    BY <1>4, <1>9 DEF BC!Continue, BC!Finish, BC!Abandon, BC!Begin, BC!Refuse, BC!PassOn,
                      BC!ResetState, BC!Publish, BC!Silent
  <2>2. ASSUME d_burst_count' # 0  PROVE InProgress'
    <3>1. CASE d_burst_count # 0
      <4>1. /\ x < y /\ d_data' = Append(d_data, l + 1) /\ d_burst0_metadata' = d_burst0_metadata
        BY <2>1, <2>2, <3>1
      <4> PICK m : m = d_burst0_metadata
        OBVIOUS
      <4>2. m \in 1..l /\ m \in 1..(l + 1)
        BY <1>1, <1>5, <3>1
      <4>3. BC!X(m)' = 1 /\ BC!Y(m)' > 1
        BY <1>2, <1>5, <3>1, <4>2 DEF old
      <4>4. ASSUME NEW i \in m..(l + 1)  PROVE BC!X(i)' < BC!Y(i)'
        <5>1. i = l + 1 \/ (i \in 1..l /\ i \in m..l)
          BY <1>1, <4>2
        <5> QED  BY <1>2, <1>3, <1>5, <3>1, <4>1, <5>1 DEF old
      <4>5. d_burst0_metadata' = m /\ d_data' = RunOf(m, l + 1)
        BY <1>6, <3>1, <4>1
      <4> QED  BY <1>1, <4>2, <4>3, <4>4, <4>5 DEF InProgress, BC!X, BC!Y
    <3>2. CASE d_burst_count = 0
      <4>1. x = 1 /\ y > 1 /\ d_data' = <<l + 1>> /\ d_burst0_metadata' = l + 1
        BY <2>1, <2>2, <3>2
      <4>2. d_data' = RunOf(l + 1, l + 1)
        BY <1>1, <4>1, RunOfOne
      <4>3. l + 1 \in 1..(l + 1) /\ \A i \in (l + 1)..(l + 1) : i = l + 1
        BY <1>1
      <4>4. BC!X(l + 1)' = 1 /\ BC!Y(l + 1)' > 1 /\ BC!X(l + 1)' < BC!Y(l + 1)'
        BY <1>3, <4>1
      <4> QED  BY <1>1, <4>1, <4>2, <4>3, <4>4 DEF InProgress, BC!X, BC!Y
    <3> QED  BY <3>1, <3>2
  <2>3. ASSUME NEW first \in 1..(l + 1), HalfBurst(first)', BC!Fresh(first)'
        PROVE  d_burst_count' # 0 /\ d_burst0_metadata' = first
    <3>1. /\ BC!Y(first)' > 1 /\ (l + 1) - first + 1 < BC!Y(first)'
          /\ \A i \in first..(l + 1) : BC!X(i)' = i - first + 1 /\ BC!Y(i)' = BC!Y(first)'
      BY <1>1, <2>3 DEF HalfBurst, BC!X, BC!Y
    <3>2. BC!Y(first)' \in Nat
      <4>1. first \in 1..l \/ first = l + 1
        BY <1>1
      <4> QED  BY <1>2, <1>3, <4>1 DEF old
    <3>3. BC!Y(first)' >= (l + 2) - first /\ (l + 2) - first < BC!Y(first)'
      BY <1>1, <3>1, <3>2
    <3>4. CASE first = l + 1
      BY <1>7, <2>1, <2>3, <3>1, <3>3, <3>4
    <3>5. CASE first # l + 1
      <4>1. d_burst_count # 0 /\ d_burst0_metadata = first /\ x < y
        BY <1>7, <2>3, <3>1, <3>3, <3>5
      <4> QED  BY <2>1, <4>1
    <3> QED  BY <3>4, <3>5
  <2>4. ASSUME NEW first \in 1..(l + 1), BC!WholeBurst(first)', BC!Fresh(first)'
        PROVE  sent' = [meta |-> first, data |-> RunOf(first, l + 1)]
    <3>1. /\ BC!Y(first)' > 1 /\ (l + 1) - first + 1 = BC!Y(first)'
          /\ \A i \in first..(l + 1) : BC!X(i)' = i - first + 1 /\ BC!Y(i)' = BC!Y(first)'
      BY <1>1, <2>4 DEF BC!WholeBurst, BC!X, BC!Y
    <3> PICK c : c = BC!Y(first)'
      OBVIOUS
    <3>4. c > 1 /\ (l + 1) - first + 1 = c
      BY <3>1
    <3>5. c >= (l + 2) - first /\ first # l + 1 /\ (l + 2) - first = c
      BY ONLY <1>0, <3>4, first \in 1..(l + 1)
    <3>2. BC!Y(first)' >= (l + 2) - first /\ first # l + 1 /\ (l + 2) - first = BC!Y(first)'
      BY <3>5
    <3>3. d_burst_count # 0 /\ d_burst0_metadata = first /\ x = y
      BY <1>7, <2>4, <3>1, <3>2
    <3>6. sent' = [meta |-> d_burst0_metadata, data |-> Append(d_data, l + 1)]
      BY <2>1, <3>3
    <3> QED  BY <1>6, <3>3, <3>6
  <2>5. d_burst_count' \in Nat
    BY <1>4, <2>1
  <2>6. CombinerInv'
    BY <1>1, <2>2, <2>3, <2>5 DEF CombinerInv
  <2>7. BC!WholeBurstJoined'
    BY <1>1, <2>4 DEF BC!WholeBurstJoined, RunOf
  <2>8. CASE sent' = BC!Nothing
    <3>1. BC!JoinsRuns'
      BY <2>8 DEF BC!JoinsRuns, BC!Nothing
    <3> QED  BY <2>6, <2>7, <3>1
  <2>9. CASE d_burst_count # 0 /\ x = y /\ sent' = [meta |-> d_burst0_metadata, data |-> Append(d_data, l + 1)]
    <3> PICK m : m = d_burst0_metadata
      OBVIOUS
    <3>1. m \in 1..l /\ sent'.meta = m /\ sent'.data = RunOf(m, l + 1)
      BY <1>5, <1>6, <2>9
    <3>2. BC!X(m)' = 1 /\ BC!Y(m)' > 1 /\ BC!X(l + 1)' = BC!Y(l + 1)'
      BY <1>2, <1>3, <1>5, <2>9, <3>1 DEF old
    <3>3. ASSUME NEW i \in m..l  PROVE BC!X(i)' < BC!Y(i)'
      <4>1. i \in 1..l
        BY <1>1, <3>1
      <4> QED  BY <1>2, <1>5, <2>9, <4>1 DEF old
    <3>4. (l + 1) - 1 = l
      BY <1>1
    <3>5. BC!JoinsRuns'
      BY <1>1, <3>1, <3>2, <3>3, <3>4 DEF BC!JoinsRuns, RunOf, BC!X, BC!Y
    <3> QED  BY <2>6, <2>7, <3>5
  <2>10. CASE sent' = [meta |-> l + 1, data |-> <<l + 1>>]
    <3>1. sent'.meta = l + 1 /\ sent'.data = RunOf(l + 1, l + 1)
      BY <1>1, <2>10, RunOfOne
    <3>2. ~(l + 1 < l + 1)
      BY <1>1
    <3>3. BC!JoinsRuns'
      BY <1>1, <3>1, <3>2 DEF BC!JoinsRuns, RunOf
    <3> QED  BY <2>6, <2>7, <3>3
  <2> QED  BY <2>1, <2>8, <2>9, <2>10
<1> QED  BY <1>8, <1>9 DEF BC!HandlePdu

(* A burst that arrives whole after the last PDU of another one is         *)
(* published, and only runs of PDUs are joined, whatever was lost or       *)
(* garbled before.                                                         *)
LEMMA CombinerInvariance ==
  BlocksSpec => [](block = "pdu_burst_combiner" =>
                     CombinerInv /\ BC!WholeBurstJoined /\ BC!JoinsRuns)
<1> DEFINE I == block = "pdu_burst_combiner" =>
                  CombinerInv /\ BC!WholeBurstJoined /\ BC!JoinsRuns
<1>1. BlocksInit => I
  <2>1. ASSUME BC!Init PROVE CombinerInv /\ BC!WholeBurstJoined /\ BC!JoinsRuns
    <3>1. received = <<>> /\ sent = BC!Nothing /\ d_burst_count = 0 /\ BC!Last = 0
      BY <2>1 DEF BC!Init, BC!Last
    <3>2. \A first \in 1..BC!Last : FALSE
      BY <3>1
    <3> QED  BY <3>1, <3>2 DEF CombinerInv, BC!WholeBurstJoined, BC!JoinsRuns
  <2> QED  BY <2>1, BlockBegins
<1>2. I /\ [BlocksNext]_allvars => I'
  <2>1. ASSUME CombinerInv, BC!Next
        PROVE  CombinerInv' /\ BC!WholeBurstJoined' /\ BC!JoinsRuns'
    <3>1. PICK i \in Indices : BC!HandlePdu(i[1], i[2])
      BY <2>1 DEF BC!Next
    <3>2. i[1] \in Nat /\ i[2] \in Nat
      BY BlockAssumptions DEF BlockAssumptions, BC!IndicesAssumption
    <3> QED  BY <2>1, <3>1, <3>2, CombinerStep
  <2>2. ASSUME UNCHANGED BCvars
        PROVE  /\ CombinerInv => CombinerInv'
               /\ BC!WholeBurstJoined => BC!WholeBurstJoined'
               /\ BC!JoinsRuns => BC!JoinsRuns'
    BY <2>2 DEF BCvars, CombinerInv, BC!WholeBurstJoined, BC!JoinsRuns, InProgress, HalfBurst,
                BC!WholeBurst, BC!Fresh, BC!X, BC!Y, BC!Last
  <2> QED  BY <2>1, <2>2, BlockSteps
<1> QED  BY <1>1, <1>2, PTL DEF BlocksSpec

(* A burst received whole, after the last PDU of another one, is           *)
(* published.                                                              *)
THEOREM BurstsJoined == BlocksSpec => []WholeBurstJoined
<1>1. (block = "pdu_burst_combiner" => CombinerInv /\ BC!WholeBurstJoined /\ BC!JoinsRuns) =>
        WholeBurstJoined
  BY DEF WholeBurstJoined
<1> QED  BY <1>1, CombinerInvariance, PTL

(* Only runs of PDUs received without a gap are joined.                    *)
THEOREM RunsJoined == BlocksSpec => []JoinsRuns
<1>1. (block = "pdu_burst_combiner" => CombinerInv /\ BC!WholeBurstJoined /\ BC!JoinsRuns) =>
        JoinsRuns
  BY DEF JoinsRuns
<1> QED  BY <1>1, CombinerInvariance, PTL

-----------------------------------------------------------------------------
(* The logger                                                              *)

FileNumber(p, k) == IF p = 0 THEN 0 ELSE (k - 1) \div p

BelongsIn(lg, p, k, type, n) == lg[k].type = type /\ lg[k].opened /\ FileNumber(p, k) = n

(* The equation that defines the PDUs that belong in a file, for the first *)
(* l PDUs of a run ...                                                     *)
FiledBody(f, lg, r, p, type, n, l) ==
  [k \in 0..l |->
     IF k = 0 THEN <<>>
     ELSE IF BelongsIn(lg, p, k, type, n) THEN Append(f[k - 1], <<r, k>>) ELSE f[k - 1]]

(* ... and those PDUs.                                                     *)
FiledIn(lg, r, p, type, n) ==
  (CHOOSE f : f = FiledBody(f, lg, r, p, type, n, Len(lg)))[Len(lg)]

(* The function the equation defines exists.                               *)
LEMMA FiledExists ==
  ASSUME NEW lg, NEW r, NEW p, NEW type, NEW n, NEW l \in Nat
  PROVE  \E f : f = FiledBody(f, lg, r, p, type, n, l)
<1> DEFINE T == {k \in Nat : \E f : f = FiledBody(f, lg, r, p, type, n, k)}
           step(h, i) == IF i = 0 THEN <<>>
                         ELSE IF BelongsIn(lg, p, i, type, n) THEN Append(h[i - 1], <<r, i>>) ELSE h[i - 1]
<1>1. 0 \in T
  <2> DEFINE f == [i \in 0..0 |-> <<>>]
  <2>1. f = FiledBody(f, lg, r, p, type, n, 0)
    BY DEF FiledBody
  <2> QED  BY <2>1
<1>2. ASSUME NEW k \in 0..l, k \in T, k < l
      PROVE  k + 1 \in T
  <2>1. PICK f : f = FiledBody(f, lg, r, p, type, n, k)
    BY <1>2
  <2> PICK last : last = step(f, k + 1)
    OBVIOUS
  <2> DEFINE g == [i \in 0..(k + 1) |-> IF i = k + 1 THEN last ELSE f[i]]
  <2>2. \A i \in 0..k : f[i] = step(f, i)
    BY <2>1 DEF FiledBody
  <2>3. \A i \in 0..(k + 1) : g[i] = step(g, i)
    <3> TAKE i \in 0..(k + 1)
    <3>1. CASE i = k + 1
      <4>1. (k + 1) - 1 = k /\ k \in 0..(k + 1) /\ k # k + 1 /\ k + 1 # 0
        BY <1>2
      <4>2. g[i] = last /\ g[i - 1] = f[k]
        BY <3>1, <4>1
      <4> QED  BY <3>1, <4>1, <4>2
    <3>2. CASE i # k + 1
      <4>1. i \in 0..k /\ (i # 0 => i - 1 \in 0..(k + 1) /\ i - 1 # k + 1)
        BY <1>2, <3>2
      <4>2. g[i] = f[i] /\ (i # 0 => g[i - 1] = f[i - 1])
        BY <3>2, <4>1
      <4> QED  BY <2>2, <4>1, <4>2
    <3> QED  BY <3>1, <3>2
  <2> HIDE DEF step
  <2>4. g = [i \in 0..(k + 1) |-> step(g, i)]
    BY <2>3
  <2>5. g = FiledBody(g, lg, r, p, type, n, k + 1)
    BY <2>4 DEF FiledBody, step
  <2> QED  BY <1>2, <2>5
<1> HIDE DEF T, step
<1>3. l \in T
  BY <1>1, <1>2, UpTo
<1> QED  BY <1>3 DEF T

(* The PDUs that belong to a file, gathered one logged PDU at a time.      *)
LEMMA FiledIs ==
  ASSUME NEW lg, Len(lg) \in Nat, NEW r, NEW p, NEW type, NEW n
  PROVE  \E f : /\ FiledIn(lg, r, p, type, n) = f[Len(lg)]
                /\ f[0] = <<>>
                /\ \A k \in 1..Len(lg) :
                     f[k] = IF BelongsIn(lg, p, k, type, n) THEN Append(f[k - 1], <<r, k>>) ELSE f[k - 1]
<1> DEFINE l == Len(lg)
           F == CHOOSE f : f = FiledBody(f, lg, r, p, type, n, l)
<1>1. FiledIn(lg, r, p, type, n) = F[l]
  BY DEF FiledIn
<1>2. F = FiledBody(F, lg, r, p, type, n, l)
  BY FiledExists
<1> HIDE DEF F
<1>3. \A k \in 0..l : F[k] = IF k = 0 THEN <<>>
        ELSE IF BelongsIn(lg, p, k, type, n) THEN Append(F[k - 1], <<r, k>>) ELSE F[k - 1]
  BY <1>2 DEF FiledBody
<1>4. 0 \in 0..l /\ \A k \in 1..l : k \in 0..l /\ k # 0
  OBVIOUS
<1> QED  BY <1>1, <1>3, <1>4

(* No PDU belongs in a file at first ...                                   *)
LEMMA FiledNone == \A r, p, type, n : FiledIn(<<>>, r, p, type, n) = <<>>
<1> TAKE r, p, type, n
<1>1. Len(<<>>) = 0
  BY EmptySeq
<1>2. PICK f : FiledIn(<<>>, r, p, type, n) = f[0] /\ f[0] = <<>>
  BY <1>1, FiledIs
<1> QED  BY <1>2

(* ... and each PDU adds itself where it belongs.                          *)
LEMMA FiledMore ==
  ASSUME NEW X, NEW lg \in Seq(X), NEW e \in X, NEW r, NEW p, NEW type, NEW n
  PROVE  FiledIn(Append(lg, e), r, p, type, n) =
           IF e.type = type /\ e.opened /\ FileNumber(p, Len(lg) + 1) = n
           THEN Append(FiledIn(lg, r, p, type, n), <<r, Len(lg) + 1>>)
           ELSE FiledIn(lg, r, p, type, n)
<1> DEFINE l == Len(lg)
           more == Append(lg, e)
<1>1. l \in Nat /\ Len(more) = l + 1 /\ more[l + 1] = e /\ \A k \in 1..l : more[k] = lg[k]
  BY LenProperties, AppendProperties
<1>2. PICK f : /\ FiledIn(lg, r, p, type, n) = f[l] /\ f[0] = <<>>
               /\ \A k \in 1..l : f[k] = IF BelongsIn(lg, p, k, type, n)
                                         THEN Append(f[k - 1], <<r, k>>) ELSE f[k - 1]
  BY <1>1, FiledIs
<1> HIDE DEF more
<1>3. PICK g : /\ FiledIn(more, r, p, type, n) = g[l + 1] /\ g[0] = <<>>
               /\ \A k \in 1..(l + 1) : g[k] = IF BelongsIn(more, p, k, type, n)
                                               THEN Append(g[k - 1], <<r, k>>) ELSE g[k - 1]
  <2>1. Len(more) \in Nat /\ Len(more) = l + 1
    BY <1>1
  <2>2. PICK g : /\ FiledIn(more, r, p, type, n) = g[Len(more)] /\ g[0] = <<>>
                 /\ \A k \in 1..Len(more) : g[k] = IF BelongsIn(more, p, k, type, n)
                                                  THEN Append(g[k - 1], <<r, k>>) ELSE g[k - 1]
    BY ONLY <2>1, FiledIs
  <2> HIDE DEF l
  <2> QED  BY ONLY <2>1, <2>2
<1>4. \A k \in 1..l : BelongsIn(more, p, k, type, n) <=> BelongsIn(lg, p, k, type, n)
  BY <1>1 DEF BelongsIn
<1> DEFINE T == {k \in 0..l : g[k] = f[k]}
<1>5. 0 \in T
  BY <1>1, <1>2, <1>3
<1>6. \A k \in 0..l : k \in T /\ k < l => k + 1 \in T
  <2> SUFFICES ASSUME NEW k \in 0..l, k \in T, k < l  PROVE k + 1 \in T
    OBVIOUS
  <2>1. k + 1 \in 1..l /\ k + 1 \in 1..(l + 1) /\ (k + 1) - 1 = k /\ k + 1 \in 0..l
    BY ONLY <1>1, k \in 0..l, k < l
  <2>2. g[k + 1] = f[k + 1]
    BY <1>2, <1>3, <1>4, <2>1
  <2> QED  BY <2>1, <2>2
<1> HIDE DEF T
<1>7. l \in T
  <2>1. l \in Nat /\ 0 \in Nat /\ l \in 0..l
    BY <1>1
  <2> HIDE DEF l
  <2>2. \A k \in 0..l : k \in T
    BY ONLY <1>5, <1>6, <2>1, UpTo
  <2> QED  BY <2>1, <2>2
<1>8. g[l] = f[l] /\ l + 1 \in 1..(l + 1) /\ (l + 1) - 1 = l
  BY <1>1, <1>7 DEF T
<1>9. BelongsIn(more, p, l + 1, type, n) <=> e.type = type /\ e.opened /\ FileNumber(p, l + 1) = n
  BY <1>1 DEF BelongsIn
<1> HIDE DEF l
<1>10. g[l + 1] = IF e.type = type /\ e.opened /\ FileNumber(p, l + 1) = n
                  THEN Append(f[l], <<r, l + 1>>) ELSE f[l]
  BY <1>3, <1>8, <1>9
<1> QED  BY <1>2, <1>3, <1>10 DEF more, l

(* What a file should hold, in this state and in the next.                 *)
LEMMA ExpectedIs ==
  ASSUME NEW type, NEW n
  PROVE  /\ PL!Expected(type, n) = FiledIn(logged, run, d_pdus_per_file, type, n)
         /\ PL!Expected(type, n)' = FiledIn(logged', run', d_pdus_per_file', type, n)
BY DEF PL!Expected, PL!Belongs, PL!FileOf, FiledIn, FiledBody, BelongsIn, FileNumber

-----------------------------------------------------------------------------
(* The ends of files                                                       *)

(* The suffix of a sequence, member by member.                             *)
LEMMA EndsWithIs ==
  ASSUME NEW X, NEW s \in Seq(X), NEW t \in Seq(X)
  PROVE  PL!EndsWith(s, t) <=> /\ Len(t) <= Len(s)
                               /\ \A i \in 1..Len(t) : s[Len(s) - Len(t) + i] = t[i]
<1> DEFINE a == Len(s)
           b == Len(t)
<1>1. a \in Nat /\ b \in Nat
  BY LenProperties
<1>2. ASSUME b <= a
      PROVE  SubSeq(s, (a - b) + 1, a) = t <=> \A i \in 1..b : s[(a - b) + i] = t[i]
  <2> DEFINE u == SubSeq(s, (a - b) + 1, a)
  <2>0. \A i \in ((a - b) + 1)..a : s[i] \in X
    <3>1. \A i \in ((a - b) + 1)..a : i \in 1..a
      BY ONLY <1>1, <1>2
    <3> QED  BY <3>1, ElementOfSeq
  <2>1. (a - b) + 1 \in Int /\ a \in Int /\ a - ((a - b) + 1) + 1 = b /\ ((a - b) + 1 <= a <=> b # 0)
    BY ONLY <1>1, <1>2
  <2>2. u \in Seq(X) /\ Len(u) = b
    BY <1>1, <2>0, <2>1, SubSeqProperties
  <2>3. \A i \in 1..b : u[i] = s[((a - b) + 1) + i - 1]
    BY <1>1, <2>0, <2>1, SubSeqProperties
  <2>4. \A i \in 1..b : ((a - b) + 1) + i - 1 = (a - b) + i
    BY ONLY <1>1
  <2> HIDE DEF u
  <2>5. ASSUME u = t  PROVE \A i \in 1..b : s[(a - b) + i] = t[i]
    BY <2>3, <2>4, <2>5
  <2>6. ASSUME \A i \in 1..b : s[(a - b) + i] = t[i]  PROVE u = t
    <3>1. \A i \in 1..b : u[i] = t[i]
      BY <2>3, <2>4, <2>6
    <3> QED  BY <2>2, <3>1, SeqEqual
  <2>7. u = t <=> \A i \in 1..b : s[(a - b) + i] = t[i]
    BY <2>5, <2>6
  <2> QED  BY <2>7 DEF u
<1> QED  BY <1>2 DEF PL!EndsWith

(* Every sequence ends with nothing.                                       *)
LEMMA EndsWithNothing ==
  ASSUME NEW X, NEW s \in Seq(X)
  PROVE  PL!EndsWith(s, <<>>)
<1>1. <<>> \in Seq(X) /\ Len(<<>>) = 0 /\ Len(s) \in Nat
  BY EmptySeq, LenProperties
<1>2. Len(<<>>) <= Len(s) /\ \A i \in 1..Len(<<>>) : FALSE
  BY <1>1
<1> QED  BY <1>1, <1>2, EndsWithIs

(* Sequences with the same new last member still end alike.                *)
LEMMA EndsWithMore ==
  ASSUME NEW X, NEW s \in Seq(X), NEW t \in Seq(X), NEW e \in X, PL!EndsWith(s, t)
  PROVE  PL!EndsWith(Append(s, e), Append(t, e))
<1> DEFINE a == Len(s)
           b == Len(t)
           u == Append(s, e)
           v == Append(t, e)
<1>1. a \in Nat /\ b \in Nat
  BY LenProperties
<1>2. /\ u \in Seq(X) /\ Len(u) = a + 1 /\ u[a + 1] = e /\ \A i \in 1..a : u[i] = s[i]
      /\ v \in Seq(X) /\ Len(v) = b + 1 /\ v[b + 1] = e /\ \A i \in 1..b : v[i] = t[i]
  BY AppendProperties
<1>3. b <= a /\ \A i \in 1..b : s[(a - b) + i] = t[i]
  BY EndsWithIs
<1> HIDE DEF a, b, u, v
<1>4. \A i \in 1..(b + 1) : u[((a + 1) - (b + 1)) + i] = v[i]
  <2> TAKE i \in 1..(b + 1)
  <2>1. CASE i = b + 1
    <3>1. ((a + 1) - (b + 1)) + i = a + 1
      BY ONLY <1>1, <2>1
    <3> QED  BY <1>2, <2>1, <3>1
  <2>2. CASE i # b + 1
    <3>1. i \in 1..b /\ ((a + 1) - (b + 1)) + i = (a - b) + i /\ (a - b) + i \in 1..a
      BY ONLY <1>1, <1>3, <2>2, i \in 1..(b + 1)
    <3> QED  BY <1>2, <1>3, <3>1
  <2> QED  BY <2>1, <2>2
<1>5. b + 1 <= a + 1
  BY <1>1, <1>3
<1>6. PL!EndsWith(u, v)
  BY <1>2, <1>4, <1>5, EndsWithIs
<1> QED  BY <1>6 DEF u, v

Marks == Nat \X Nat
Logged == [type : Types, opened : BOOLEAN]

(* d_filenum and d_burstnum count the PDUs of the run.                     *)
RunCounted ==
  /\ d_filenum <= Len(logged)
  /\ d_pdus_per_file = 0 => d_filenum = 0 /\ d_burstnum = Len(logged)
  /\ d_pdus_per_file # 0 => /\ d_burstnum < d_pdus_per_file
                            /\ Len(logged) = d_filenum * d_pdus_per_file + d_burstnum

(* The files above d_filenum, and this one until a PDU is counted for it,  *)
(* have no PDU of the run.                                                 *)
LoggerInv ==
  /\ files \in [Types -> [PL!Numbers -> Seq(Marks)]]
  /\ d_pdus_per_file \in Nat /\ d_burstnum \in Nat /\ d_filenum \in Nat /\ run \in Nat
  /\ logged \in Seq(Logged) /\ Len(logged) <= MaxLogged
  /\ RunCounted
  /\ \A k \in 1..Len(logged) :
       /\ PL!FileOf(k) \in Nat /\ PL!FileOf(k) <= d_filenum
       /\ PL!FileOf(k) = d_filenum => d_burstnum > 0
  /\ \A type \in Types, n \in PL!Numbers :
       /\ PL!Expected(type, n) \in Seq(Marks)
       /\ n > d_filenum \/ (n = d_filenum /\ d_burstnum = 0) => PL!Expected(type, n) = <<>>
  /\ PL!PdusFiled /\ PL!StaleOnlyWhenMixed

(* The numbers of the files, and of the first PDU of each.                 *)
LEMMA Divided ==
  ASSUME NEW f \in Nat, NEW b \in Nat, NEW p \in Nat \ {0}, b < p
  PROVE  (f * p + b) \div p = f /\ f * p \in Nat
<1>1. f * p \in Nat
  OBVIOUS
<1> DEFINE q == (f * p + b) \div p
<1>2. q \in Int /\ q * p <= f * p + b /\ f * p + b < q * p + p
  BY <1>1
<1> HIDE DEF q
<1>3. q <= f
  <2>1. ASSUME q >= f + 1  PROVE q * p >= (f + 1) * p
    BY ONLY <1>2, <2>1, f \in Nat, p \in Nat \ {0}
  <2>2. (f + 1) * p = f * p + p
    OBVIOUS
  <2> QED  BY <1>1, <1>2, <2>1, <2>2
<1>4. q >= f
  <2>1. ASSUME q + 1 <= f  PROVE (q + 1) * p <= f * p
    BY ONLY <1>2, <2>1, f \in Nat, p \in Nat \ {0}
  <2>2. (q + 1) * p = q * p + p /\ q * p \in Int
    BY <1>2
  <2> QED  BY <1>1, <1>2, <2>1, <2>2
<1>5. q = f
  BY <1>2, <1>3, <1>4
<1> QED  BY <1>1, <1>5 DEF q

(* The next PDU is counted for d_filenum, and the first of that file is    *)
(* d_burstnum PDUs earlier.                                                *)
LEMMA NextFile ==
  ASSUME LoggerInv
  PROVE  LET l == Len(logged)
             first == IF d_pdus_per_file = 0 THEN 1 ELSE d_filenum * d_pdus_per_file + 1
         IN  /\ l \in Nat /\ PL!FileOf(l + 1) = d_filenum
             /\ first = (l - d_burstnum) + 1 /\ first \in 1..(l + 1)
             /\ d_burstnum > 0 => first \in 1..l /\ PL!FileOf(first) = d_filenum
<1> PICK p, f, b, l : p = d_pdus_per_file /\ f = d_filenum /\ b = d_burstnum /\ l = Len(logged)
  OBVIOUS
<1>1. p \in Nat /\ f \in Nat /\ b \in Nat /\ l \in Nat
  BY LenProperties DEF LoggerInv
<1>2. /\ p = 0 => f = 0 /\ b = l
      /\ p # 0 => b < p /\ l = f * p + b
  BY DEF LoggerInv, RunCounted
<1>3. CASE p = 0
  BY <1>1, <1>2, <1>3 DEF PL!FileOf
<1>4. CASE p # 0
  <2>1. (f * p + b) \div p = f /\ (f * p + 0) \div p = f /\ f * p \in Nat
    BY ONLY <1>1, <1>2, <1>4, Divided
  <2> PICK m : m = f * p
    OBVIOUS
  <2>2. /\ m \in Nat /\ l = m + b /\ (l + 1) - 1 = l /\ m + 1 = (l - b) + 1 /\ m + 1 \in 1..(l + 1)
        /\ b > 0 => m + 1 \in 1..l
        /\ (m + 1) - 1 = m /\ m + 0 = m
    BY ONLY <1>1, <1>2, <1>4, <2>1, m = f * p
  <2>3. l \div p = f /\ m \div p = f
    BY <2>1, <2>2
  <2> QED  BY <1>1, <1>4, <2>2, <2>3 DEF PL!FileOf
<1> QED  BY <1>3, <1>4

(* A PDU is appended to the file where it belongs.                         *)
LEMMA LogStep ==
  ASSUME LoggerInv, NEW type \in Types, NEW opened \in BOOLEAN, PL!HandlePdu(type, opened)
  PROVE  LoggerInv'
<1> PICK p, f, b, l, r : p = d_pdus_per_file /\ f = d_filenum /\ b = d_burstnum /\ l = Len(logged) /\ r = run
  OBVIOUS
<1> PICK e : e = [type |-> type, opened |-> opened]
  OBVIOUS
<1> DEFINE mark == <<r, l + 1>>
           here(t, n) == opened /\ t = type /\ n = f
           written == Append(IF b = 0 THEN <<>> ELSE files[type][f], mark)
<1>1. p \in Nat /\ f \in Nat /\ b \in Nat /\ l \in Nat /\ r \in Nat /\ MaxLogged \in Nat
  BY LenProperties, BlockAssumptions DEF LoggerInv, PL!LoggerAssumption
<1>2. /\ l < MaxLogged /\ logged' = Append(logged, e)
      /\ files' = IF opened THEN [files EXCEPT ![type][f] = written] ELSE files
      /\ d_pdus_per_file' = p /\ run' = r
      /\ IF b + 1 = p THEN d_burstnum' = 0 /\ d_filenum' = f + 1
                      ELSE d_burstnum' = b + 1 /\ d_filenum' = f
  BY DEF PL!HandlePdu, PL!Count, PL!Written
<1>3. e \in Logged /\ logged \in Seq(Logged) /\ e.type = type /\ (e.opened <=> opened)
  BY DEF Logged, LoggerInv
<1>4. /\ logged' \in Seq(Logged) /\ Len(logged') = l + 1 /\ logged'[l + 1] = e
      /\ \A k \in 1..l : logged'[k] = logged[k]
  <2>1. /\ Append(logged, e) \in Seq(Logged) /\ Len(Append(logged, e)) = Len(logged) + 1
        /\ Append(logged, e)[Len(logged) + 1] = e
        /\ \A k \in 1..Len(logged) : Append(logged, e)[k] = logged[k]
    BY <1>3, AppendProperties
  <2> QED  BY <1>2, <2>1
<1>5. \A k : PL!FileOf(k)' = PL!FileOf(k)
  BY <1>2 DEF PL!FileOf
<1>6. PL!FileOf(l + 1) = f
  BY NextFile
<1>7. ASSUME NEW t, NEW n
      PROVE  PL!Expected(t, n)' = IF here(t, n) THEN Append(PL!Expected(t, n), mark) ELSE PL!Expected(t, n)
  <2>1. PL!Expected(t, n)' = FiledIn(Append(logged, e), r, p, t, n)
    BY <1>2, ExpectedIs
  <2>2. FiledIn(Append(logged, e), r, p, t, n) =
          IF e.type = t /\ e.opened /\ FileNumber(p, Len(logged) + 1) = n
          THEN Append(FiledIn(logged, r, p, t, n), <<r, Len(logged) + 1>>)
          ELSE FiledIn(logged, r, p, t, n)
    BY ONLY <1>3, FiledMore
  <2>3. PL!Expected(t, n) = FiledIn(logged, r, p, t, n)
    BY ExpectedIs
  <2>4. FileNumber(p, l + 1) = f
    BY <1>6 DEF PL!FileOf, FileNumber
  <2>5. e.type = t /\ e.opened /\ FileNumber(p, l + 1) = n <=> here(t, n)
    BY <1>3, <2>4
  <2> HIDE DEF here, mark
  <2>6. mark = <<r, Len(logged) + 1>>
    BY DEF mark
  <2> QED  BY <2>1, <2>2, <2>3, <2>5, <2>6
<1>8. f <= l /\ f \in PL!Numbers /\ mark \in Marks
  <2>1. f <= l
    BY DEF LoggerInv, RunCounted
  <2>2. f \in 0..MaxLogged /\ l + 1 \in Nat
    BY ONLY <1>1, <1>2, <2>1
  <2> QED  BY <1>1, <2>1, <2>2 DEF PL!Numbers, Marks
<1>9. written \in Seq(Marks)
  <2>1. files[type][f] \in Seq(Marks) /\ <<>> \in Seq(Marks)
    BY <1>8, EmptySeq DEF LoggerInv
  <2> HIDE DEF mark
  <2> QED  BY <1>8, <2>1
<1> HIDE DEF mark, written
<1>10. files' \in [Types -> [PL!Numbers -> Seq(Marks)]]
  BY <1>2, <1>8, <1>9 DEF LoggerInv
<1>11. \A t \in Types, n \in PL!Numbers :
         files'[t][n] = IF here(t, n) THEN written ELSE files[t][n]
  BY <1>2, <1>8 DEF LoggerInv
<1> HIDE DEF here
<1>12. d_burstnum' \in Nat /\ d_filenum' \in Nat /\ f <= d_filenum' /\ d_filenum' <= l + 1
       /\ (d_filenum' = f => d_burstnum' > 0)
       /\ ((d_filenum' = f /\ d_burstnum' = b + 1) \/ (d_filenum' = f + 1 /\ d_burstnum' = 0))
  <2>1. /\ b + 1 \in Nat /\ b + 1 > 0 /\ f + 1 \in Nat /\ f <= f + 1 /\ f + 1 <= l + 1 /\ f <= l + 1
        /\ f <= f /\ f + 1 # f
    BY ONLY <1>1, <1>8
  <2> QED  BY <1>1, <1>2, <2>1
<1>13. RunCounted'
  <2>1. /\ p = 0 => f = 0 /\ b = l
        /\ p # 0 => b < p /\ l = f * p + b
    BY DEF LoggerInv, RunCounted
  <2>2. (f + 1) * p = f * p + p /\ f * p \in Nat
    BY ONLY <1>1
  <2> PICK m : m = f * p
    OBVIOUS
  <2>3. CASE b + 1 = p
    <3>1. p # 0 /\ l + 1 = (f + 1) * p + 0 /\ 0 < p
      BY ONLY <1>1, <2>1, <2>2, <2>3, m = f * p
    <3> QED  BY <1>2, <1>4, <1>12, <2>3, <3>1 DEF RunCounted
  <2>4. CASE b + 1 # p
    <3>1. /\ p = 0 => f = 0 /\ b + 1 = l + 1
          /\ p # 0 => b + 1 < p /\ l + 1 = f * p + (b + 1)
      BY ONLY <1>1, <2>1, <2>2, <2>4, m = f * p
    <3> QED  BY <1>2, <1>4, <1>12, <2>4, <3>1 DEF RunCounted
  <2> QED  BY <2>3, <2>4
<1>14. ASSUME NEW k \in 1..(l + 1)
       PROVE  /\ PL!FileOf(k)' \in Nat /\ PL!FileOf(k)' <= d_filenum'
              /\ PL!FileOf(k)' = d_filenum' => d_burstnum' > 0
  <2>1. k \in 1..l \/ k = l + 1
    BY <1>1
  <2>2. PL!FileOf(k) \in Nat /\ PL!FileOf(k) <= f
    BY <1>1, <1>6, <2>1 DEF LoggerInv
  <2> QED  BY <1>1, <1>5, <1>12, <2>2
<1>15. ASSUME NEW t \in Types, NEW n \in PL!Numbers
       PROVE  /\ PL!Expected(t, n)' \in Seq(Marks)
              /\ n > d_filenum' \/ (n = d_filenum' /\ d_burstnum' = 0) => PL!Expected(t, n)' = <<>>
  <2>1. PL!Expected(t, n) \in Seq(Marks) /\ (n > f => PL!Expected(t, n) = <<>>) /\ n \in Nat
    BY DEF LoggerInv, PL!Numbers
  <2>2. PL!Expected(t, n)' \in Seq(Marks)
    BY <1>7, <1>8, <2>1
  <2>3. ASSUME n > d_filenum' \/ (n = d_filenum' /\ d_burstnum' = 0)
        PROVE  PL!Expected(t, n)' = <<>>
    <3>1. n > f /\ n # f
      BY <1>1, <1>12, <2>1, <2>3
    <3>2. ~here(t, n)
      BY <3>1 DEF here
    <3> QED  BY <1>7, <2>1, <3>1, <3>2
  <2> QED  BY <2>2, <2>3
<1>16. PL!Expected(type, f) \in Seq(Marks) /\ (b = 0 => PL!Expected(type, f) = <<>>)
  BY <1>8 DEF LoggerInv
<1>17. PL!PdusFiled'
  <2> SUFFICES ASSUME NEW t \in Types, NEW n \in PL!Numbers
               PROVE  PL!EndsWith(files'[t][n], PL!Expected(t, n)')
    BY DEF PL!PdusFiled
  <2>1. CASE here(t, n)
    <3> PICK old, new : old = (IF b = 0 THEN <<>> ELSE files[type][f]) /\ new = PL!Expected(type, f)
      OBVIOUS
    <3>1. old \in Seq(Marks) /\ new \in Seq(Marks)
      BY <1>8, <1>16, EmptySeq DEF LoggerInv
    <3>2. PL!EndsWith(old, new)
      <4>1. CASE b = 0
        BY <1>16, <3>1, <4>1, EndsWithNothing
      <4>2. CASE b # 0
        BY <1>8, <4>2 DEF LoggerInv, PL!PdusFiled
      <4> QED  BY <4>1, <4>2
    <3>3. PL!EndsWith(Append(old, mark), Append(new, mark))
      BY ONLY <1>8, <3>1, <3>2, EndsWithMore
    <3>4. t = type /\ n = f
      BY <2>1 DEF here
    <3>5. files'[t][n] = Append(old, mark)
      BY <1>11, <2>1 DEF written
    <3>6. PL!Expected(t, n)' = Append(new, mark)
      BY <1>7, <2>1, <3>4
    <3> QED  BY <3>3, <3>5, <3>6
  <2>2. CASE ~here(t, n)
    <3>1. files'[t][n] = files[t][n] /\ PL!Expected(t, n)' = PL!Expected(t, n)
      BY <1>7, <1>11, <2>2
    <3> QED  BY <3>1 DEF LoggerInv, PL!PdusFiled
  <2> QED  BY <2>1, <2>2
<1> DEFINE start(n) == IF p = 0 THEN 1 ELSE n * p + 1
<1>18. /\ start(f) \in 1..(l + 1) /\ start(f) = (l - b) + 1
       /\ b > 0 => start(f) \in 1..l /\ PL!FileOf(start(f)) = f
  BY NextFile
<1>19. ASSUME NEW t \in Types, NEW k \in 1..(l + 1), NEW n, n = PL!FileOf(k),
              logged'[start(n)].type = t, logged'[start(n)].opened
       PROVE  files'[t][n] = PL!Expected(t, n)'
  <2>1. k \in 1..l \/ k = l + 1
    BY <1>1
  <2>2. n \in Nat /\ n <= f /\ (k \in 1..l /\ n = f => b > 0)
    BY <1>1, <1>6, <1>19, <2>1 DEF LoggerInv
  <2>3. n \in PL!Numbers
    BY <1>1, <1>8, <2>2 DEF PL!Numbers
  <2>4. logged'[start(n)].type = t /\ logged'[start(n)].opened
    BY <1>19
  <2> HIDE DEF start
  <2>5. CASE n = f /\ b = 0
    <3>1. start(n) = l + 1 /\ t = type /\ opened
      <4>1. start(f) = l + 1
        BY <1>1, <1>18, <2>5
      <4> QED  BY <1>3, <1>4, <2>4, <2>5, <4>1
    <3>2. here(t, n)
      BY <2>5, <3>1 DEF here
    <3>3. files'[t][n] = Append(<<>>, mark)
      BY <1>11, <2>3, <2>5, <3>2 DEF written
    <3>4. PL!Expected(t, n)' = Append(<<>>, mark)
      BY <1>7, <1>16, <2>5, <3>1, <3>2
    <3> QED  BY <3>3, <3>4
  <2>6. CASE n = f /\ b # 0
    <3>1. start(f) \in 1..l /\ PL!FileOf(start(f)) = f
      BY <1>1, <1>18, <2>6
    <3>2. logged[start(f)].type = t /\ logged[start(f)].opened
      BY <1>4, <2>4, <2>6, <3>1
    <3>3. files[t][f] = PL!Expected(t, f)
      BY <3>1, <3>2 DEF LoggerInv, PL!StaleOnlyWhenMixed, start
    <3>4. CASE here(t, n)
      <4>1. t = type /\ opened
        BY <3>4 DEF here
      <4>2. files'[t][n] = Append(files[t][f], mark)
        BY <1>11, <2>3, <2>6, <3>4, <4>1 DEF written
      <4>3. PL!Expected(t, n)' = Append(PL!Expected(t, f), mark)
        BY <1>7, <2>6, <3>4
      <4> QED  BY <3>3, <4>2, <4>3
    <3>5. CASE ~here(t, n)
      BY <1>7, <1>11, <2>3, <2>6, <3>3, <3>5
    <3> QED  BY <3>4, <3>5
  <2>7. CASE n # f
    <3>1. ~here(t, n)
      BY <2>7 DEF here
    <3>2. k \in 1..l
      BY <1>6, <1>19, <2>1, <2>7
    <3>3. start(n) \in 1..l
      <4>1. CASE p = 0
        <5>1. PL!FileOf(k) = 0 /\ PL!FileOf(l + 1) = 0
          BY <4>1 DEF PL!FileOf
        <5> QED  BY ONLY <1>6, <1>19, <2>7, <5>1
      <4>2. CASE p # 0
        <5>1. start(f) = f * p + 1 /\ start(n) = n * p + 1
          BY <4>2 DEF start
        <5>2. n + 1 <= f
          BY ONLY <1>1, <2>2, <2>7
        <5>3. (n + 1) * p <= f * p /\ (n + 1) * p = n * p + p /\ n * p \in Nat /\ f * p \in Nat
          BY ONLY <1>1, <2>2, <5>2
        <5> PICK u, v : u = n * p /\ v = f * p
          OBVIOUS
        <5>4. v + 1 \in 1..(l + 1) /\ u + p <= v /\ u \in Nat /\ v \in Nat
          BY <1>18, <5>1, <5>3
        <5>5. u + 1 \in 1..l
          BY ONLY <1>1, <4>2, <5>4
        <5> QED  BY <5>1, <5>5
      <4> QED  BY <4>1, <4>2
    <3>4. logged[start(n)].type = t /\ logged[start(n)].opened
      BY <1>4, <2>4, <3>3
    <3>5. files[t][n] = PL!Expected(t, n)
      BY <1>19, <3>2, <3>4 DEF LoggerInv, PL!StaleOnlyWhenMixed, start
    <3> QED  BY <1>7, <1>11, <2>3, <3>1, <3>5
  <2> QED  BY <2>5, <2>6, <2>7
<1>20. PL!StaleOnlyWhenMixed'
  <2> HIDE DEF start
  <2>1. ASSUME NEW t \in Types, NEW k \in 1..(l + 1), NEW n, n = PL!FileOf(k)',
               logged'[start(n)].type = t, logged'[start(n)].opened
        PROVE  files'[t][n] = PL!Expected(t, n)'
    <3>1. n = PL!FileOf(k)
      BY <1>5, <2>1
    <3> QED  BY <1>19, <2>1, <3>1
  <2>2. \A n : start(n) = IF d_pdus_per_file' = 0 THEN 1 ELSE n * d_pdus_per_file' + 1
    BY <1>2 DEF start
  <2>3. 1..Len(logged') = 1..(l + 1)
    BY <1>4
  <2> QED  BY <2>1, <2>2, <2>3 DEF PL!StaleOnlyWhenMixed
<1>21. Len(logged') <= MaxLogged
  BY <1>1, <1>2, <1>4 DEF LoggerInv
<1> QED  BY <1>1, <1>2, <1>4, <1>10, <1>12, <1>13, <1>14, <1>15, <1>17, <1>20, <1>21 DEF LoggerInv

(* A new run has logged nothing, and files of a type keep being that.      *)
LEMMA NewRunInv ==
  ASSUME logged' = <<>>, d_burstnum' = 0, d_filenum' = 0, d_pdus_per_file' \in Nat, run' \in Nat,
         files' \in [Types -> [PL!Numbers -> Seq(Marks)]]
  PROVE  LoggerInv'
<1>1. /\ <<>> \in Seq(Logged) /\ <<>> \in Seq(Marks) /\ Len(<<>>) = 0
      /\ 1..Len(<<>>) = {} /\ MaxLogged \in Nat
  BY EmptySeq, BlockAssumptions DEF PL!LoggerAssumption
<1>2. logged' \in Seq(Logged) /\ Len(logged') = 0 /\ 1..Len(logged') = {}
  BY <1>1
<1>3. \A t, n : PL!Expected(t, n)' = <<>>
  BY FiledNone, ExpectedIs
<1>4. RunCounted'
  <2> PICK l, p : l = Len(logged') /\ p = d_pdus_per_file'
    OBVIOUS
  <2>1. p \in Nat /\ l = 0
    BY <1>2
  <2>2. \A q \in Nat : 0 * q = 0
    OBVIOUS
  <2>3. 0 <= l /\ (p = 0 => l = 0) /\ (p # 0 => 0 < p /\ l = 0 * p + 0)
    BY ONLY <2>1, <2>2
  <2> QED  BY <2>3 DEF RunCounted
<1>5. PL!PdusFiled'
  <2>1. \A t \in Types, n \in PL!Numbers : PL!EndsWith(files'[t][n], <<>>)
    <3> TAKE t \in Types, n \in PL!Numbers
    <3>1. files'[t][n] \in Seq(Marks)
      OBVIOUS
    <3> QED  BY ONLY <3>1, EndsWithNothing
  <2> QED  BY <1>3, <2>1 DEF PL!PdusFiled
<1>6. PL!StaleOnlyWhenMixed'
  BY <1>2 DEF PL!StaleOnlyWhenMixed
<1>7. Len(logged') <= MaxLogged
  BY <1>1, <1>2
<1>8. \A t \in Types, n \in PL!Numbers : PL!Expected(t, n)' \in Seq(Marks)
  BY <1>1, <1>3
<1> QED  BY <1>2, <1>3, <1>4, <1>5, <1>6, <1>7, <1>8 DEF LoggerInv

(* The invariant of pdu_logger holds at first.                             *)
LEMMA LoggerInit == ASSUME PL!Init PROVE LoggerInv
<1>1. /\ <<>> \in Seq(Logged) /\ <<>> \in Seq(Marks) /\ Len(<<>>) = 0
      /\ 1..Len(<<>>) = {} /\ MaxLogged \in Nat
  BY EmptySeq, BlockAssumptions DEF PL!LoggerAssumption
<1>2. logged = <<>> /\ logged \in Seq(Logged) /\ Len(logged) = 0 /\ 1..Len(logged) = {} /\ run = 1
      /\ d_burstnum = 0 /\ d_filenum = 0 /\ d_pdus_per_file \in Nat
  BY <1>1, BlockAssumptions DEF PL!Init, PL!LoggerAssumption
<1>3. \A t, n : PL!Expected(t, n) = <<>>
  BY <1>2, FiledNone, ExpectedIs
<1>4. RunCounted
  BY <1>2 DEF RunCounted
<1>5. files \in [Types -> [PL!Numbers -> Seq(Marks)]]
  BY <1>1 DEF PL!Init
<1>6. PL!PdusFiled
  <2>1. \A t \in Types, n \in PL!Numbers : PL!EndsWith(files[t][n], <<>>)
    <3> TAKE t \in Types, n \in PL!Numbers
    <3>1. files[t][n] \in Seq(Marks)
      BY <1>5
    <3> QED  BY ONLY <3>1, EndsWithNothing
  <2> QED  BY <1>3, <2>1 DEF PL!PdusFiled
<1>7. PL!StaleOnlyWhenMixed
  BY <1>2 DEF PL!StaleOnlyWhenMixed
<1>8. Len(logged) <= MaxLogged
  BY <1>1, <1>2
<1>9. \A t \in Types, n \in PL!Numbers : PL!Expected(t, n) \in Seq(Marks)
  BY <1>1, <1>3
<1> QED  BY <1>2, <1>3, <1>4, <1>5, <1>6, <1>7, <1>8, <1>9 DEF LoggerInv

(* The invariant of pdu_logger is kept.                                    *)
LEMMA LoggerStep == ASSUME LoggerInv, PL!Next \/ UNCHANGED PLvars PROVE LoggerInv'
<1>1. ASSUME PL!NewRun
      PROVE  logged' = <<>> /\ d_burstnum' = 0 /\ d_filenum' = 0 /\ d_pdus_per_file' \in Nat /\ run' \in Nat
  BY <1>1, BlockAssumptions DEF PL!NewRun, PL!LoggerAssumption, LoggerInv
<1>2. CASE PL!Restart
  <2>1. PL!NewRun /\ files' = files
    BY <1>2 DEF PL!Restart
  <2>2. files' \in [Types -> [PL!Numbers -> Seq(Marks)]]
    BY <2>1 DEF LoggerInv
  <2> QED  BY <1>1, <2>1, <2>2, NewRunInv
<1>3. ASSUME NEW type \in Types, PL!Crash(type) PROVE LoggerInv'
  <2>1. PL!NewRun
    BY <1>3 DEF PL!Crash
  <2>2. files' \in [Types -> [PL!Numbers -> Seq(Marks)]]
    <3>1. <<>> \in Seq(Marks)
      BY EmptySeq
    <3>2. files' = files \/ files' = [files EXCEPT ![type][d_filenum] = <<>>]
      BY <1>3 DEF PL!Crash
    <3>3. files \in [Types -> [PL!Numbers -> Seq(Marks)]]
      BY DEF LoggerInv
    <3> HIDE DEF PL!Numbers
    <3>4. files[type] \in [PL!Numbers -> Seq(Marks)]
      BY <3>3
    <3>5. ASSUME NEW m PROVE [files[type] EXCEPT ![m] = <<>>] \in [PL!Numbers -> Seq(Marks)]
      BY <3>1, <3>4
    <3>6. [files EXCEPT ![type] = [files[type] EXCEPT ![d_filenum] = <<>>]] \in [Types -> [PL!Numbers -> Seq(Marks)]]
      BY <3>3, <3>5
    <3> QED  BY <3>2, <3>3, <3>6
  <2> QED  BY <1>1, <2>1, <2>2, NewRunInv
<1>4. CASE UNCHANGED PLvars
  <2>1. /\ files' = files /\ d_pdus_per_file' = d_pdus_per_file /\ d_burstnum' = d_burstnum
        /\ d_filenum' = d_filenum /\ run' = run /\ logged' = logged
    BY <1>4 DEF PLvars
  <2>2. \A t, n : PL!Expected(t, n)' = PL!Expected(t, n)
    BY <2>1, ExpectedIs
  <2>3. \A k : PL!FileOf(k)' = PL!FileOf(k)
    BY <2>1 DEF PL!FileOf
  <2>4. PL!PdusFiled'
    BY <2>1, <2>2 DEF LoggerInv, PL!PdusFiled
  <2>5. PL!StaleOnlyWhenMixed'
    <3>1. ASSUME NEW t \in Types, NEW k \in 1..Len(logged), NEW n, n = PL!FileOf(k)',
                 LET first == IF d_pdus_per_file = 0 THEN 1 ELSE n * d_pdus_per_file + 1
                 IN  logged[first].type = t /\ logged[first].opened
          PROVE  files[t][n] = PL!Expected(t, n)
      BY <2>3, <3>1 DEF LoggerInv, PL!StaleOnlyWhenMixed
    <3>2. ASSUME NEW t \in Types, NEW k \in 1..Len(logged), NEW n, n = PL!FileOf(k)',
                 LET first == IF d_pdus_per_file = 0 THEN 1 ELSE n * d_pdus_per_file + 1
                 IN  logged[first].type = t /\ logged[first].opened
          PROVE  files'[t][n] = PL!Expected(t, n)'
      BY <2>1, <2>2, <3>1, <3>2
    <3> QED  BY <2>1, <3>2 DEF PL!StaleOnlyWhenMixed
  <2>6. RunCounted'
    BY <2>1 DEF LoggerInv, RunCounted
  <2> QED  BY <2>1, <2>2, <2>3, <2>4, <2>5, <2>6 DEF LoggerInv
<1> QED  BY <1>2, <1>3, <1>4, LogStep DEF PL!Next

(* pdu_logger keeps its invariant.                                         *)
LEMMA LoggerInvariant == BlocksSpec => [](block = "pdu_logger" => LoggerInv)
<1> DEFINE I == block = "pdu_logger" => LoggerInv
<1>1. BlocksInit => I
  BY LoggerInit, BlockBegins
<1>2. I /\ [BlocksNext]_allvars => I'
  BY LoggerStep, BlockSteps
<1> QED  BY <1>1, <1>2, PTL DEF BlocksSpec

(* Each file of the logger ends with the PDUs of the run that belong in    *)
(* it, in order, however types are mixed and whichever files fail to open. *)
THEOREM PdusFiledRight == BlocksSpec => []PdusFiled
<1>1. (block = "pdu_logger" => LoggerInv) => PdusFiled
  BY DEF LoggerInv, PdusFiled
<1> QED  BY <1>1, LoggerInvariant, PTL

(* What an earlier run left is only found in front of PDUs of this run in  *)
(* a file whose number another type, or a file that did not open, began.   *)
THEOREM StaleExplained == BlocksSpec => []StaleOnlyWhenMixed
<1>1. (block = "pdu_logger" => LoggerInv) => StaleOnlyWhenMixed
  BY DEF LoggerInv, StaleOnlyWhenMixed
<1> QED  BY <1>1, LoggerInvariant, PTL

-----------------------------------------------------------------------------
(* pdu_set_m                                                               *)

(* The thread that holds the lock has a pair to write that was asked for,  *)
(* or its value when the key is written.                                   *)
PairInv ==
  /\ DOMAIN setting = SM!Threads
  /\ SM!PairsTogether
  /\ \A t \in SM!Threads : setting[t] # <<>> => d_setlock = t
  /\ \A a \in Apps : setting[a] # <<>> =>
       \/ \E pair \in sm_asked :
            /\ SM!IsPair(pair)
            /\ setting[a] = <<SM!Write("key", pair.key), SM!Write("value", pair.value)>>
       \/ \E pair \in sm_asked :
            /\ SM!IsPair(pair) /\ d_k = pair.key
            /\ setting[a] = <<SM!Write("value", pair.value)>>

(* The writes of a setter leave its pair behind when the lock is free.     *)
LEMMA WriteNextStep ==
  ASSUME SM!SetMAssumption, PairInv, NEW a \in Apps, SM!WriteNext(a)
  PROVE  PairInv'
<1>1. /\ setting[a] # <<>> /\ d_setlock = a /\ a \in SM!Threads /\ a # Free
      /\ IF Head(setting[a]).what = "key" THEN d_k' = Head(setting[a]).value /\ d_v' = d_v
                                          ELSE d_v' = Head(setting[a]).value /\ d_k' = d_k
      /\ setting' = [setting EXCEPT ![a] = Tail(setting[a])]
      /\ d_setlock' = IF Len(setting[a]) = 1 THEN Free ELSE a
      /\ sm_asked' = sm_asked
  BY DEF SM!WriteNext, SM!Threads, SM!SetMAssumption
<1>2. \A t \in SM!Threads \ {a} : setting[t] = <<>> /\ setting'[t] = <<>>
  BY <1>1 DEF PairInv
<1>3. setting'[a] = Tail(setting[a])
  BY <1>1 DEF PairInv
<1>5. DOMAIN setting' = SM!Threads
  BY <1>1 DEF PairInv
<1>6. CASE \E pair \in sm_asked :
             /\ SM!IsPair(pair)
             /\ setting[a] = <<SM!Write("key", pair.key), SM!Write("value", pair.value)>>
  <2>1. PICK pair \in sm_asked : 
             /\ SM!IsPair(pair)
             /\ setting[a] = <<SM!Write("key", pair.key), SM!Write("value", pair.value)>>
    BY <1>6
  <2>2. /\ Head(setting[a]) = SM!Write("key", pair.key) /\ Len(setting[a]) = 2
        /\ Tail(setting[a]) = <<SM!Write("value", pair.value)>>
    BY <2>1
  <2>3. d_k' = pair.key /\ d_setlock' = a /\ setting'[a] = <<SM!Write("value", pair.value)>>
    BY <1>1, <1>3, <2>2 DEF SM!Write
  <2>4. SM!PairsTogether'
    BY <1>1, <2>3 DEF SM!PairsTogether
  <2>5. \A b \in Apps : b # a => setting'[b] = <<>>
    BY <1>2 DEF SM!Threads
  <2> QED  BY <1>1, <1>2, <1>5, <2>1, <2>3, <2>4, <2>5 DEF PairInv
<1>7. CASE \E pair \in sm_asked :
             /\ SM!IsPair(pair) /\ d_k = pair.key
             /\ setting[a] = <<SM!Write("value", pair.value)>>
  <2>1. PICK pair \in sm_asked : 
             /\ SM!IsPair(pair) /\ d_k = pair.key
             /\ setting[a] = <<SM!Write("value", pair.value)>>
    BY <1>7
  <2>2. /\ Head(setting[a]) = SM!Write("value", pair.value) /\ Len(setting[a]) = 1
        /\ Tail(setting[a]) = <<>>
    BY <2>1
  <2>3. d_k' = pair.key /\ d_v' = pair.value /\ d_setlock' = Free /\ setting'[a] = <<>>
    BY <1>1, <1>3, <2>1, <2>2 DEF SM!Write
  <2>4. pair = [key |-> pair.key, value |-> pair.value]
    BY <2>1 DEF SM!IsPair
  <2>5. SM!PairsTogether'
    BY <1>1, <2>1, <2>3, <2>4 DEF SM!PairsTogether
  <2>6. \A b \in SM!Threads : setting'[b] = <<>>
    BY <1>2, <2>3
  <2>7. \A b \in Apps : setting'[b] = <<>>
    BY <2>6 DEF SM!Threads
  <2> QED  BY <1>5, <2>5, <2>6, <2>7 DEF PairInv
<1> QED  BY <1>1, <1>6, <1>7 DEF PairInv

(* set_kv locks before anything is written.                                *)
LEMMA SetKvStep ==
  ASSUME SM!SetMAssumption, PairInv, NEW a \in Apps, NEW pair \in InitPairs, SM!SetKv(a, pair)
  PROVE  PairInv'
<1> DEFINE both == <<SM!Write("key", pair.key), SM!Write("value", pair.value)>>
<1>1. /\ d_setlock = Free /\ d_setlock' = a /\ a # Free /\ a \in SM!Threads
      /\ setting' = [setting EXCEPT ![a] = both]
      /\ sm_asked' = sm_asked \cup {pair}
  BY DEF SM!SetKv, SM!SetMAssumption, SM!Threads
<1>2. SM!IsPair(pair)
  BY DEF SM!SetMAssumption
<1> HIDE DEF both
<1>4. \A t \in SM!Threads \ {a} : setting'[t] = <<>>
  BY <1>1 DEF PairInv, SM!SetMAssumption, SM!Threads
<1>5. setting'[a] = both /\ DOMAIN setting' = SM!Threads
  BY <1>1 DEF PairInv
<1>6. SM!PairsTogether'
  BY <1>1 DEF SM!PairsTogether
<1>7. \A b \in Apps : b # a => setting'[b] = <<>>
  BY <1>4 DEF SM!Threads
<1> QED  BY <1>1, <1>2, <1>4, <1>5, <1>6, <1>7 DEF PairInv, both

(* A command takes the lock for a setter that then waits for it.           *)
LEMMA HandleCommandStep ==
  ASSUME SM!SetMAssumption, PairInv, SM!HandleCommand
  PROVE  PairInv'
<1>1. /\ d_setlock = Free /\ Block \in SM!Threads /\ Block # Free /\ Block \notin Apps
      /\ d_k' = d_k /\ d_v' = d_v /\ sm_asked' = sm_asked
  BY DEF SM!HandleCommand, SM!params, SM!Threads, SM!SetMAssumption
<1>2. \A t \in SM!Threads : setting[t] = <<>>
  BY <1>1 DEF PairInv, SM!SetMAssumption, SM!Threads
<1>3. CASE UNCHANGED <<d_setlock, setting>>
  <2>1. SM!PairsTogether'
    BY <1>1, <1>3 DEF PairInv, SM!PairsTogether
  <2>2. \A a \in Apps : setting[a] = <<>>
    BY <1>2 DEF SM!Threads
  <2> QED  BY <1>2, <1>3, <2>1, <2>2 DEF PairInv
<1>4. ASSUME NEW w, d_setlock' = Block, setting' = [setting EXCEPT ![Block] = <<w>>]
      PROVE  PairInv'
  <2>1. DOMAIN setting' = SM!Threads
    BY <1>1, <1>4 DEF PairInv
  <2>2. SM!PairsTogether'
    BY <1>1, <1>4 DEF SM!PairsTogether
  <2>3. \A t \in SM!Threads : setting'[t] # <<>> => t = Block
    BY <1>1, <1>2, <1>4 DEF PairInv
  <2>4. \A a \in Apps : setting'[a] = <<>>
    BY <1>1, <2>3 DEF SM!Threads
  <2> QED  BY <1>4, <2>1, <2>2, <2>3, <2>4 DEF PairInv
<1> DEFINE c == Head(sm_inbox)
           w == SM!Write(IF c.kind = "set_key" THEN "key" ELSE "value", c.arg)
<1>5. CASE d_setlock' = Block /\ setting' = [setting EXCEPT ![Block] = <<w>>] /\ c.kind \in {"set_key", "set_val"}
  <2>1. SM!PairsTogether'
    BY <1>1, <1>5 DEF SM!PairsTogether
  <2> QED  BY <1>4, <1>5
<1> QED  BY <1>3, <1>5 DEF SM!HandleCommand

(* Every step keeps keys with their values.                                *)
LEMMA PairStep == ASSUME SM!SetMAssumption, PairInv, SM!Next \/ UNCHANGED SMvars PROVE PairInv'
<1>1. ASSUME d_setlock' = d_setlock, d_k' = d_k, d_v' = d_v, setting' = setting, sm_asked' = sm_asked
      PROVE  PairInv'
  BY <1>1 DEF PairInv, SM!PairsTogether
<1>2. CASE SM!Receive
  BY <1>1, <1>2 DEF SM!Receive, SM!params
<1>3. ASSUME NEW a \in Apps, NEW merge \in BOOLEAN, NEW overwrite \in BOOLEAN, SM!SetFlags(a, merge, overwrite)
      PROVE  PairInv'
  BY <1>1, <1>3 DEF SM!SetFlags
<1>4. CASE SM!SetByCommand
  <2>1. setting[Block] # <<>> /\ d_setlock = Free /\ Block \in SM!Threads
    BY <1>4 DEF SM!SetByCommand, SM!Threads
  <2> QED  BY <2>1 DEF PairInv, SM!SetMAssumption
<1>5. CASE SM!HandlePdu
  BY <1>1, <1>5 DEF SM!HandlePdu, SM!params
<1>6. CASE UNCHANGED SMvars
  BY <1>1, <1>6 DEF SMvars
<1> QED  BY <1>2, <1>3, <1>4, <1>5, <1>6, WriteNextStep, SetKvStep, HandleCommandStep
         DEF SM!Next, SM!BlockThread

(* Whatever threads of the application and commands do, a PDU is handled   *)
(* with a key and a value of one call of set_kv.                           *)
THEOREM PairsStayTogether == BlocksSpec => []PairsTogether
<1> DEFINE I == block = "pdu_set_m" => PairInv
<1>1. BlocksInit => I
  <2>1. SM!Init => PairInv
    <3> SUFFICES ASSUME SM!Init PROVE PairInv
      OBVIOUS
    <3>1. SM!PairsTogether
      BY DEF SM!Init, SM!PairsTogether
    <3>2. setting = [t \in SM!Threads |-> <<>>]
      BY DEF SM!Init
    <3>3. \A a \in Apps : setting[a] = <<>>
      BY <3>2 DEF SM!Threads
    <3> QED  BY <3>1, <3>2, <3>3 DEF PairInv
  <2> QED  BY <2>1, BlockBegins
<1>2. I /\ [BlocksNext]_allvars => I'
  BY PairStep, BlockSteps, BlockAssumptions
<1>3. I => PairsTogether
  BY DEF PairInv, PairsTogether
<1> QED  BY <1>1, <1>2, <1>3, PTL DEF BlocksSpec

-----------------------------------------------------------------------------
(* The setters of the preamble                                             *)

Todos == {<<"preamble">>, <<"tail">>, <<"preamble", "tail">>}

Fields == {"todo", "phase", "word", "at", "copies"}

(* A copy of a part is of the part as it is, or an overlap is on record.   *)
WordsInv ==
  /\ DOMAIN call = SetterThreads /\ DOMAIN d_word = PP!Parts
  /\ DOMAIN asked = PP!Parts /\ DOMAIN overlapped = PP!Parts
  /\ \A t \in SetterThreads : DOMAIN call[t] = Fields
  /\ \A t \in SetterThreads : call[t].phase # "idle" => call[t].todo \in Todos
  /\ PP!OnlyOverlapLosesWords
  /\ \A t \in SetterThreads :
       call[t].phase = "restore" =>
         \/ call[t].word = d_word[Head(call[t].todo)]
         \/ overlapped[Head(call[t].todo)]

(* The part of a setter, and the parts that are left.                      *)
LEMMA TodoParts ==
  ASSUME NEW todo \in Todos
  PROVE  Head(todo) \in PP!Parts /\ (Len(todo) # 1 => Tail(todo) \in Todos)
<1>1. CASE todo = <<"preamble">>
  BY <1>1 DEF PP!Parts
<1>2. CASE todo = <<"tail">>
  BY <1>2 DEF PP!Parts
<1>3. CASE todo = <<"preamble", "tail">>
  <2>1. Head(todo) = "preamble" /\ Tail(todo) = <<"tail">>
    BY <1>3
  <2> QED  BY <2>1 DEF PP!Parts, Todos
<1> QED  BY <1>1, <1>2, <1>3 DEF Todos

(* The call of one thread changes, the words do not.                       *)
LEMMA CallStep ==
  ASSUME WordsInv, NEW t \in SetterThreads, NEW c, call' = [call EXCEPT ![t] = c],
         d_word' = d_word, asked' = asked, overlapped' = overlapped, DOMAIN c = Fields,
         c.phase # "idle" => c.todo \in Todos,
         c.phase = "restore" => c.word = d_word[Head(c.todo)] \/ overlapped[Head(c.todo)]
  PROVE  WordsInv'
<1>1. call'[t] = c /\ \A o \in SetterThreads \ {t} : call'[o] = call[o]
  BY DEF WordsInv
<1>2. PP!OnlyOverlapLosesWords'
  BY DEF WordsInv, PP!OnlyOverlapLosesWords
<1> QED  BY <1>1, <1>2 DEF WordsInv

(* What a thread stores is what it was asked to, or a copy.                *)
LEMMA LockWordStep ==
  ASSUME WordsInv, NEW t \in SetterThreads, PP!LockWord(t)
  PROVE  WordsInv'
<1> PICK part, word : part = Head(call[t].todo) /\ word = call[t].word
  OBVIOUS
<1>1. /\ call[t].phase \in {"set", "restore"}
      /\ d_word' = [d_word EXCEPT ![part] = word]
      /\ call' = [call EXCEPT ![t].phase = "render", ![t].at = 1, ![t].copies = 0]
  BY DEF PP!LockWord
<1>2. call[t].todo \in Todos /\ part \in PP!Parts
  BY <1>1, TodoParts DEF WordsInv
<1>3. /\ d_word'[part] = word /\ DOMAIN d_word' = PP!Parts
      /\ \A p \in PP!Parts \ {part} : d_word'[p] = d_word[p]
  BY <1>1, <1>2 DEF WordsInv
<1>4. /\ call'[t].phase = "render" /\ call'[t].todo = call[t].todo
      /\ DOMAIN call' = SetterThreads /\ \A o \in SetterThreads \ {t} : call'[o] = call[o]
      /\ DOMAIN call'[t] = Fields
  BY <1>1 DEF WordsInv, Fields
<1>5. \A o \in SetterThreads : call'[o].phase # "idle" => call'[o].todo \in Todos
  BY <1>2, <1>4 DEF WordsInv
<1>6. CASE call[t].phase = "set"
  <2>1. /\ asked' = [asked EXCEPT ![part] = word]
        /\ overlapped' = [overlapped EXCEPT ![part] = PP!CopiesHeld(t, part)]
    BY <1>6 DEF PP!LockWord
  <2>2. /\ asked'[part] = word /\ \A p \in PP!Parts \ {part} : asked'[p] = asked[p]
        /\ DOMAIN asked' = PP!Parts /\ DOMAIN overlapped' = PP!Parts
    BY <1>2, <2>1 DEF WordsInv
  <2>3. \A p \in PP!Parts \ {part} : overlapped'[p] = overlapped[p]
    BY <1>2, <2>1 DEF WordsInv
  <2>4. overlapped'[part] = PP!CopiesHeld(t, part)
    BY <1>2, <2>1 DEF WordsInv
  <2>5. PP!OnlyOverlapLosesWords'
    BY <1>2, <1>3, <2>2, <2>3 DEF WordsInv, PP!OnlyOverlapLosesWords
  <2>6. ASSUME NEW o \in SetterThreads, call'[o].phase = "restore"
        PROVE  \/ call'[o].word = d_word'[Head(call'[o].todo)]
               \/ overlapped'[Head(call'[o].todo)]
    <3>1. o # t /\ call'[o] = call[o] /\ call[o].phase = "restore"
      BY <1>4, <2>6
    <3> PICK q : q = Head(call[o].todo)
      OBVIOUS
    <3>2. q \in PP!Parts
      BY <3>1, TodoParts DEF WordsInv
    <3>3. CASE q = part
      <4>1. PP!CopiesHeld(t, part)
        BY <3>1, <3>3 DEF PP!CopiesHeld
      <4>2. overlapped'[q]
        BY <2>4, <3>3, <4>1
      <4> QED  BY <3>1, <4>2
    <3>4. CASE q # part
      <4>1. call[o].word = d_word[q] \/ overlapped[q]
        BY <3>1 DEF WordsInv
      <4>2. d_word'[q] = d_word[q] /\ overlapped'[q] = overlapped[q]
        BY <1>3, <2>3, <3>2, <3>4
      <4>3. call[o].word = d_word'[q] \/ overlapped'[q]
        BY <4>1, <4>2
      <4> QED  BY <3>1, <4>3
    <3> QED  BY <3>3, <3>4
  <2> QED  BY <1>3, <1>4, <1>5, <2>2, <2>5, <2>6 DEF WordsInv
<1>7. CASE call[t].phase = "restore"
  <2>1. asked' = asked /\ overlapped' = overlapped
    BY <1>7 DEF PP!LockWord, PP!past
  <2>2. word = d_word[part] \/ overlapped[part]
    BY <1>7 DEF WordsInv
  <2>3. \A p \in PP!Parts : d_word'[p] = d_word[p] \/ overlapped[p]
    BY <1>3, <2>2
  <2>4. PP!OnlyOverlapLosesWords'
    <3>1. \A p \in PP!Parts : d_word[p] = asked[p] \/ overlapped[p]
      BY DEF WordsInv, PP!OnlyOverlapLosesWords
    <3>2. \A p \in PP!Parts : d_word'[p] = asked[p] \/ overlapped[p]
      BY <2>3, <3>1
    <3> QED  BY <2>1, <3>2 DEF PP!OnlyOverlapLosesWords
  <2>5. ASSUME NEW o \in SetterThreads, call'[o].phase = "restore"
        PROVE  \/ call'[o].word = d_word'[Head(call'[o].todo)]
               \/ overlapped'[Head(call'[o].todo)]
    <3>1. o # t /\ call'[o] = call[o] /\ call[o].phase = "restore"
      BY <1>4, <2>5
    <3> PICK q : q = Head(call[o].todo)
      OBVIOUS
    <3>2. q \in PP!Parts /\ (call[o].word = d_word[q] \/ overlapped[q])
      BY <3>1, TodoParts DEF WordsInv
    <3>3. call[o].word = d_word'[q] \/ overlapped[q]
      BY <2>3, <3>2
    <3> QED  BY <2>1, <3>1, <3>3
  <2> QED  BY <1>3, <1>4, <1>5, <2>1, <2>4, <2>5 DEF WordsInv
<1> QED  BY <1>1, <1>6, <1>7

(* Every step keeps the account of the words lost.                         *)
LEMMA WordsStep == ASSUME WordsInv, PP!Next \/ UNCHANGED PPvars PROVE WordsInv'
<1>1. ASSUME call' = call, d_word' = d_word, asked' = asked, overlapped' = overlapped
      PROVE  WordsInv'
  BY <1>1 DEF WordsInv, PP!OnlyOverlapLosesWords
<1>2. ASSUME NEW t \in SetterThreads, NEW c, PP!Enter(t, c), UNCHANGED PP!words, UNCHANGED PP!past,
             DOMAIN c = Fields, c.phase # "restore", c.phase # "idle" => c.todo \in Todos
      PROVE  WordsInv'
  BY <1>2, CallStep DEF PP!Enter, PP!words, PP!past
<1>3. ASSUME NEW t \in SetterThreads, NEW part \in PP!Parts, NEW word \in Words, PP!SetWord(t, part, word)
      PROVE  WordsInv'
  <2> DEFINE c == [PP!Idle EXCEPT !.todo = <<part>>, !.phase = "set", !.word = word]
  <2>1. c.phase = "set" /\ c.todo = <<part>> /\ <<part>> \in Todos /\ DOMAIN c = Fields
    BY DEF PP!Idle, PP!Parts, Todos, Fields
  <2>2. PP!Enter(t, c) /\ UNCHANGED PP!words /\ UNCHANGED PP!past
    BY <1>3 DEF PP!SetWord
  <2> HIDE DEF c
  <2> QED  BY <1>2, <2>1, <2>2
<1> DEFINE both == [PP!Idle EXCEPT !.todo = <<"preamble", "tail">>, !.phase = "copy"]
<1>4. both.phase = "copy" /\ both.todo \in Todos /\ DOMAIN both = Fields
  BY DEF PP!Idle, Todos, Fields
<1> HIDE DEF both
<1>5. ASSUME NEW t \in SetterThreads, NEW interp \in Interps, PP!SetInterp(t, interp)
      PROVE  WordsInv'
  <2>1. PP!Enter(t, both) /\ UNCHANGED PP!words /\ UNCHANGED PP!past
    BY <1>5 DEF PP!SetInterp, both
  <2> QED  BY <1>2, <1>4, <2>1
<1>6. ASSUME NEW t \in SetterThreads, NEW nrz \in BOOLEAN, PP!SetNrz(t, nrz)
      PROVE  WordsInv'
  <2>1. PP!Enter(t, both) /\ UNCHANGED PP!words /\ UNCHANGED PP!past
    BY <1>6 DEF PP!SetNrz, both
  <2> QED  BY <1>2, <1>4, <2>1
<1>7. ASSUME NEW t \in SetterThreads, NEW pad \in Pads, PP!SetZeroPad(t, pad)
      PROVE  WordsInv'
  <2>1. PP!Enter(t, PP!Idle) /\ UNCHANGED PP!words /\ UNCHANGED PP!past
    BY <1>7 DEF PP!SetZeroPad
  <2>2. PP!Idle.phase = "idle" /\ DOMAIN PP!Idle = Fields
    BY DEF PP!Idle, Fields
  <2> QED  BY <1>2, <2>1, <2>2
<1>8. ASSUME NEW t \in SetterThreads, PP!CopyWord(t)
      PROVE  WordsInv'
  <2> DEFINE c == [call[t] EXCEPT !.phase = "restore", !.word = d_word[Head(call[t].todo)]]
  <2>1. /\ call[t].phase = "copy" /\ call' = [call EXCEPT ![t] = c]
        /\ d_word' = d_word /\ asked' = asked /\ overlapped' = overlapped
    BY <1>8 DEF PP!CopyWord, PP!words, PP!past
  <2>2. c.todo \in Todos /\ c.word = d_word[Head(c.todo)] /\ DOMAIN c = Fields
    BY <2>1 DEF WordsInv, Fields
  <2> HIDE DEF c
  <2> QED  BY <2>1, <2>2, CallStep
<1>9. ASSUME NEW t \in SetterThreads, PP!RenderBit(t)
      PROVE  WordsInv'
  <2>1. /\ call[t].phase = "render"
        /\ d_word' = d_word /\ asked' = asked /\ overlapped' = overlapped
    BY <1>9 DEF PP!RenderBit, PP!past
  <2> DEFINE more == [call[t] EXCEPT !.copies = @ + 1]
             next == [call[t] EXCEPT !.at = @ + 1, !.copies = 0]
  <2>2. call' = [call EXCEPT ![t] = more] \/ call' = [call EXCEPT ![t] = next]
    BY <1>9 DEF PP!RenderBit
  <2>3. DOMAIN call[t] = Fields
    BY DEF WordsInv
  <2>4. /\ DOMAIN more = Fields /\ more.phase = call[t].phase /\ more.todo = call[t].todo
        /\ DOMAIN next = Fields /\ next.phase = call[t].phase /\ next.todo = call[t].todo
    BY <2>3 DEF Fields
  <2>5. call[t].todo \in Todos
    BY <2>1 DEF WordsInv
  <2> HIDE DEF more, next
  <2>6. CASE call' = [call EXCEPT ![t] = more]
    BY <2>1, <2>4, <2>5, <2>6, CallStep
  <2>7. CASE call' = [call EXCEPT ![t] = next]
    BY <2>1, <2>4, <2>5, <2>7, CallStep
  <2> QED  BY <2>2, <2>6, <2>7
<1>10. ASSUME NEW t \in SetterThreads, PP!Unlock(t)
       PROVE  WordsInv'
  <2> DEFINE more == [PP!Idle EXCEPT !.todo = Tail(call[t].todo), !.phase = "copy"]
  <2>1. /\ call[t].phase = "render"
        /\ call' = [call EXCEPT ![t] = IF Len(call[t].todo) = 1 THEN PP!Idle ELSE more]
        /\ d_word' = d_word /\ asked' = asked /\ overlapped' = overlapped
    BY <1>10 DEF PP!Unlock, PP!words, PP!past
  <2>2. call[t].todo \in Todos
    BY <2>1 DEF WordsInv
  <2>3. /\ DOMAIN PP!Idle = Fields /\ PP!Idle.phase = "idle"
        /\ DOMAIN more = Fields /\ more.phase = "copy" /\ more.todo = Tail(call[t].todo)
    BY DEF PP!Idle, Fields
  <2> HIDE DEF more
  <2>4. CASE Len(call[t].todo) = 1
    BY <2>1, <2>3, <2>4, CallStep
  <2>5. CASE Len(call[t].todo) # 1
    BY <2>1, <2>2, <2>3, <2>5, TodoParts, CallStep
  <2> QED  BY <2>4, <2>5
<1>11. ASSUME NEW d \in PreambleData, PP!HandleMsg(d)
       PROVE  WordsInv'
  BY <1>1, <1>11 DEF PP!HandleMsg, PP!words, PP!past
<1>12. CASE UNCHANGED PPvars
  BY <1>1, <1>12 DEF PPvars
<1> QED  BY <1>3, <1>5, <1>6, <1>7, <1>8, <1>9, <1>10, <1>11, <1>12, LockWordStep DEF PP!Next

(* However many threads call setters, a preamble or a tail that was set is *)
(* only lost to a setter that held a copy of the old one.                  *)
THEOREM WordsLostToOverlap == BlocksSpec => []OnlyOverlapLosesWords
<1> DEFINE I == block = "pdu_preamble" => WordsInv
<1>1. BlocksInit => I
  <2>1. ASSUME PP!Init PROVE WordsInv
    BY <2>1 DEF Fields, PP!Init, PP!Idle, PP!OnlyOverlapLosesWords, WordsInv
  <2> QED  BY <2>1, BlockBegins
<1>2. I /\ [BlocksNext]_allvars => I'
  BY WordsStep, BlockSteps
<1>3. I => OnlyOverlapLosesWords
  BY DEF WordsInv, OnlyOverlapLosesWords
<1> QED  BY <1>1, <1>2, <1>3, PTL DEF BlocksSpec

-----------------------------------------------------------------------------
(* The history of heads and tails                                          *)

(* Stored with the settings and the fill as parameters.                    *)
StoredIn(buffer, bits, h, m, l) ==
  LET s == IF h < m THEN h * l ELSE (m - 1) * l
      shifted == [i \in DOMAIN buffer |-> IF h < m \/ i > s THEN buffer[i] ELSE buffer[i + l]]
  IN  [i \in DOMAIN buffer |-> IF i > s /\ i <= s + l THEN bits[i - s] ELSE shifted[i]]

(* The buffer holds the last h of the n strips of l items wanted.          *)
Holds(buffer, strips, n, h, l) ==
  \A k \in 1..h, i \in 1..l : buffer[(k - 1) * l + i] = strips[(n - h) + k][i]

(* Item i of strip k has its place in a buffer of m strips.                *)
LEMMA Place ==
  ASSUME NEW l \in Nat, NEW m \in Nat, NEW k \in 1..m, NEW i \in 1..l
  PROVE  /\ (k - 1) * l + i \in 1..(m * l) /\ (k - 1) * l + i <= k * l
         /\ ((k - 1) * l + i) + l = ((k + 1) - 1) * l + i
<1>1. k * l <= m * l /\ (k - 1) * l \in Nat
  <2>1. (m - k) * l \in Nat /\ (m - k) * l = m * l - k * l /\ m * l \in Nat /\ k * l \in Nat
    <3>1. m - k \in Nat
      OBVIOUS
    <3>2. \A x \in Nat : x * l \in Nat
      OBVIOUS
    <3> QED  BY <3>1, <3>2
  <2>2. (k - 1) * l \in Nat
    <3>1. k - 1 \in Nat
      OBVIOUS
    <3>2. \A x \in Nat : x * l \in Nat
      OBVIOUS
    <3> QED  BY <3>1, <3>2
  <2> QED  BY <2>1, <2>2
<1>2. k * l = (k - 1) * l + l /\ (k + 1) - 1 = k
  OBVIOUS
<1> QED  BY <1>1, <1>2

(* Strips below another are not in its place.                              *)
LEMMA Below ==
  ASSUME NEW l \in Nat, NEW h \in Nat, NEW k \in 1..h, NEW i \in 1..l
  PROVE  (k - 1) * l + i <= h * l
BY Place

(* A PDU stored takes the place of the oldest.                             *)
LEMMA StoreStep ==
  ASSUME NEW l \in Nat, NEW m \in Nat \ {0}, NEW n \in Nat, NEW h \in 0..m, h <= n,
         NEW buffer \in [1..(l * m) -> HistItems], NEW bits \in [1..l -> HistItems],
         NEW old, NEW new, \A j \in 1..n : new[j] = old[j],
         \A i \in 1..l : new[n + 1][i] = bits[i],
         Holds(buffer, old, n, h, l)
  PROVE  /\ StoredIn(buffer, bits, h, m, l) \in [1..(l * m) -> HistItems]
         /\ Holds(StoredIn(buffer, bits, h, m, l), new, n + 1, IF h < m THEN h + 1 ELSE h, l)
<1> DEFINE s == IF h < m THEN h * l ELSE (m - 1) * l
           after == StoredIn(buffer, bits, h, m, l)
           g == IF h < m THEN h + 1 ELSE h
<1>0. l * m = m * l /\ m - 1 \in Nat /\ (m - 1) + 1 = m
  OBVIOUS
<1>1. s \in Nat /\ s = (g - 1) * l /\ g \in 1..m
  <2>1. \A x \in Nat : x * l \in Nat
    OBVIOUS
  <2>2. CASE h < m
    BY <2>1, <2>2
  <2>3. CASE ~(h < m)
    <3>1. h = m
      BY <2>3
    <3> QED  BY <1>0, <2>1, <2>3, <3>1
  <2> QED  BY <2>2, <2>3
<1>2. /\ DOMAIN after = 1..(l * m)
      /\ \A j \in 1..(l * m) :
           after[j] = IF j > s /\ j <= s + l THEN bits[j - s]
                      ELSE IF h < m \/ j > s THEN buffer[j] ELSE buffer[j + l]
  BY DEF StoredIn
<1> HIDE DEF after
<1>3. after \in [1..(l * m) -> HistItems]
  <2>1. \A j \in 1..(l * m) : after[j] \in HistItems
    <3> TAKE j \in 1..(l * m)
    <3>1. CASE j > s /\ j <= s + l
      <4>1. j - s \in 1..l
        BY <1>1, <3>1
      <4> QED  BY <1>2, <3>1, <4>1
    <3>2. CASE ~(j > s /\ j <= s + l) /\ (h < m \/ j > s)
      BY <1>2, <3>2
    <3>3. CASE ~(h < m) /\ ~(j > s)
      <4>1. s + l = m * l
        BY <1>0, <1>1, <3>3
      <4>2. j + l \in 1..(l * m)
        BY <1>0, <1>1, <3>3, <4>1
      <4> QED  BY <1>2, <3>3, <4>2
    <3> QED  BY <3>1, <3>2, <3>3
  <2>2. after = [j \in 1..(l * m) |-> after[j]]
    BY <1>2 DEF StoredIn, after
  <2> QED  BY <2>1, <2>2
<1>4. ASSUME NEW k \in 1..g, NEW i \in 1..l
      PROVE  after[(k - 1) * l + i] = new[((n + 1) - g) + k][i]
  <2> PICK at : at = (k - 1) * l + i
    OBVIOUS
  <2>1. k \in 1..m
    BY <1>1
  <2>2. at \in 1..(l * m)
    BY <1>0, <2>1, Place
  <2> HIDE DEF s, g
  <2>3. CASE k = g
    <3>1. at = s + i
      BY <1>1, <2>3
    <3>2. at > s /\ at <= s + l /\ at - s = i
      BY ONLY <1>1, <3>1, i \in 1..l, l \in Nat
    <3>3. after[at] = bits[i]
      BY <1>2, <2>2, <3>2
    <3>4. ((n + 1) - g) + k = n + 1
      BY <1>1, <2>3
    <3> QED  BY <3>3, <3>4
  <2>4. CASE k # g
    <3>1. k \in 1..(g - 1) /\ g - 1 \in Nat
      BY <1>1, <2>4
    <3>2. at <= (g - 1) * l
      BY ONLY <3>1, Below, at = (k - 1) * l + i, i \in 1..l, l \in Nat
    <3>3. ~(at > s) /\ ~(at > s /\ at <= s + l)
      BY <1>1, <2>2, <3>2
    <3>4. CASE h < m
      <4>1. after[at] = buffer[at]
        BY <1>2, <2>2, <3>3, <3>4
      <4>2. g = h + 1
        BY <3>4 DEF g
      <4>3. k \in 1..h /\ (n - h) + k \in 1..n /\ ((n + 1) - g) + k = (n - h) + k
        BY ONLY <3>1, <4>2, n \in Nat, h \in 0..m, h <= n, m \in Nat \ {0}
      <4>4. buffer[at] = old[(n - h) + k][i]
        BY <4>3 DEF Holds
      <4> QED  BY <4>1, <4>3, <4>4
    <3>5. CASE ~(h < m)
      <4>1. after[at] = buffer[at + l]
        BY <1>2, <2>2, <3>3, <3>5
      <4>2. g = h
        BY <3>5 DEF g
      <4>3. k + 1 \in 1..h /\ (n - h) + (k + 1) \in 1..n /\ ((n + 1) - g) + k = (n - h) + (k + 1)
        BY ONLY <3>1, <4>2, n \in Nat, h \in 0..m, h <= n, m \in Nat \ {0}
      <4>4. at + l = ((k + 1) - 1) * l + i
        BY <2>1, Place
      <4>5. buffer[((k + 1) - 1) * l + i] = old[(n - h) + (k + 1)][i]
        BY <4>3 DEF Holds
      <4> QED  BY <4>1, <4>3, <4>4, <4>5
    <3> QED  BY <3>4, <3>5
  <2> QED  BY <2>3, <2>4
<1> HIDE DEF g
<1>5. Holds(after, new, n + 1, g, l)
  BY <1>4 DEF Holds
<1> QED  BY <1>3, <1>5 DEF after, g

(* The head and the tail of a PDU, padded to l items.                      *)
HeadOf(d, l) == [i \in 1..l |-> IF i <= Len(d) THEN d[i] ELSE 0]
TailOf(d, l) == [i \in 1..l |-> LET back == Len(d) - (l - i) IN IF back >= 1 THEN d[back] ELSE 0]

HeadsOf(p, l) == [j \in 1..Len(p) |-> HeadOf(p[j], l)]
TailsOf(p, l) == [j \in 1..Len(p) |-> TailOf(p[j], l)]

(* Both buffers hold the latest PDUs, as many as there were or fit.        *)
HistoryInv ==
  /\ d_length \in Nat /\ d_maxhistsize \in Nat \ {0}
  /\ pdus \in Seq(Seq(HistItems))
  /\ d_histsize = HT!Least(Len(pdus), d_maxhistsize)
  /\ d_head \in [1..(d_length * d_maxhistsize) -> HistItems]
  /\ d_tail \in [1..(d_length * d_maxhistsize) -> HistItems]
  /\ Holds(d_head, HeadsOf(pdus, d_length), Len(pdus), d_histsize, d_length)
  /\ Holds(d_tail, TailsOf(pdus, d_length), Len(pdus), d_histsize, d_length)

(* The head and tail that a PDU leaves, short ones padded.                 *)
LEMMA BitsOf ==
  ASSUME d_length \in Nat, NEW d \in Seq(HistItems), 0 \in HistItems
  PROVE  /\ HT!HeadBits(d) = HeadOf(d, d_length) /\ HeadOf(d, d_length) \in [1..d_length -> HistItems]
         /\ HT!TailBits(d) = TailOf(d, d_length) /\ TailOf(d, d_length) \in [1..d_length -> HistItems]
<1> PICK n, l : n = Len(d) /\ l = d_length
  OBVIOUS
<1>1. n \in Nat /\ l \in Nat /\ \A i \in 1..n : d[i] \in HistItems
  BY ElementOfSeq, LenProperties
<1>2. ASSUME NEW i \in 1..l
      PROVE  (IF i <= HT!LoopSize(d) THEN d[i] ELSE 0) = IF i <= n THEN d[i] ELSE 0
  BY <1>1 DEF HT!LoopSize, HT!Least
<1>3. HT!HeadBits(d) = HeadOf(d, l)
  BY <1>2 DEF HT!HeadBits, HeadOf
<1>4. \A i \in 1..l : HeadOf(d, l)[i] \in HistItems
  BY <1>1 DEF HeadOf
<1>5. ASSUME NEW i \in 1..l
      PROVE  (IF i <= l - HT!LoopSize(d) THEN 0 ELSE d[HT!TailIdx(d) + i - (l - HT!LoopSize(d))])
               = LET back == n - (l - i) IN IF back >= 1 THEN d[back] ELSE 0
  <2>1. CASE n < l
    <3>1. HT!LoopSize(d) = n /\ HT!TailIdx(d) = 0
      BY <1>1, <2>1 DEF HT!LoopSize, HT!Least, HT!TailIdx
    <3>2. 0 + i - (l - n) = n - (l - i) /\ (i <= l - n <=> ~(n - (l - i) >= 1))
      BY ONLY <1>1, i \in 1..l
    <3> QED  BY <3>1, <3>2
  <2>2. CASE ~(n < l)
    <3>1. HT!LoopSize(d) = l /\ HT!TailIdx(d) = n - l
      BY <1>1, <2>2 DEF HT!LoopSize, HT!Least, HT!TailIdx
    <3>2. (n - l) + i - (l - l) = n - (l - i) /\ ~(i <= l - l) /\ n - (l - i) >= 1
      BY ONLY <1>1, <2>2, i \in 1..l
    <3> QED  BY <3>1, <3>2
  <2> QED  BY <2>1, <2>2
<1>6. HT!TailBits(d) = TailOf(d, l)
  BY <1>5 DEF HT!TailBits, TailOf
<1>7. ASSUME NEW i \in 1..l PROVE TailOf(d, l)[i] \in HistItems
  <2> DEFINE back == n - (l - i)
  <2>1. back >= 1 => back \in 1..n
    BY ONLY <1>1, i \in 1..l
  <2> QED  BY <1>1, <2>1 DEF TailOf
<1>8. HeadOf(d, l) \in [1..l -> HistItems] /\ TailOf(d, l) \in [1..l -> HistItems]
  BY <1>4, <1>7 DEF HeadOf, TailOf
<1> QED  BY <1>3, <1>6, <1>8

(* A PDU stored becomes the latest of the history.                         *)
LEMMA HistoryPdu ==
  ASSUME HT!HeadTailAssumption, HistoryInv, NEW d \in Seq(HistItems), HT!HandlePdu(d)
  PROVE  HistoryInv'
<1> PICK l, m, n, h, p : l = d_length /\ m = d_maxhistsize /\ n = Len(pdus) /\ h = d_histsize /\ p = pdus
  OBVIOUS
<1>1. /\ l \in Nat /\ m \in Nat \ {0} /\ n \in Nat /\ p \in Seq(Seq(HistItems))
      /\ h \in 0..m /\ h <= n /\ h = (IF n < m THEN n ELSE m)
  BY LenProperties DEF HistoryInv, HT!Least
<1>2. /\ d_head' = HT!Stored(d_head, HT!HeadBits(d)) /\ d_tail' = HT!Stored(d_tail, HT!TailBits(d))
      /\ d_histsize' = IF h < m THEN h + 1 ELSE h
      /\ pdus' = Append(p, d) /\ d_length' = l /\ d_maxhistsize' = m
  BY DEF HT!HandlePdu
<1> PICK q : q = Append(p, d)
  OBVIOUS
<1>3. q \in Seq(Seq(HistItems)) /\ Len(q) = n + 1 /\ q[n + 1] = d /\ \A j \in 1..n : q[j] = p[j]
  <2>1. /\ Append(p, d) \in Seq(Seq(HistItems)) /\ Len(Append(p, d)) = Len(p) + 1
        /\ Append(p, d)[Len(p) + 1] = d /\ \A j \in 1..Len(p) : Append(p, d)[j] = p[j]
    BY ONLY <1>1, d \in Seq(HistItems), AppendProperties
  <2> QED  BY <2>1
<1>4. 0 \in HistItems
  BY DEF HT!HeadTailAssumption
<1>5. \A buffer, bits : HT!Stored(buffer, bits) = StoredIn(buffer, bits, h, m, l)
  BY DEF HT!Stored, StoredIn
<1>6. /\ \A j \in 1..n : HeadsOf(q, l)[j] = HeadsOf(p, l)[j] /\ TailsOf(q, l)[j] = TailsOf(p, l)[j]
      /\ HeadsOf(q, l)[n + 1] = HeadOf(d, l) /\ TailsOf(q, l)[n + 1] = TailOf(d, l)
  <2>1. \A j \in 1..n : j \in 1..(n + 1)
    BY <1>1
  <2>2. n + 1 \in 1..(n + 1) /\ Len(p) = n
    BY <1>1
  <2> QED  BY <1>3, <2>1, <2>2 DEF HeadsOf, TailsOf
<1>7. /\ HeadOf(d, l) \in [1..l -> HistItems] /\ HT!HeadBits(d) = HeadOf(d, l)
      /\ TailOf(d, l) \in [1..l -> HistItems] /\ HT!TailBits(d) = TailOf(d, l)
  BY <1>1, <1>4, BitsOf
<1> PICK g : g = IF h < m THEN h + 1 ELSE h
  OBVIOUS
<1>8. /\ d_head' \in [1..(l * m) -> HistItems] /\ Holds(d_head', HeadsOf(q, l), n + 1, g, l)
  <2> PICK b, old, new, bits : b = d_head /\ old = HeadsOf(p, l) /\ new = HeadsOf(q, l) /\ bits = HeadOf(d, l)
    OBVIOUS
  <2>1. b \in [1..(l * m) -> HistItems] /\ Holds(b, old, n, h, l)
    BY DEF HistoryInv
  <2>2. StoredIn(b, bits, h, m, l) \in [1..(l * m) -> HistItems]
        /\ Holds(StoredIn(b, bits, h, m, l), new, n + 1, IF h < m THEN h + 1 ELSE h, l)
    <3>1. bits \in [1..l -> HistItems] /\ (\A j \in 1..n : new[j] = old[j]) /\ \A i \in 1..l : new[n + 1][i] = bits[i]
      BY <1>6, <1>7
    <3> QED  BY ONLY <1>1, <2>1, <3>1, StoreStep
  <2>3. d_head' = StoredIn(b, bits, h, m, l)
    BY <1>2, <1>5, <1>7
  <2> QED  BY <2>2, <2>3
<1>9. /\ d_tail' \in [1..(l * m) -> HistItems] /\ Holds(d_tail', TailsOf(q, l), n + 1, g, l)
  <2> PICK b, old, new, bits : b = d_tail /\ old = TailsOf(p, l) /\ new = TailsOf(q, l) /\ bits = TailOf(d, l)
    OBVIOUS
  <2>1. b \in [1..(l * m) -> HistItems] /\ Holds(b, old, n, h, l)
    BY DEF HistoryInv
  <2>2. StoredIn(b, bits, h, m, l) \in [1..(l * m) -> HistItems]
        /\ Holds(StoredIn(b, bits, h, m, l), new, n + 1, IF h < m THEN h + 1 ELSE h, l)
    <3>1. bits \in [1..l -> HistItems] /\ (\A j \in 1..n : new[j] = old[j]) /\ \A i \in 1..l : new[n + 1][i] = bits[i]
      BY <1>6, <1>7
    <3> QED  BY ONLY <1>1, <2>1, <3>1, StoreStep
  <2>3. d_tail' = StoredIn(b, bits, h, m, l)
    BY <1>2, <1>5, <1>7
  <2> QED  BY <2>2, <2>3
<1>10. g = IF n + 1 < m THEN n + 1 ELSE m
  BY <1>1
<1>11. d_histsize' = HT!Least(Len(pdus'), d_maxhistsize')
  BY <1>2, <1>3, <1>10 DEF HT!Least
<1> QED  BY <1>1, <1>2, <1>3, <1>8, <1>9, <1>11 DEF HistoryInv

(* The buffers begin as zeros, and every setter makes them that again.     *)
LEMMA NoHistory ==
  ASSUME HT!HeadTailAssumption, NEW l \in Nat, NEW m \in Nat \ {0}
  PROVE  /\ <<>> \in Seq(Seq(HistItems)) /\ Len(<<>>) = 0
         /\ HT!Zeros(l * m) \in [1..(l * m) -> HistItems]
         /\ \A buffer, strips : Holds(buffer, strips, 0, 0, l)
         /\ HT!Least(0, m) = 0
<1>1. 0 \in HistItems /\ <<>> \in Seq(Seq(HistItems)) /\ Len(<<>>) = 0
  BY EmptySeq DEF HT!HeadTailAssumption
<1>2. 1..0 = {} /\ 0 < m
  BY <1>1
<1> QED  BY <1>1, <1>2 DEF HT!Zeros, Holds, HT!Least

(* The invariant of pdu_head_tail is kept.                                 *)
LEMMA HistoryStep == ASSUME HT!HeadTailAssumption, HistoryInv, HT!Next \/ UNCHANGED HTvars PROVE HistoryInv'
<1>1. ASSUME NEW n \in DataLengths, NEW d \in [1..n -> HistItems], HT!HandlePdu(d) PROVE HistoryInv'
  <2>1. n \in Nat
    BY DEF HT!HeadTailAssumption
  <2>2. d \in Seq(HistItems)
    BY <2>1, SeqDef
  <2> QED  BY <1>1, <2>2, HistoryPdu
<1>2. ASSUME NEW l \in Nat, NEW m \in Nat \ {0}, HT!ResetBuffers(l, m) PROVE HistoryInv'
  BY <1>2, NoHistory DEF HT!ResetBuffers, HistoryInv
<1>3. d_length \in Nat /\ d_maxhistsize \in Nat \ {0}
  BY DEF HistoryInv
<1>4. ASSUME NEW l \in LengthSettings, HT!SetLength(l) PROVE HistoryInv'
  BY <1>2, <1>3, <1>4 DEF HT!SetLength, HT!HeadTailAssumption
<1>5. ASSUME NEW m \in HistSettings, HT!SetHistsize(m) PROVE HistoryInv'
  BY <1>2, <1>3, <1>5 DEF HT!SetHistsize, HT!HeadTailAssumption
<1>6. CASE HT!SetSpaceBytes
  BY <1>2, <1>3, <1>6 DEF HT!SetSpaceBytes
<1>7. CASE UNCHANGED HTvars
  BY <1>7 DEF HTvars, HistoryInv
<1> QED  BY <1>1, <1>4, <1>5, <1>6, <1>7 DEF HT!Next

(* The invariant of pdu_head_tail holds at first.                          *)
LEMMA HistoryInit == ASSUME HT!HeadTailAssumption, HT!Init PROVE HistoryInv
<1>1. d_length \in Nat /\ d_maxhistsize \in Nat \ {0}
  BY DEF HT!Init, HT!HeadTailAssumption
<1> QED  BY <1>1, NoHistory DEF HT!Init, HistoryInv

(* What is published is the part of a buffer in use.                       *)
LEMMA PublishedPart ==
  ASSUME NEW l \in Nat, NEW m \in Nat, NEW h \in 0..m, NEW buffer \in [1..(l * m) -> HistItems]
  PROVE  /\ Len(SubSeq(buffer, 1, h * l)) = h * l
         /\ \A k \in 1..h, i \in 1..l : SubSeq(buffer, 1, h * l)[(k - 1) * l + i] = buffer[(k - 1) * l + i]
<1>1. h * l \in Nat /\ h * l <= l * m
  <2>1. (m - h) * l \in Nat /\ h * l \in Nat
    <3>1. \A x \in Nat : x * l \in Nat
      OBVIOUS
    <3>2. m - h \in Nat /\ h \in Nat
      OBVIOUS
    <3> QED  BY <3>1, <3>2
  <2>2. (m - h) * l = m * l - h * l /\ m * l = l * m /\ m * l \in Nat
    OBVIOUS
  <2> QED  BY <2>1, <2>2
<1> PICK z, a : z = h * l /\ a = l * m
  OBVIOUS
<1>2. \A i \in 1..z : buffer[i] \in HistItems
  BY <1>1
<1>3. Len(SubSeq(buffer, 1, z)) = z /\ \A i \in 1..z : SubSeq(buffer, 1, z)[i] = buffer[i]
  <2>1. CASE z = 0
    BY <2>1
  <2>2. CASE z # 0
    BY <1>1, <1>2, <2>2, SubSeqProperties
  <2> QED  BY <2>1, <2>2
<1> QED  BY <1>1, <1>3, Place

(* A history that satisfies the invariant is that of the latest PDUs.      *)
LEMMA HistoryRight == ASSUME HT!HeadTailAssumption, HistoryInv PROVE HT!HistoryIsLatest
<1> PICK l, m, n, h : l = d_length /\ m = d_maxhistsize /\ n = Len(pdus) /\ h = d_histsize
  OBVIOUS
<1>1. l \in Nat /\ m \in Nat \ {0} /\ n \in Nat /\ h \in 0..m /\ h <= n /\ HT!Held = h
  BY LenProperties DEF HistoryInv, HT!Least, HT!Held
<1>2. /\ Len(HT!Published(d_head)) = h * l /\ Len(HT!Published(d_tail)) = h * l
      /\ \A k \in 1..h, i \in 1..l :
           /\ HT!Published(d_head)[(k - 1) * l + i] = d_head[(k - 1) * l + i]
           /\ HT!Published(d_tail)[(k - 1) * l + i] = d_tail[(k - 1) * l + i]
  <2>1. d_head \in [1..(l * m) -> HistItems] /\ d_tail \in [1..(l * m) -> HistItems] /\ m \in Nat
    BY DEF HistoryInv
  <2> QED  BY <1>1, <2>1, PublishedPart DEF HT!Published
<1>3. ASSUME NEW k \in 1..h, NEW i \in 1..l
      PROVE  LET d == HT!Recent(k)
                 at == (k - 1) * l + i
                 back == Len(d) - (l - i)
             IN  /\ HT!Published(d_head)[at] = IF i <= Len(d) THEN d[i] ELSE 0
                 /\ HT!Published(d_tail)[at] = IF back >= 1 THEN d[back] ELSE 0
  <2>1. (n - h) + k \in 1..n
    BY <1>1
  <2>2. HT!Recent(k) = pdus[(n - h) + k]
    BY <1>1 DEF HT!Recent
  <2>3. /\ d_head[(k - 1) * l + i] = HeadsOf(pdus, l)[(n - h) + k][i]
        /\ d_tail[(k - 1) * l + i] = TailsOf(pdus, l)[(n - h) + k][i]
    BY DEF HistoryInv, Holds
  <2> PICK d : d = pdus[(n - h) + k]
    OBVIOUS
  <2>4. HeadsOf(pdus, l)[(n - h) + k] = HeadOf(d, l) /\ TailsOf(pdus, l)[(n - h) + k] = TailOf(d, l)
    BY <2>1 DEF HeadsOf, TailsOf
  <2>5. /\ d_head[(k - 1) * l + i] = IF i <= Len(d) THEN d[i] ELSE 0
        /\ d_tail[(k - 1) * l + i] = LET back == Len(d) - (l - i) IN IF back >= 1 THEN d[back] ELSE 0
    BY <2>3, <2>4 DEF HeadOf, TailOf
  <2> QED  BY <1>2, <2>2, <2>5
<1> QED  BY <1>1, <1>2, <1>3 DEF HT!HistoryIsLatest

(* pdu_head_tail publishes the heads and tails of the latest PDUs, each at *)
(* its place, for any settings and however they and the PDUs change.       *)
THEOREM HistoryAlwaysLatest == BlocksSpec => []HistoryIsLatest
<1> DEFINE I == block = "pdu_head_tail" => HistoryInv
<1>1. BlocksInit => I
  BY HistoryInit, BlockBegins, BlockAssumptions
<1>2. I /\ [BlocksNext]_allvars => I'
  BY HistoryStep, BlockSteps, BlockAssumptions
<1>3. I => HistoryIsLatest
  BY HistoryRight, BlockAssumptions DEF HistoryIsLatest
<1> QED  BY <1>1, <1>2, <1>3, PTL DEF BlocksSpec

-----------------------------------------------------------------------------
(* The search of pdu_align                                                 *)

(* The search has compared the first s syncwords with the bits up to n, G  *)
(* being the matches there are: st is about the best of them, or about the *)
(* one that ended the search.                                              *)
Reached(G, c, st, n, s) ==
  /\ st.found => \E m \in G :
       /\ m.end <= n /\ st.start_idx = m.end + c.d_offset /\ st.current_best = m.nwrong
       /\ st.look_ahead = Len(c.syncwords[m.word]) \div 2
       /\ \A o \in G : o.end < m.end => o.nwrong > m.nwrong
       /\ c.d_match_mode = AL!First => m.end = n
  /\ ~st.found => st.current_best = c.d_threshold + 1 /\ ~st.done
  /\ \A o \in G : o.end < n \/ (o.end = n /\ o.word <= s) =>
       o.nwrong >= st.current_best \/ (st.done /\ c.d_match_mode = AL!First)
  /\ st.done => st.found /\ (c.d_match_mode = AL!First \/ st.current_best = 0)
  /\ c.d_match_mode = AL!First => (st.found => st.done) /\ \A o \in G : o.end >= n

(* The matches are those of the bits and syncwords.                        *)
LEMMA Differences ==
  ASSUME NEW s, NEW n
  PROVE  Len(conf.syncwords[s]) \in Nat => AL!NWrong(s, n) \in Nat
<1> DEFINE w == conf.syncwords[s]
           bit(i) == LET at == n - Len(w) + i IN IF at < 1 THEN 0 ELSE data[at]
           D == {i \in 1..Len(w) : bit(i) # w[i]}
<1>1. AL!NWrong(s, n) = AL!Cardinality(D)
  BY DEF AL!NWrong
<1>2. AL!Cardinality(D) = Cardinality(D)
  BY DEF AL!Cardinality, AL!IsFiniteSet, Cardinality, IsFiniteSet
<1>3. ASSUME Len(w) \in Nat PROVE Cardinality(D) \in Nat
  <2>1. IsFiniteSet(1..Len(w)) /\ D \subseteq 1..Len(w)
    BY <1>3, FS_Interval
  <2> QED  BY <2>1, FS_Subset, FS_CardinalityType
<1> QED  BY <1>1, <1>2, <1>3

(* What the matches good enough are.                                       *)
LEMMA GoodMatches ==
  ASSUME conf \in AL!Confs
  PROVE  /\ \A o \in AL!Good :
              /\ o.end \in 1..Len(data) /\ o.word \in 1..Len(conf.syncwords)
              /\ o.nwrong = AL!NWrong(o.word, o.end) /\ o.nwrong \in Nat
              /\ o.nwrong <= conf.d_threshold /\ o.end >= Len(conf.syncwords[o.word])
         /\ \A n \in 1..Len(data), s \in 1..Len(conf.syncwords) :
              AL!NWrong(s, n) <= conf.d_threshold /\ n >= Len(conf.syncwords[s]) =>
                [end |-> n, word |-> s, nwrong |-> AL!NWrong(s, n)] \in AL!Good
<1>1. \A s \in 1..Len(conf.syncwords) : Len(conf.syncwords[s]) \in Nat
  <2>1. conf.syncwords \in Seq(Seq(AL!Bit))
    BY DEF AL!Confs
  <2> QED  BY <2>1, ElementOfSeq, LenProperties
<1>2. \A s \in 1..Len(conf.syncwords) : \A n : AL!NWrong(s, n) \in Nat
  BY <1>1, Differences
<1>3. \A o \in AL!Good :
              /\ o.end \in 1..Len(data) /\ o.word \in 1..Len(conf.syncwords)
              /\ o.nwrong = AL!NWrong(o.word, o.end)
              /\ o.nwrong <= conf.d_threshold /\ o.end >= Len(conf.syncwords[o.word])
  BY DEF AL!Good, AL!Matches
<1>4. ASSUME NEW n \in 1..Len(data), NEW s \in 1..Len(conf.syncwords),
             AL!NWrong(s, n) <= conf.d_threshold, n >= Len(conf.syncwords[s])
      PROVE  [end |-> n, word |-> s, nwrong |-> AL!NWrong(s, n)] \in AL!Good
  BY <1>4 DEF AL!Good, AL!Matches
<1> QED  BY <1>2, <1>3, <1>4

StateType == [found : BOOLEAN, current_best : Nat, start_idx : Int, look_ahead : Nat, done : BOOLEAN]

(* Comparing the next syncword.                                            *)
LEMMA CompareStep ==
  ASSUME conf \in AL!Confs, Len(data) \in Nat, bit_idx \in Nat, bit_idx < Len(data),
         NEW st \in StateType, NEW s \in 1..Len(conf.syncwords),
         Reached(AL!Good, conf, st, bit_idx + 1, s - 1)
  PROVE  /\ AL!Compare(st, s) \in StateType
         /\ Reached(AL!Good, conf, AL!Compare(st, s), bit_idx + 1, s)
<1> DEFINE n == bit_idx + 1
           G == AL!Good
           new == AL!Compare(st, s)
           nwrong == AL!NWrong(s, n)
           l == Len(conf.syncwords[s])
           first == conf.d_match_mode = AL!First
           hit == [end |-> n, word |-> s, nwrong |-> nwrong]
<1>1. n \in Nat /\ n \in 1..Len(data) /\ s \in Nat /\ conf.d_threshold \in Nat /\ conf.d_offset \in Int
  BY DEF AL!Confs
<1>2. l \in Nat
  <2>1. conf.syncwords \in Seq(Seq(AL!Bit))
    BY DEF AL!Confs
  <2> QED  BY <2>1, ElementOfSeq, LenProperties
<1>3. nwrong \in Nat
  BY <1>2, Differences
<1>4. \A o \in G : /\ o.end \in Nat /\ o.word \in Nat /\ o.nwrong \in Nat
                   /\ o.nwrong <= conf.d_threshold /\ o.end >= Len(conf.syncwords[o.word])
                   /\ o.end = n /\ o.word = s => o.nwrong = nwrong
  <2>1. Len(conf.syncwords) \in Nat
    BY DEF AL!Confs
  <2> QED  BY <2>1, GoodMatches
<1>5. CASE new = st /\ (st.done \/ nwrong > conf.d_threshold \/ n < l \/ nwrong >= st.current_best)
  <2>1. ASSUME NEW o \in G, o.end < n \/ (o.end = n /\ o.word <= s)
        PROVE  o.nwrong >= st.current_best \/ (st.done /\ first)
    <3>1. CASE o.end < n \/ (o.end = n /\ o.word <= s - 1)
      BY <3>1 DEF Reached
    <3>2. CASE o.end = n /\ o.word = s
      <4>1. o.nwrong = nwrong /\ nwrong <= conf.d_threshold /\ n >= l
        BY <1>4, <3>2
      <4>2. CASE st.done
        <5>1. first \/ st.current_best = 0
          BY <4>2 DEF Reached
        <5> QED  BY <1>3, <4>1, <4>2, <5>1
      <4>3. CASE ~st.done
        <5>1. nwrong >= st.current_best
          BY <1>1, <1>2, <1>3, <1>5, <4>1, <4>3
        <5> QED  BY <4>1, <5>1
      <4> QED  BY <4>2, <4>3
    <3> QED  BY <1>1, <1>4, <2>1, <3>1, <3>2
  <2>2. Reached(G, conf, st, n, s)
    BY <2>1 DEF Reached
  <2> QED  BY <1>5, <2>2
<1>6. CASE /\ ~st.done /\ nwrong <= conf.d_threshold /\ n >= l /\ nwrong < st.current_best
           /\ new = [found |-> TRUE, current_best |-> nwrong, start_idx |-> n + conf.d_offset,
                     look_ahead |-> l \div 2, done |-> first \/ nwrong = 0]
  <2>1. hit \in G
    BY <1>1, <1>6, GoodMatches
  <2> PICK d \in BOOLEAN : d = (first \/ nwrong = 0)
    OBVIOUS
  <2> PICK k, half, at, x : k = l /\ half = k \div 2 /\ x = conf.d_offset /\ at = n + x
    OBVIOUS
  <2> HIDE DEF l, n, nwrong, first, new
  <2>1a. half \in Nat
    <3>1. \A i \in Nat : i \div 2 \in Nat
      OBVIOUS
    <3> QED  BY <1>2, <3>1
  <2>1b. at \in Int
    BY <1>1
  <2>2a. new = [found |-> TRUE, current_best |-> nwrong, start_idx |-> at, look_ahead |-> half, done |-> d]
    BY <1>6
  <2>2. new \in StateType
    BY <1>3, <2>1a, <2>1b, <2>2a DEF StateType
  <2>3. new.found /\ new.current_best = nwrong /\ new.start_idx = n + conf.d_offset /\ new.look_ahead = l \div 2
    BY <2>2a
  <2>4a. new.done = d
    BY ONLY <2>2a
  <2>4. new.done <=> first \/ nwrong = 0
    BY ONLY <2>4a, d = (first \/ nwrong = 0), d \in BOOLEAN
  <2> USE DEF l, n, nwrong, first
  <2>5. \A o \in G : o.end < n => o.nwrong > nwrong
    BY <1>3, <1>4, <1>6 DEF Reached, StateType
  <2>6. ASSUME NEW o \in G, o.end < n \/ (o.end = n /\ o.word <= s)
        PROVE  o.nwrong >= nwrong
    <3>1. CASE o.end < n \/ (o.end = n /\ o.word <= s - 1)
      BY <1>3, <1>4, <1>6, <3>1 DEF Reached, StateType
    <3>2. CASE o.end = n /\ o.word = s
      BY <1>3, <1>4, <3>2
    <3> QED  BY <1>1, <1>4, <2>6, <3>1, <3>2
  <2>7. hit.end = n /\ hit.word = s /\ hit.nwrong = nwrong
    OBVIOUS
  <2>8. first => \A o \in G : o.end >= n
    BY DEF Reached
  <2> HIDE DEF new, hit, nwrong, G
  <2>9. \E m \in G :
       /\ m.end <= n /\ new.start_idx = m.end + conf.d_offset /\ new.current_best = m.nwrong
       /\ new.look_ahead = Len(conf.syncwords[m.word]) \div 2
       /\ \A o \in G : o.end < m.end => o.nwrong > m.nwrong
       /\ first => m.end = n
    <3>1. n <= n
      BY <1>1
    <3> WITNESS hit \in G
    <3> QED  BY <2>3, <2>5, <2>7, <3>1
  <2>10. Reached(G, conf, new, n, s)
    BY <2>3, <2>4, <2>6, <2>8, <2>9 DEF Reached
  <2> QED  BY <2>2, <2>10 DEF G, new
<1> QED
  <2>1. n < l <=> bit_idx < l - 1
    BY <1>2
  <2>2. nwrong > conf.d_threshold <=> ~(nwrong <= conf.d_threshold)
    BY <1>1, <1>3
  <2>3. nwrong >= st.current_best <=> ~(nwrong < st.current_best)
    BY <1>3 DEF StateType
  <2>4. n < l <=> ~(n >= l)
    BY <1>1, <1>2
  <2> QED  BY <1>5, <1>6, <2>1, <2>2, <2>3, <2>4 DEF AL!Compare

(* The equation that defines what is known after each syncword.            *)
AfterBody(f, l) == [s \in 0..l |-> IF s = 0 THEN AL!State ELSE AL!Compare(f[s - 1], s)]

(* The comparisons with the words so far are well defined.                 *)
LEMMA AfterExists ==
  ASSUME NEW l \in Nat
  PROVE  \E f : f = AfterBody(f, l)
<1> DEFINE T == {k \in Nat : \E f : f = AfterBody(f, k)}
           step(h, i) == IF i = 0 THEN AL!State ELSE AL!Compare(h[i - 1], i)
<1>1. 0 \in T
  <2> DEFINE f == [i \in 0..0 |-> AL!State]
  <2>1. f = AfterBody(f, 0)
    BY DEF AfterBody
  <2> QED  BY <2>1
<1>2. ASSUME NEW k \in 0..l, k \in T, k < l
      PROVE  k + 1 \in T
  <2>1. PICK f : f = AfterBody(f, k)
    BY <1>2
  <2> PICK last : last = step(f, k + 1)
    OBVIOUS
  <2> DEFINE g == [i \in 0..(k + 1) |-> IF i = k + 1 THEN last ELSE f[i]]
  <2>2. \A i \in 0..k : f[i] = step(f, i)
    BY <2>1 DEF AfterBody
  <2>3. \A i \in 0..(k + 1) : g[i] = step(g, i)
    <3> TAKE i \in 0..(k + 1)
    <3>1. CASE i = k + 1
      <4>1. (k + 1) - 1 = k /\ k \in 0..(k + 1) /\ k # k + 1 /\ k + 1 # 0
        BY <1>2
      <4>2. g[i] = last /\ g[i - 1] = f[k]
        BY <3>1, <4>1
      <4> QED  BY <3>1, <4>1, <4>2
    <3>2. CASE i # k + 1
      <4>1. i \in 0..k /\ (i # 0 => i - 1 \in 0..(k + 1) /\ i - 1 # k + 1)
        BY <1>2, <3>2
      <4>2. g[i] = f[i] /\ (i # 0 => g[i - 1] = f[i - 1])
        BY <3>2, <4>1
      <4> QED  BY <2>2, <4>1, <4>2
    <3> QED  BY <3>1, <3>2
  <2> HIDE DEF step
  <2>4. g = [i \in 0..(k + 1) |-> step(g, i)]
    BY <2>3
  <2>5. g = AfterBody(g, k + 1)
    BY <2>4 DEF AfterBody, step
  <2> QED  BY <1>2, <2>5
<1> HIDE DEF T, step
<1>3. l \in T
  BY <1>1, <1>2, UpTo
<1> QED  BY <1>3 DEF T

(* The syncwords compared in turn with the next bit.                       *)
LEMMA TurnDone ==
  ASSUME conf \in AL!Confs, Len(data) \in Nat, bit_idx \in Nat, bit_idx < Len(data),
         AL!State \in StateType, Reached(AL!Good, conf, AL!State, bit_idx + 1, 0)
  PROVE  /\ AL!Compared \in StateType
         /\ Reached(AL!Good, conf, AL!Compared, bit_idx + 1, Len(conf.syncwords))
<1> DEFINE l == Len(conf.syncwords)
           F == CHOOSE f : f = AfterBody(f, l)
           T == {s \in 0..l : F[s] \in StateType /\ Reached(AL!Good, conf, F[s], bit_idx + 1, s)}
<1>1. l \in Nat
  BY DEF AL!Confs
<1>2. F = AfterBody(F, l)
  BY <1>1, AfterExists
<1>3. AL!Compared = F[l]
  BY DEF AL!Compared, AfterBody
<1> HIDE DEF F
<1>4. F[0] = AL!State /\ \A s \in 1..l : F[s] = AL!Compare(F[s - 1], s)
  <2>1. 0 \in 0..l /\ \A s \in 1..l : s \in 0..l /\ s # 0
    BY <1>1
  <2> QED  BY <1>2, <2>1 DEF AfterBody
<1>5. 0 \in T
  BY <1>1, <1>4
<1>6. ASSUME NEW s \in 0..l, s \in T, s < l PROVE s + 1 \in T
  <2>1. s + 1 \in 1..l /\ (s + 1) - 1 = s /\ s + 1 \in 0..l
    BY <1>1, <1>6
  <2>2. F[s + 1] = AL!Compare(F[s], s + 1)
    BY <1>4, <2>1
  <2>3. F[s] \in StateType /\ Reached(AL!Good, conf, F[s], bit_idx + 1, (s + 1) - 1)
    BY <1>6, <2>1
  <2> PICK st : st = F[s]
    OBVIOUS
  <2>4. AL!Compare(st, s + 1) \in StateType /\ Reached(AL!Good, conf, AL!Compare(st, s + 1), bit_idx + 1, s + 1)
    BY <2>1, <2>3, CompareStep
  <2> QED  BY <2>1, <2>2, <2>4
<1> HIDE DEF T
<1>7. l \in T
  <2>1. l \in 0..l /\ 0 \in Nat
    BY <1>1
  <2>2. \A s \in 0..l : s \in T => (s < l => s + 1 \in T)
    BY <1>6
  <2> HIDE DEF l
  <2>3. \A s \in 0..l : s \in T
    BY ONLY <1>1, <1>5, <2>1, <2>2, UpTo
  <2> QED  BY <2>1, <2>3
<1> QED  BY <1>3, <1>7 DEF T

Outcomes == {AL!Open, AL!Cut, AL!Drop, AL!Forward, AL!Empty}

(* While it goes on the search is about the best match so far.             *)
AlignInv ==
  /\ conf \in AL!Confs /\ Len(data) \in Nat /\ bit_idx \in 0..Len(data)
  /\ found \in BOOLEAN /\ current_best \in Nat /\ start_idx \in Int /\ look_ahead \in Nat
  /\ outcome = AL!Open => Reached(AL!Good, conf, AL!State, bit_idx + 1, 0)
  /\ AL!CutAtMatch /\ AL!BestNearby

(* A search that found something and ended after the bits up to n, if it   *)
(* went far enough, has the match to cut at.                               *)
CutFound(G, c, st, n, s) ==
  \E m \in G :
    /\ st.start_idx = m.end + c.d_offset
    /\ c.d_match_mode = AL!First => \A o \in G : m.end <= o.end
    /\ /\ c.d_match_mode = AL!Best
       /\ \/ st.done
          \/ \A o \in G : o.end <= (st.start_idx - c.d_offset) + st.look_ahead =>
               o.end < n \/ (o.end = n /\ o.word <= s)
       => \A o \in G :
           /\ o.end < m.end => o.nwrong > m.nwrong
           /\ o.end <= m.end + Len(c.syncwords[m.word]) \div 2 => o.nwrong >= m.nwrong

(* A cut where the search stands is a right one.                           *)
LEMMA CutRight ==
  ASSUME conf \in AL!Confs, Len(data) \in Nat, NEW st \in StateType, NEW n \in Nat, NEW s \in Nat,
         Reached(AL!Good, conf, st, n, s), st.found
  PROVE  CutFound(AL!Good, conf, st, n, s)
<1>1. PICK m \in AL!Good :
         /\ m.end <= n /\ st.start_idx = m.end + conf.d_offset /\ st.current_best = m.nwrong
         /\ st.look_ahead = Len(conf.syncwords[m.word]) \div 2
         /\ \A o \in AL!Good : o.end < m.end => o.nwrong > m.nwrong
         /\ conf.d_match_mode = AL!First => m.end = n
  BY DEF Reached
<1>2. conf.d_match_mode = AL!First => \A o \in AL!Good : m.end <= o.end
  BY <1>1 DEF Reached
<1>3. /\ conf.d_offset \in Int /\ Len(conf.syncwords) \in Nat
      /\ \A o \in AL!Good : o.nwrong \in Nat /\ o.end \in Nat
  BY GoodMatches DEF AL!Confs
<1>4. AL!First # AL!Best
  BY DEF AL!First, AL!Best
<1>5. ASSUME conf.d_match_mode = AL!Best,
             \/ st.done
             \/ \A o \in AL!Good : o.end <= (st.start_idx - conf.d_offset) + st.look_ahead =>
                  o.end < n \/ (o.end = n /\ o.word <= s),
             NEW o \in AL!Good,
             o.end <= m.end + Len(conf.syncwords[m.word]) \div 2
      PROVE  o.nwrong >= m.nwrong
  <2>1. CASE st.done
    <3>1. m.nwrong = 0
      BY <1>1, <1>4, <1>5, <2>1 DEF Reached
    <3> QED  BY <1>3, <3>1
  <2>2. CASE ~st.done
    <3>1. (st.start_idx - conf.d_offset) + st.look_ahead = m.end + Len(conf.syncwords[m.word]) \div 2
      <4> PICK e, x : e = m.end /\ x = conf.d_offset
        OBVIOUS
      <4>1. (e + x) - x = e
        BY <1>3
      <4> QED  BY <1>1, <4>1
    <3>2. o.end < n \/ (o.end = n /\ o.word <= s)
      BY <1>5, <2>2, <3>1
    <3> QED  BY <1>1, <2>2, <3>2 DEF Reached
  <2> QED  BY <2>1, <2>2
<1> QED  BY <1>1, <1>2, <1>5 DEF CutFound

(* The search takes the next bit of the PDU, and may end.                  *)
LEMMA TakeBitStep == ASSUME AlignInv, AL!TakeBit PROVE AlignInv'
<1> PICK st, n, nw, G, c : st = AL!Compared /\ n = bit_idx + 1 /\ nw = Len(conf.syncwords) /\ G = AL!Good /\ c = conf
  OBVIOUS
<1>1. /\ outcome = AL!Open /\ bit_idx < Len(data) /\ bit_idx' = n /\ conf' = conf /\ data' = data
      /\ found' = st.found /\ current_best' = st.current_best
      /\ start_idx' = st.start_idx /\ look_ahead' = st.look_ahead
      /\ outcome' = IF AL!Decided(st) THEN AL!Cut ELSE AL!Open
  BY DEF AL!TakeBit
<1>2. /\ conf \in AL!Confs /\ Len(data) \in Nat /\ bit_idx \in Nat /\ n \in 1..Len(data) /\ n \in Nat
      /\ nw \in Nat /\ c.d_offset \in Int
  BY <1>1 DEF AlignInv, AL!Confs
<1>3. AL!State \in StateType
  BY DEF AL!State, StateType, AlignInv
<1>4. st \in StateType /\ Reached(G, c, st, n, nw)
  BY <1>1, <1>2, <1>3, TurnDone DEF AlignInv
<1>5. AL!Good' = G
  BY <1>1 DEF AL!Good, AL!Matches, AL!NWrong
<1>6. \A o \in G : o.end \in Nat /\ o.nwrong \in Nat /\ o.word \in 1..nw /\ o.nwrong <= c.d_threshold
  BY <1>2, GoodMatches
<1>7. c.d_threshold \in Nat
  BY <1>2 DEF AL!Confs
<1>8. AL!Open # AL!Cut /\ AL!First # AL!Best
  BY DEF AL!Open, AL!Cut, AL!First, AL!Best
<1>9. CASE AL!Decided(st)
  <2>1. st.found
    BY <1>4, <1>9 DEF AL!Decided, Reached
  <2>2. outcome' = AL!Cut
    BY <1>1, <1>9
  <2>3a. CutFound(G, c, st, n, nw)
    BY <1>2, <1>4, <2>1, CutRight
  <2>3. PICK m \in G :
           /\ st.start_idx = m.end + c.d_offset
           /\ c.d_match_mode = AL!First => \A o \in G : m.end <= o.end
           /\ /\ c.d_match_mode = AL!Best
              /\ \/ st.done
                 \/ \A o \in G : o.end <= (st.start_idx - c.d_offset) + st.look_ahead =>
                      o.end < n \/ (o.end = n /\ o.word <= nw)
              => \A o \in G :
                  /\ o.end < m.end => o.nwrong > m.nwrong
                  /\ o.end <= m.end + Len(c.syncwords[m.word]) \div 2 => o.nwrong >= m.nwrong
    BY <2>3a DEF CutFound
  <2>4. AL!CutAtMatch'
    BY <1>1, <1>5, <2>2, <2>3 DEF AL!CutAtMatch, AL!CutAt
  <2>5. ASSUME c.d_match_mode = AL!Best, c.d_offset = 0
        PROVE  \/ st.done
               \/ \A o \in G : o.end <= (st.start_idx - c.d_offset) + st.look_ahead =>
                      o.end < n \/ (o.end = n /\ o.word <= nw)
    <3>1. st.done \/ bit_idx > st.start_idx + st.look_ahead
      BY <1>9 DEF AL!Decided
    <3>2. st.start_idx \in Int /\ st.look_ahead \in Nat
      BY <1>4 DEF StateType
    <3> QED  BY <1>2, <1>6, <2>5, <3>1, <3>2
  <2>6. AL!BestNearby'
    BY <1>1, <1>5, <2>2, <2>3, <2>5 DEF AL!BestNearby, AL!CutAt
  <2>7. outcome' # AL!Open
    BY <1>8, <2>2
  <2> QED  BY <1>1, <1>2, <1>4, <2>4, <2>6, <2>7 DEF AlignInv, StateType
<1>10. CASE ~AL!Decided(st)
  <2>1. outcome' = AL!Open
    BY <1>1, <1>10
  <2>2. ~st.done
    BY <1>10 DEF AL!Decided
  <2> PICK new : new = [found |-> st.found, current_best |-> st.current_best, start_idx |-> st.start_idx,
                        look_ahead |-> st.look_ahead, done |-> FALSE]
    OBVIOUS
  <2>3. AL!State' = new
    BY <1>1 DEF AL!State
  <2>4. /\ new.found = st.found /\ new.current_best = st.current_best /\ new.start_idx = st.start_idx
        /\ new.look_ahead = st.look_ahead /\ new.done = FALSE
    OBVIOUS
  <2>5. st.current_best \in Nat
    BY <1>4 DEF StateType
  <2>6. \A o \in G : o.end < n + 1 => o.nwrong >= st.current_best
    <3> TAKE o \in G
    <3>1. o.end < n + 1 => o.end < n \/ (o.end = n /\ o.word <= nw)
      BY <1>2, <1>6
    <3> QED  BY <1>4, <2>2, <3>1 DEF Reached
  <2>7. ASSUME c.d_match_mode = AL!First
        PROVE  ~st.found /\ \A o \in G : o.end >= n + 1
    <3>1. ~st.found
      BY <1>4, <2>2, <2>7 DEF Reached
    <3>2. st.current_best = c.d_threshold + 1
      BY <1>4, <3>1 DEF Reached
    <3>3. \A o \in G : ~(o.end < n + 1)
      BY <1>6, <1>7, <2>6, <3>2
    <3> QED  BY <1>2, <1>6, <3>1, <3>3
  <2>8. Reached(G, c, new, n + 1, 0)
    <3>1. new.found => \E m \in G :
       /\ m.end <= n + 1 /\ new.start_idx = m.end + c.d_offset /\ new.current_best = m.nwrong
       /\ new.look_ahead = Len(c.syncwords[m.word]) \div 2
       /\ \A o \in G : o.end < m.end => o.nwrong > m.nwrong
       /\ c.d_match_mode = AL!First => m.end = n + 1
      <4> SUFFICES ASSUME st.found PROVE \E m \in G :
             /\ m.end <= n + 1 /\ st.start_idx = m.end + c.d_offset /\ st.current_best = m.nwrong
             /\ st.look_ahead = Len(c.syncwords[m.word]) \div 2
             /\ \A o \in G : o.end < m.end => o.nwrong > m.nwrong
             /\ c.d_match_mode = AL!First => m.end = n + 1
        BY <2>4
      <4>1. PICK m \in G :
             /\ m.end <= n /\ st.start_idx = m.end + c.d_offset /\ st.current_best = m.nwrong
             /\ st.look_ahead = Len(c.syncwords[m.word]) \div 2
             /\ \A o \in G : o.end < m.end => o.nwrong > m.nwrong
        BY <1>4 DEF Reached
      <4>2. m.end <= n + 1
        BY <1>2, <1>6, <4>1
      <4> QED  BY <2>7, <4>1, <4>2
    <3>2. ~new.found => new.current_best = c.d_threshold + 1 /\ ~new.done
      BY <1>4, <2>4 DEF Reached
    <3>3. \A o \in G : o.end < n + 1 \/ (o.end = n + 1 /\ o.word <= 0) =>
             o.nwrong >= new.current_best \/ (new.done /\ c.d_match_mode = AL!First)
      <4>1. \A o \in G : ~(o.word <= 0)
        BY <1>2, <1>6
      <4> QED  BY <2>4, <2>6, <4>1
    <3>4. c.d_match_mode = AL!First => (new.found => new.done) /\ \A o \in G : o.end >= n + 1
      BY <2>4, <2>7
    <3>5. new.done => new.found /\ (c.d_match_mode = AL!First \/ new.current_best = 0)
      BY <2>4
    <3> QED  BY <3>1, <3>2, <3>3, <3>4, <3>5 DEF Reached
  <2>9. Reached(AL!Good, conf, AL!State, bit_idx + 1, 0)'
    BY <1>1, <1>5, <2>3, <2>8
  <2>10. AL!CutAtMatch' /\ AL!BestNearby'
    BY <2>1 DEF AL!CutAtMatch, AL!BestNearby
  <2> QED  BY <1>1, <1>2, <1>4, <2>9, <2>10 DEF AlignInv, StateType
<1> QED  BY <1>9, <1>10

(* The bits are used up: the PDU is cut where the search says, if it does. *)
LEMMA ConcludeStep == ASSUME AlignInv, AL!Conclude PROVE AlignInv'
<1> PICK st, n, G, c : st = AL!State /\ n = bit_idx + 1 /\ G = AL!Good /\ c = conf
  OBVIOUS
<1>1. /\ outcome = AL!Open /\ bit_idx = Len(data) /\ outcome' = IF found THEN AL!Cut ELSE conf.d_mode
      /\ conf' = conf /\ data' = data /\ bit_idx' = bit_idx /\ found' = found
      /\ current_best' = current_best /\ start_idx' = start_idx /\ look_ahead' = look_ahead
  BY DEF AL!Conclude
<1>2. conf \in AL!Confs /\ Len(data) \in Nat /\ n \in Nat /\ 0 \in Nat /\ c.d_threshold \in Nat
  BY <1>1 DEF AlignInv, AL!Confs
<1>3. st \in StateType /\ Reached(G, c, st, n, 0)
  BY <1>1 DEF AlignInv, AL!State, StateType
<1>4. st.found = found /\ st.start_idx = start_idx /\ st.look_ahead = look_ahead /\ st.done = FALSE
      /\ st.current_best = current_best
  BY DEF AL!State
<1>5. AL!Good' = G
  BY <1>1 DEF AL!Good, AL!Matches, AL!NWrong
<1>6. \A o \in G : o.end < n /\ o.nwrong \in Nat /\ o.nwrong <= c.d_threshold
  BY <1>1, <1>2, GoodMatches
<1>7. outcome' # AL!Open
  BY <1>1, <1>2 DEF AL!Confs, AL!Open, AL!Cut, AL!Drop, AL!Forward, AL!Empty
<1>8. CASE found
  <2>1. outcome' = AL!Cut
    BY <1>1, <1>8
  <2>2a. CutFound(G, c, st, n, 0)
    BY <1>2, <1>3, <1>4, <1>8, CutRight
  <2>2. PICK m \in G :
           /\ st.start_idx = m.end + c.d_offset
           /\ c.d_match_mode = AL!First => \A o \in G : m.end <= o.end
           /\ /\ c.d_match_mode = AL!Best
              /\ \/ st.done
                 \/ \A o \in G : o.end <= (st.start_idx - c.d_offset) + st.look_ahead =>
                      o.end < n \/ (o.end = n /\ o.word <= 0)
              => \A o \in G :
                  /\ o.end < m.end => o.nwrong > m.nwrong
                  /\ o.end <= m.end + Len(c.syncwords[m.word]) \div 2 => o.nwrong >= m.nwrong
    BY <2>2a DEF CutFound
  <2>3. AL!CutAtMatch'
    BY <1>1, <1>4, <1>5, <2>1, <2>2 DEF AL!CutAtMatch, AL!CutAt
  <2>4. AL!BestNearby'
    BY <1>1, <1>4, <1>5, <1>6, <2>1, <2>2 DEF AL!BestNearby, AL!CutAt
  <2> QED  BY <1>1, <1>7, <2>3, <2>4 DEF AlignInv
<1>9. CASE ~found
  <2>1. G = {}
    <3>1. st.current_best = c.d_threshold + 1 /\ ~st.done
      BY <1>3, <1>4, <1>9 DEF Reached
    <3>2. \A o \in G : o.nwrong >= st.current_best
      BY <1>3, <1>6, <3>1 DEF Reached
    <3> QED  BY <1>2, <1>6, <3>1, <3>2
  <2>2. AL!CutAtMatch'
    BY <1>1, <1>5, <1>9, <2>1 DEF AL!CutAtMatch
  <2>3. AL!BestNearby'
    BY <1>5, <2>1 DEF AL!BestNearby
  <2> QED  BY <1>1, <1>7, <2>2, <2>3 DEF AlignInv
<1> QED  BY <1>8, <1>9 DEF AlignInv

(* The invariant of pdu_align holds at first.                              *)
LEMMA AlignInit == ASSUME AL!AlignAssumption, AL!Init PROVE AlignInv
<1>1. conf \in AL!Confs
  BY DEF AL!Init, AL!AlignAssumption
<1>2. /\ bit_idx = 0 /\ found = FALSE /\ current_best = conf.d_threshold + 1 /\ start_idx = 0
      /\ look_ahead = Len(conf.syncwords[1]) \div 2 /\ outcome = AL!Open
  BY DEF AL!Init
<1>3. PICK n \in Nat : data \in [1..n -> AL!Bit]
  BY DEF AL!Init, AL!AlignAssumption
<1>4. Len(data) = n
  <2>1. data \in Seq(AL!Bit)
    BY <1>3, SeqDef
  <2> QED  BY <1>3, <2>1, LenProperties
<1>5. conf.d_threshold \in Nat /\ conf.syncwords # <<>> /\ conf.syncwords \in Seq(Seq(AL!Bit))
  BY <1>1 DEF AL!Confs, AL!Init, AL!AlignAssumption
<1>6. look_ahead \in Nat
  <2>1. Len(conf.syncwords[1]) \in Nat
    <3>1. 1 \in 1..Len(conf.syncwords)
      BY <1>5, EmptySeq, LenProperties
    <3> QED  BY <1>5, <3>1, ElementOfSeq, LenProperties
  <2>2. \A i \in Nat : i \div 2 \in Nat
    OBVIOUS
  <2> QED  BY <1>2, <2>1, <2>2
<1>7. AL!State.found = FALSE /\ AL!State.current_best = conf.d_threshold + 1 /\ AL!State.done = FALSE
  BY <1>2 DEF AL!State
<1>8. \A o \in AL!Good : o.end >= 1 /\ o.word >= 1
  <2>1. Len(conf.syncwords) \in Nat
    BY <1>5, LenProperties
  <2> QED  BY <1>1, <1>3, <1>4, <2>1, GoodMatches
<1>9. Reached(AL!Good, conf, AL!State, bit_idx + 1, 0)
  <2> PICK st, G : st = AL!State /\ G = AL!Good
    OBVIOUS
  <2>1. \A o \in G : o.end \in Nat /\ o.word \in Nat
    <3>1. Len(conf.syncwords) \in Nat
      BY <1>5, LenProperties
    <3> QED  BY <1>1, <1>3, <1>4, <3>1, GoodMatches
  <2>2. \A o \in G : ~(o.end < 1) /\ ~(o.word <= 0) /\ o.end >= 1
    BY <1>8, <2>1
  <2>3. ~st.found /\ ~st.done /\ st.current_best = conf.d_threshold + 1
    BY <1>7
  <2>4. Reached(G, conf, st, 1, 0)
    BY <2>2, <2>3 DEF Reached
  <2>5. bit_idx + 1 = 1
    BY <1>2
  <2> QED  BY <2>4, <2>5
<1>10. AL!CutAtMatch /\ AL!BestNearby
  BY <1>2 DEF AL!CutAtMatch, AL!BestNearby
<1>11. bit_idx \in 0..Len(data) /\ current_best \in Nat /\ start_idx \in Int
  <2>1. conf.d_threshold + 1 \in Nat
    BY <1>5
  <2>2. 0 \in 0..n
    BY <1>3
  <2> QED  BY <1>2, <1>4, <2>1, <2>2
<1>12. found \in BOOLEAN
  BY <1>2
<1> QED  BY <1>1, <1>3, <1>4, <1>6, <1>9, <1>10, <1>11, <1>12 DEF AlignInv

(* Nothing happens.                                                        *)
LEMMA AlignIdle == ASSUME AlignInv, UNCHANGED ALvars PROVE AlignInv'
<1>1. /\ conf' = conf /\ data' = data /\ bit_idx' = bit_idx /\ found' = found
      /\ current_best' = current_best /\ start_idx' = start_idx /\ look_ahead' = look_ahead /\ outcome' = outcome
  BY DEF ALvars
<1>2. AL!Good' = AL!Good /\ AL!State' = AL!State
  BY <1>1 DEF AL!Good, AL!Matches, AL!NWrong, AL!State
<1> QED  BY <1>1, <1>2 DEF AlignInv, AL!CutAtMatch, AL!BestNearby, AL!CutAt

(* pdu_align keeps its invariant.                                          *)
LEMMA AlignInvariant == BlocksSpec => [](block = "pdu_align" => AlignInv)
<1> DEFINE I == block = "pdu_align" => AlignInv
<1>1. BlocksInit => I
  BY AlignInit, BlockBegins, BlockAssumptions
<1>2. I /\ [BlocksNext]_allvars => I'
  BY TakeBitStep, ConcludeStep, AlignIdle, BlockSteps DEF AL!Next
<1> QED  BY <1>1, <1>2, PTL DEF BlocksSpec

(* pdu_align cuts a PDU at a match if it has any, in the first match mode  *)
(* at the first, for any syncwords, threshold, offset and bits.            *)
THEOREM AlwaysCutAtMatch == BlocksSpec => []CutAtMatch
<1>1. (block = "pdu_align" => AlignInv) => CutAtMatch
  BY DEF AlignInv, CutAtMatch
<1> QED  BY <1>1, AlignInvariant, PTL

(* In the best match mode, none that ends within half a syncword of the    *)
(* match that pdu_align chose is better, and an earlier one is worse.      *)
THEOREM AlwaysBestNearby == BlocksSpec => []BestNearby
<1>1. (block = "pdu_align" => AlignInv) => BestNearby
  BY DEF AlignInv, BestNearby
<1> QED  BY <1>1, AlignInvariant, PTL

-----------------------------------------------------------------------------
(* Interpolated bits                                                       *)

Bytes == 0..255
Values == (0..255) \cup {-1}

(* The first n of the interpolated bits of a word.                         *)
RenderedTo(word, n, interp, nrz) == [i \in 1..n |-> PP!Value(word[((i - 1) \div interp) + 1], nrz)]

(* A multiple of the divisor more.                                         *)
LEMMA WholeShift ==
  ASSUME NEW x \in Nat, NEW k \in Nat, NEW q \in Nat \ {0}
  PROVE  (x + k * q) \div q = (x \div q) + k
<1> PICK y, b : y = x \div q /\ b = x - y * q
  OBVIOUS
<1>1. y \in Nat /\ b \in Nat /\ b < q /\ x = y * q + b
  <2>1. y \in Int /\ y * q <= x /\ x < y * q + q
    OBVIOUS
  <2>2. y >= 0
    <3>1. ASSUME y <= -1 PROVE y * q + q <= 0
      <4>1. (y + 1) * q <= 0 * q
        BY ONLY <2>1, <3>1, q \in Nat \ {0}
      <4>2. (y + 1) * q = y * q + q /\ 0 * q = 0
        BY <2>1
      <4> QED  BY <4>1, <4>2
    <3> QED  BY <2>1, <3>1
  <2>3. y * q \in Int
    BY <2>1
  <2> QED  BY <2>1, <2>2, <2>3
<1>2. (y + k) * q = y * q + k * q /\ y * q \in Nat /\ k * q \in Nat /\ y + k \in Nat
  BY <1>1
<1>3. x + k * q = (y + k) * q + b
  BY <1>1, <1>2
<1>4. ((y + k) * q + b) \div q = y + k
  BY ONLY <1>1, <1>2, q \in Nat \ {0}, Divided
<1> QED  BY <1>3, <1>4

(* The bit that interpolated bit i comes from.                             *)
LEMMA BitOf ==
  ASSUME NEW n \in Nat, NEW interp \in Nat, NEW i \in 1..(n * interp)
  PROVE  interp # 0 /\ ((i - 1) \div interp) + 1 \in 1..n
<1>1. interp # 0
  <2>1. n * 0 = 0
    OBVIOUS
  <2> QED  BY <2>1
<1> PICK y : y = (i - 1) \div interp
  OBVIOUS
<1>2. n * interp \in Nat
  OBVIOUS
<1>3. y \in Int /\ y * interp <= i - 1 /\ i - 1 < y * interp + interp /\ i - 1 < n * interp /\ i - 1 >= 0
  BY <1>1, <1>2
<1>4. y >= 0
  <2>1. ASSUME y <= -1 PROVE y * interp + interp <= 0
    <3>1. (y + 1) * interp <= 0 * interp
      BY ONLY <1>1, <1>3, <2>1, interp \in Nat
    <3>2. (y + 1) * interp = y * interp + interp /\ 0 * interp = 0
      BY <1>3
    <3> QED  BY <3>1, <3>2
  <2>2. y * interp \in Int
    BY <1>3
  <2> QED  BY <1>3, <2>1, <2>2
<1>5. y < n
  <2>1. ASSUME y >= n PROVE y * interp >= n * interp
    BY ONLY <1>3, <2>1, interp \in Nat, n \in Nat
  <2>2. y * interp \in Int
    BY <1>3
  <2> QED  BY <1>2, <1>3, <2>1, <2>2
<1> QED  BY <1>1, <1>3, <1>4, <1>5

(* A word rendered is a sequence of values, interp times as long.          *)
LEMMA RenderedType ==
  ASSUME NEW word \in Seq(Bytes), NEW interp \in Nat, NEW nrz \in BOOLEAN
  PROVE  /\ PP!Rendered(word, interp, nrz) \in Seq(Values)
         /\ Len(PP!Rendered(word, interp, nrz)) = Len(word) * interp
<1>1. Len(word) \in Nat /\ Len(word) * interp \in Nat
  <2>1. Len(word) \in Nat
    BY LenProperties
  <2> QED  BY <2>1
<1>2. ASSUME NEW i \in 1..(Len(word) * interp)
      PROVE  PP!Value(word[((i - 1) \div interp) + 1], nrz) \in Values
  <2>1. ((i - 1) \div interp) + 1 \in 1..Len(word)
    BY <1>1, BitOf
  <2>2. word[((i - 1) \div interp) + 1] \in 0..255
    BY <2>1, ElementOfSeq DEF Bytes
  <2> QED  BY <2>2 DEF PP!Value, Values
<1>3. PP!Rendered(word, interp, nrz) \in [1..(Len(word) * interp) -> Values]
  BY <1>2 DEF PP!Rendered
<1>4. PP!Rendered(word, interp, nrz) \in Seq(Values)
  BY <1>1, <1>3, SeqDef
<1> QED  BY <1>1, <1>3, <1>4, LenProperties

(* Words rendered one by one, and as one.                                  *)
LEMMA RenderedJoin ==
  ASSUME NEW a \in Seq(Bytes), NEW b \in Seq(Bytes), NEW interp \in Nat, NEW nrz \in BOOLEAN
  PROVE  PP!Rendered(a \o b, interp, nrz) = PP!Rendered(a, interp, nrz) \o PP!Rendered(b, interp, nrz)
<1> PICK l, m, ab, x, y, whole : /\ l = Len(a) /\ m = Len(b) /\ ab = a \o b
      /\ x = PP!Rendered(a, interp, nrz) /\ y = PP!Rendered(b, interp, nrz)
      /\ whole = PP!Rendered(ab, interp, nrz)
  OBVIOUS
<1>1. /\ l \in Nat /\ m \in Nat /\ ab \in Seq(Bytes) /\ Len(ab) = l + m
      /\ (\A i \in 1..l : ab[i] = a[i]) /\ \A i \in (l + 1)..(l + m) : ab[i] = b[i - l]
  <2>1. /\ a \o b \in Seq(Bytes) /\ Len(a \o b) = Len(a) + Len(b)
        /\ \A i \in 1..Len(a) : (a \o b)[i] = a[i]
        /\ \A i \in (Len(a) + 1)..(Len(a) + Len(b)) : (a \o b)[i] = b[i - Len(a)]
    BY ConcatProperties
  <2> QED  BY <2>1, LenProperties
<1>2. /\ x \in Seq(Values) /\ Len(x) = l * interp /\ y \in Seq(Values) /\ Len(y) = m * interp
      /\ whole \in Seq(Values) /\ Len(whole) = (l + m) * interp
  BY <1>1, RenderedType
<1>3. l * interp \in Nat /\ m * interp \in Nat /\ (l + m) * interp = l * interp + m * interp
  BY <1>1
<1> PICK u, v : u = l * interp /\ v = m * interp
  OBVIOUS
<1>4. /\ x \o y \in Seq(Values) /\ Len(x \o y) = u + v
      /\ (\A i \in 1..u : (x \o y)[i] = x[i]) /\ \A i \in (u + 1)..(u + v) : (x \o y)[i] = y[i - u]
  <2>1. /\ x \o y \in Seq(Values) /\ Len(x \o y) = Len(x) + Len(y)
        /\ (\A i \in 1..Len(x) : (x \o y)[i] = x[i])
        /\ \A i \in (Len(x) + 1)..(Len(x) + Len(y)) : (x \o y)[i] = y[i - Len(x)]
    <3>1. x \in Seq(Values) /\ y \in Seq(Values)
      BY <1>2
    <3> HIDE DEF Values
    <3> QED  BY ONLY <3>1, ConcatProperties
  <2>2. Len(x) = u /\ Len(y) = v
    BY <1>2
  <2> QED  BY ONLY <2>1, <2>2
<1>5. ASSUME NEW i \in 1..(u + v)
      PROVE  whole[i] = (x \o y)[i]
  <2> PICK k : k = ((i - 1) \div interp) + 1
    OBVIOUS
  <2>1. whole[i] = PP!Value(ab[k], nrz)
    BY <1>1, <1>3 DEF PP!Rendered
  <2>2. CASE i <= u
    <3>1. i \in 1..(l * interp)
      BY <1>3, <2>2
    <3>2. k \in 1..l
      BY <1>1, <3>1, BitOf
    <3>3. x[i] = PP!Value(a[k], nrz)
      BY <3>1 DEF PP!Rendered
    <3>4. i \in 1..u
      BY <1>3, <2>2
    <3>5. ab[k] = a[k] /\ (x \o y)[i] = x[i]
      BY ONLY <1>1, <1>4, <3>2, <3>4
    <3> QED  BY ONLY <2>1, <3>3, <3>5
  <2>3. CASE ~(i <= u)
    <3> PICK j : j = i - u
      OBVIOUS
    <3>1. u \in Nat /\ v \in Nat /\ j \in 1..v /\ i - 1 = (j - 1) + u /\ j - 1 \in Nat /\ i \in (u + 1)..(u + v)
      BY <1>3, <2>3
    <3>2. interp # 0 /\ ((j - 1) \div interp) + 1 \in 1..m
      BY <1>1, <3>1, BitOf
    <3>3. ((j - 1) + l * interp) \div interp = ((j - 1) \div interp) + l
      BY ONLY <1>1, <3>1, <3>2, WholeShift, interp \in Nat
    <3> PICK d : d = ((j - 1) \div interp) + 1
      OBVIOUS
    <3>4. (j - 1) \div interp = d - 1
      <4>1. (j - 1) \div interp \in Int
        BY <3>1, <3>2
      <4> QED  BY <4>1
    <3>5. k = l + d /\ k \in (l + 1)..(l + m) /\ k - l = d
      <4>1. (i - 1) \div interp = (d - 1) + l
        BY <3>1, <3>3, <3>4
      <4>2. d \in 1..m
        BY <3>2
      <4>3. k = ((d - 1) + l) + 1
        BY <4>1
      <4> QED  BY ONLY <1>1, <4>2, <4>3
    <3>6. y[j] = PP!Value(b[d], nrz)
      BY <3>1 DEF PP!Rendered
    <3>7. ab[k] = b[d] /\ (x \o y)[i] = y[j]
      <4>1. ab[k] = b[k - l] /\ (x \o y)[i] = y[i - u]
        BY ONLY <1>1, <1>4, <3>1, <3>5
      <4> QED  BY <3>5, <4>1
    <3> QED  BY ONLY <2>1, <3>6, <3>7
  <2> QED  BY <2>2, <2>3
<1>6. whole = x \o y
  <2>1. Len(whole) = u + v
    BY <1>2, <1>3
  <2>2. \A i \in 1..Len(whole) : whole[i] = (x \o y)[i]
    BY <1>5, <2>1
  <2> PICK z : z = x \o y
    OBVIOUS
  <2>3. z \in Seq(Values) /\ whole \in Seq(Values) /\ Len(z) = Len(whole) /\ \A i \in 1..Len(whole) : whole[i] = z[i]
    BY <1>2, <1>4, <2>1, <2>2
  <2>4. whole = z
    BY ONLY <2>3, SeqEqual
  <2> QED  BY <2>4
<1> QED  BY <1>6

(* A loop that has rendered at - 1 whole bits and some copies of the next. *)
Progress(w, out_, interp, nrz, at, copies) ==
  /\ at \in 1..(Len(w) + 1) /\ copies \in 0..interp /\ (at = Len(w) + 1 => copies = 0)
  /\ out_ = RenderedTo(w, (at - 1) * interp + copies, interp, nrz)

(* One more bit of a word rendered.                                        *)
LEMMA RenderNext ==
  ASSUME NEW w, NEW n \in Nat, NEW interp, NEW nrz
  PROVE  Append(RenderedTo(w, n, interp, nrz), PP!Value(w[(n \div interp) + 1], nrz))
           = RenderedTo(w, n + 1, interp, nrz)
<1> DEFINE val(i) == PP!Value(w[((i - 1) \div interp) + 1], nrz)
           X == {val(i) : i \in 1..(n + 1)}
<1> PICK x, y, v : x = RenderedTo(w, n, interp, nrz) /\ y = RenderedTo(w, n + 1, interp, nrz) /\ v = val(n + 1)
  OBVIOUS
<1>1. \A i \in 1..(n + 1) : val(i) \in X
  OBVIOUS
<1>2. v = PP!Value(w[(n \div interp) + 1], nrz) /\ v \in X
  <2>1. (n + 1) - 1 = n /\ n + 1 \in 1..(n + 1)
    OBVIOUS
  <2> QED  BY <1>1, <2>1
<1> HIDE DEF X
<1>3. x \in [1..n -> X] /\ y \in [1..(n + 1) -> X]
  <2>1. \A i \in 1..n : i \in 1..(n + 1)
    OBVIOUS
  <2> QED  BY <1>1, <2>1 DEF RenderedTo
<1>4. x \in Seq(X) /\ Len(x) = n /\ y \in Seq(X) /\ Len(y) = n + 1
  <2>1. x \in Seq(X) /\ y \in Seq(X)
    BY <1>3, SeqDef
  <2> QED  BY <1>3, <2>1, LenProperties
<1>5. (\A i \in 1..n : y[i] = x[i]) /\ y[n + 1] = v
  BY DEF RenderedTo
<1> PICK z : z = Append(x, v)
  OBVIOUS
<1>6. z \in Seq(X) /\ Len(z) = n + 1 /\ z[n + 1] = v /\ \A i \in 1..n : z[i] = x[i]
  BY <1>2, <1>4, AppendProperties
<1>7. \A i \in 1..(n + 1) : z[i] = y[i]
  <2>1. \A i \in 1..(n + 1) : i \in 1..n \/ i = n + 1
    OBVIOUS
  <2> QED  BY <1>5, <1>6, <2>1
<1>8. z = y
  BY <1>4, <1>6, <1>7, SeqEqual
<1> QED  BY <1>2, <1>8

(* A loop starts with nothing, appends, goes on to the next bit and ends   *)
(* with the whole word.                                                    *)
LEMMA ProgressStarts ==
  ASSUME NEW w \in Seq(Bytes), NEW interp \in Nat, NEW nrz
  PROVE  Progress(w, <<>>, interp, nrz, 1, 0)
<1>1. Len(w) \in Nat
  BY LenProperties
<1>2. (1 - 1) * interp + 0 = 0
  OBVIOUS
<1>3. RenderedTo(w, 0, interp, nrz) = <<>>
  BY DEF RenderedTo
<1>4. 1 \in 1..(Len(w) + 1) /\ 0 \in 0..interp
  BY <1>1
<1> QED  BY <1>2, <1>3, <1>4 DEF Progress

(* One more copy of a bit.                                                 *)
LEMMA ProgressMore ==
  ASSUME NEW w \in Seq(Bytes), NEW interp \in Nat, NEW nrz, NEW o, NEW at, NEW copies,
         Progress(w, o, interp, nrz, at, copies), at <= Len(w), copies < interp
  PROVE  Progress(w, Append(o, PP!Value(w[at], nrz)), interp, nrz, at, copies + 1)
<1>1. Len(w) \in Nat /\ at \in Nat \ {0} /\ copies \in Nat /\ at \in 1..(Len(w) + 1) /\ copies + 1 \in 0..interp
      /\ at # Len(w) + 1 /\ interp \in Nat \ {0} /\ at - 1 \in Nat
  <2>1. Len(w) \in Nat
    BY LenProperties
  <2> QED  BY <2>1 DEF Progress
<1> PICK n : n = (at - 1) * interp + copies
  OBVIOUS
<1>2. n \in Nat /\ n + 1 = (at - 1) * interp + (copies + 1)
  <2>1. (at - 1) * interp \in Nat
    BY ONLY <1>1
  <2> QED  BY <1>1, <2>1
<1>3. n \div interp = at - 1
  BY ONLY <1>1, copies < interp, n = (at - 1) * interp + copies, Divided
<1>4. (n \div interp) + 1 = at
  BY <1>1, <1>3
<1>5. Append(RenderedTo(w, n, interp, nrz), PP!Value(w[at], nrz)) = RenderedTo(w, n + 1, interp, nrz)
  <2>1. Append(RenderedTo(w, n, interp, nrz), PP!Value(w[(n \div interp) + 1], nrz)) = RenderedTo(w, n + 1, interp, nrz)
    BY ONLY <1>2, RenderNext
  <2> QED  BY ONLY <1>4, <2>1
<1>6. o = RenderedTo(w, n, interp, nrz)
  BY DEF Progress
<1> QED  BY <1>1, <1>2, <1>5, <1>6 DEF Progress

(* All copies of a bit are made.                                           *)
LEMMA ProgressOn ==
  ASSUME NEW w \in Seq(Bytes), NEW interp \in Nat, NEW nrz, NEW o, NEW at, NEW copies,
         Progress(w, o, interp, nrz, at, copies), at <= Len(w), ~(copies < interp)
  PROVE  Progress(w, o, interp, nrz, at + 1, 0)
<1>1. Len(w) \in Nat /\ at \in Nat \ {0} /\ copies = interp /\ at + 1 \in 1..(Len(w) + 1) /\ 0 \in 0..interp
  <2>1. Len(w) \in Nat
    BY LenProperties
  <2> QED  BY <2>1 DEF Progress
<1>2. ((at + 1) - 1) * interp + 0 = (at - 1) * interp + copies
  <2>1. ((at + 1) - 1) * interp = (at - 1) * interp + interp /\ (at - 1) * interp \in Int /\ (at + 1) - 1 = at /\ at * interp \in Int
    BY <1>1
  <2> QED  BY <1>1, <2>1
<1> QED  BY <1>1, <1>2 DEF Progress

(* All bits are rendered.                                                  *)
LEMMA ProgressDone ==
  ASSUME NEW w \in Seq(Bytes), NEW interp \in Nat, NEW nrz, NEW o, NEW at, NEW copies,
         Progress(w, o, interp, nrz, at, copies), at > Len(w)
  PROVE  o = PP!Rendered(w, interp, nrz)
<1>1. Len(w) \in Nat /\ at = Len(w) + 1 /\ copies = 0
  <2>1. Len(w) \in Nat
    BY LenProperties
  <2> QED  BY <2>1 DEF Progress
<1>2. (at - 1) * interp + copies = Len(w) * interp
  <2>1. at - 1 = Len(w) /\ Len(w) * interp \in Nat
    BY <1>1
  <2> QED  BY <1>1, <2>1
<1> QED  BY <1>2 DEF Progress, RenderedTo, PP!Rendered

-----------------------------------------------------------------------------
(* Who renders a part                                                      *)

Elems(s) == {s[i] : i \in 1..Len(s)}

(* The parts that the setter still has to store.                           *)
Left(c) ==
  IF c.phase \in {"set", "copy", "restore"} THEN Elems(c.todo)
  ELSE IF c.phase = "render" THEN Elems(Tail(c.todo)) ELSE {}

Renders(c, p) == c.phase = "render" /\ Head(c.todo) = p

(* A part will be stored again, or is being rendered, or is rendered, with *)
(* the parameters as they are.                                             *)
PartOk(cl, w, o, interp, nrz, p) ==
  \/ \E t \in SetterThreads : p \in Left(cl[t])
  \/ \E t \in SetterThreads : Renders(cl[t], p) /\ Progress(w, o, interp, nrz, cl[t].at, cl[t].copies)
  \/ (\A t \in SetterThreads : ~Renders(cl[t], p)) /\ o = PP!Rendered(w, interp, nrz)

(* The parts of a setter are the first and those left.                     *)
LEMMA TodoElems ==
  /\ \A todo \in Todos : /\ Elems(todo) \subseteq {Head(todo)} \cup Elems(Tail(todo))
                         /\ Len(todo) = 1 => Elems(Tail(todo)) = {}
                         /\ Head(todo) \in Elems(todo)
  /\ Elems(<<"preamble", "tail">>) = PP!Parts
  /\ \A p : Elems(<<p>>) = {p}
<1>1. \A p : Elems(<<p>>) = {p} /\ Head(<<p>>) = p /\ Tail(<<p>>) = <<>> /\ Len(<<p>>) = 1
  <2> TAKE p
  <2>1. Len(<<p>>) = 1 /\ <<p>>[1] = p /\ 1..1 = {1}
    OBVIOUS
  <2>2. Elems(<<p>>) = {p}
    BY <2>1 DEF Elems
  <2> QED  BY <2>2
<1>2. Elems(<<>>) = {}
  <2>1. Len(<<>>) = 0 /\ 1..0 = {}
    BY EmptySeq
  <2> QED  BY <2>1 DEF Elems
<1> DEFINE two == <<"preamble", "tail">>
<1>3. Head(two) = "preamble" /\ Tail(two) = <<"tail">> /\ Len(two) = 2
  OBVIOUS
<1>4. Elems(two) = {"preamble", "tail"}
  <2>1. Len(two) = 2 /\ two[1] = "preamble" /\ two[2] = "tail" /\ 1..2 = {1, 2}
    OBVIOUS
  <2> QED  BY <2>1 DEF Elems
<1> HIDE DEF two
<1>5. ASSUME NEW todo \in Todos
      PROVE  /\ Elems(todo) \subseteq {Head(todo)} \cup Elems(Tail(todo))
             /\ Len(todo) = 1 => Elems(Tail(todo)) = {}
             /\ Head(todo) \in Elems(todo)
  <2>1. CASE todo = two
    <3>1. Elems(<<"tail">>) = {"tail"}
      BY <1>1
    <3>2. Len(todo) # 1
      BY <1>3, <2>1
    <3> QED  BY <1>3, <1>4, <2>1, <3>1, <3>2
  <2>2. CASE \E p : todo = <<p>>
    BY <1>1, <1>2, <2>2
  <2> QED  BY <2>1, <2>2 DEF Todos, two
<1> QED  BY <1>1, <1>4, <1>5 DEF PP!Parts, two

(* A thread that stays away from a part leaves it as it is.                *)
LEMMA PartKept ==
  ASSUME NEW cl, NEW new, NEW t \in SetterThreads, \A u \in SetterThreads \ {t} : new[u] = cl[u],
         NEW w, NEW o, NEW interp, NEW nrz, NEW p,
         p \in Left(cl[t]) => p \in Left(new[t]), ~Renders(cl[t], p), ~Renders(new[t], p),
         PartOk(cl, w, o, interp, nrz, p)
  PROVE  PartOk(new, w, o, interp, nrz, p)
<1>1. CASE \E u \in SetterThreads : p \in Left(cl[u])
  BY <1>1 DEF PartOk
<1>2. CASE \E u \in SetterThreads : Renders(cl[u], p) /\ Progress(w, o, interp, nrz, cl[u].at, cl[u].copies)
  <2>1. PICK u \in SetterThreads : Renders(cl[u], p) /\ Progress(w, o, interp, nrz, cl[u].at, cl[u].copies)
    BY <1>2
  <2>2. new[u] = cl[u]
    BY <2>1
  <2>3. Renders(new[u], p) /\ Progress(w, o, interp, nrz, new[u].at, new[u].copies)
    BY <2>1, <2>2
  <2> QED  BY <2>3 DEF PartOk
<1>3. CASE (\A u \in SetterThreads : ~Renders(cl[u], p)) /\ o = PP!Rendered(w, interp, nrz)
  BY <1>3 DEF PartOk
<1> QED  BY <1>1, <1>2, <1>3 DEF PartOk

Coherent ==
  \A p \in PP!Parts : PartOk(call, d_word[p], d_word_interp[p], d_interp, d_nrz, p)

(* Every part is, or will again be, rendered with the parameters in force. *)
RenderInv ==
  /\ DOMAIN call = SetterThreads /\ DOMAIN d_word_interp = PP!Parts
  /\ \A t \in SetterThreads : DOMAIN call[t] = Fields
  /\ \A t \in SetterThreads : call[t].phase # "idle" => call[t].todo \in Todos
  /\ \A t \in SetterThreads : call[t].phase \in {"set", "restore"} => call[t].word \in Seq(Bytes)
  /\ \A t, u \in SetterThreads : call[t].phase = "render" /\ call[u].phase = "render" => t = u
  /\ d_word \in [PP!Parts -> Seq(Bytes)]
  /\ d_interp \in Nat /\ d_nrz \in BOOLEAN /\ d_zero_pad \in Nat
  /\ Coherent
  /\ PP!QuietPdusCoherent

(* A step of a thread that neither locks nor publishes.                    *)
LEMMA CallOk ==
  ASSUME RenderInv, NEW t \in SetterThreads, NEW c, call' = [call EXCEPT ![t] = c], pdu' = pdu,
         d_word' = d_word, DOMAIN d_word_interp' = PP!Parts,
         d_interp' \in Nat, d_nrz' \in BOOLEAN, d_zero_pad' \in Nat,
         DOMAIN c = Fields, c.phase # "idle" => c.todo \in Todos,
         c.phase \in {"set", "restore"} => c.word \in Seq(Bytes),
         c.phase = "render" => call[t].phase = "render",
         Coherent'
  PROVE  RenderInv'
<1>1. call'[t] = c /\ (\A u \in SetterThreads \ {t} : call'[u] = call[u]) /\ DOMAIN call' = SetterThreads
  BY DEF RenderInv
<1>2. \A u, v \in SetterThreads : call'[u].phase = "render" /\ call'[v].phase = "render" => u = v
  <2>1. \A u \in SetterThreads : call'[u].phase = "render" => call[u].phase = "render"
    BY <1>1
  <2> QED  BY <2>1 DEF RenderInv
<1>3. PP!QuietPdusCoherent'
  BY DEF RenderInv, PP!QuietPdusCoherent
<1> QED  BY <1>1, <1>2, <1>3 DEF RenderInv

(* A step of one thread leaves the calls of the others.                    *)
LEMMA OthersOf ==
  ASSUME RenderInv, NEW t \in SetterThreads, NEW c, call' = [call EXCEPT ![t] = c]
  PROVE  call'[t] = c /\ \A u \in SetterThreads \ {t} : call'[u] = call[u]
BY DEF RenderInv

(* A setter that begins has the parts it changes before it.                *)
LEMMA EnterOk ==
  ASSUME PP!PreambleAssumption, RenderInv, NEW t \in SetterThreads, NEW c, PP!Enter(t, c), pdu' = pdu,
         UNCHANGED PP!words, d_interp' \in Nat, d_nrz' \in BOOLEAN, d_zero_pad' \in Nat,
         DOMAIN c = Fields, c.phase # "idle" => c.todo \in Todos, c.phase # "render",
         c.phase \in {"set", "restore"} => c.word \in Seq(Bytes),
         \A p \in PP!Parts : p \in Left(c) \/ (d_interp' = d_interp /\ d_nrz' = d_nrz)
  PROVE  RenderInv'
<1>1. call[t].phase = "idle" /\ call' = [call EXCEPT ![t] = c] /\ d_word' = d_word /\ d_word_interp' = d_word_interp
  BY DEF PP!Enter, PP!words
<1>2. call'[t] = c /\ \A u \in SetterThreads \ {t} : call'[u] = call[u]
  BY <1>1, OthersOf
<1>3. ASSUME NEW p \in PP!Parts
      PROVE  PartOk(call', d_word'[p], d_word_interp'[p], d_interp', d_nrz', p)
  <2>1. CASE p \in Left(c)
    BY <1>2, <2>1 DEF PartOk
  <2>2. CASE d_interp' = d_interp /\ d_nrz' = d_nrz
    <3>1. PartOk(call, d_word[p], d_word_interp[p], d_interp, d_nrz, p)
      BY DEF RenderInv, Coherent
    <3>2. Left(call[t]) = {} /\ ~Renders(call[t], p) /\ ~Renders(call'[t], p)
      BY <1>1, <1>2 DEF Left, Renders
    <3> PICK cl, new, w, o, interp, nrz : /\ cl = call /\ new = call' /\ w = d_word[p] /\ o = d_word_interp[p]
                                          /\ interp = d_interp /\ nrz = d_nrz
      OBVIOUS
    <3>3. PartOk(new, w, o, interp, nrz, p)
      BY <1>2, <3>1, <3>2, PartKept
    <3> QED  BY <1>1, <2>2, <3>3
  <2> QED  BY <2>1, <2>2
<1>4. Coherent'
  BY <1>3 DEF Coherent
<1>5. DOMAIN d_word_interp' = PP!Parts
  BY <1>1 DEF RenderInv
<1> QED  BY <1>1, <1>4, <1>5, CallOk

(* A setter copies a word.                                                 *)
LEMMA CopyOk ==
  ASSUME RenderInv, NEW t \in SetterThreads, PP!CopyWord(t)
  PROVE  RenderInv'
<1> PICK c : c = [call[t] EXCEPT !.phase = "restore", !.word = d_word[Head(call[t].todo)]]
  OBVIOUS
<1>1. /\ call[t].phase = "copy" /\ call' = [call EXCEPT ![t] = c] /\ pdu' = pdu
      /\ d_word' = d_word /\ d_word_interp' = d_word_interp
      /\ d_interp' = d_interp /\ d_nrz' = d_nrz /\ d_zero_pad' = d_zero_pad
  BY DEF PP!CopyWord, PP!words, PP!params
<1>2. DOMAIN call[t] = Fields /\ call[t].todo \in Todos
  BY <1>1 DEF RenderInv
<1>3. /\ DOMAIN c = Fields /\ c.phase = "restore" /\ c.todo = call[t].todo
      /\ c.word = d_word[Head(call[t].todo)]
  BY <1>2 DEF Fields
<1>4. c.word \in Seq(Bytes)
  BY <1>2, <1>3, TodoParts DEF RenderInv
<1>5. call'[t] = c /\ \A u \in SetterThreads \ {t} : call'[u] = call[u]
  BY <1>1, OthersOf
<1>6. ASSUME NEW p \in PP!Parts
      PROVE  PartOk(call', d_word[p], d_word_interp[p], d_interp, d_nrz, p)
  <2>1. Left(call[t]) = Left(c) /\ ~Renders(call[t], p) /\ ~Renders(c, p)
    BY <1>1, <1>3 DEF Left, Renders
  <2>2. PartOk(call, d_word[p], d_word_interp[p], d_interp, d_nrz, p)
    BY DEF RenderInv, Coherent
  <2> QED  BY <1>5, <2>1, <2>2, PartKept
<1>7. Coherent'
  BY <1>1, <1>6 DEF Coherent
<1>8. DOMAIN d_word_interp' = PP!Parts /\ d_interp' \in Nat /\ d_nrz' \in BOOLEAN /\ d_zero_pad' \in Nat
  BY <1>1 DEF RenderInv
<1> QED  BY <1>1, <1>2, <1>3, <1>4, <1>7, <1>8, CallOk

(* A setter takes the lock, stores a word and clears what was rendered.    *)
LEMMA LockOk ==
  ASSUME RenderInv, NEW t \in SetterThreads, PP!LockWord(t)
  PROVE  RenderInv'
<1> PICK part, word, c : /\ part = Head(call[t].todo) /\ word = call[t].word
                         /\ c = [call[t] EXCEPT !.phase = "render", !.at = 1, !.copies = 0]
  OBVIOUS
<1>1. /\ call[t].phase \in {"set", "restore"} /\ PP!LockFree /\ pdu' = pdu
      /\ d_word' = [d_word EXCEPT ![part] = word]
      /\ d_word_interp' = [d_word_interp EXCEPT ![part] = <<>>]
      /\ call' = [call EXCEPT ![t] = c]
      /\ d_interp' = d_interp /\ d_nrz' = d_nrz /\ d_zero_pad' = d_zero_pad
  BY DEF PP!LockWord, PP!params
<1>2. DOMAIN call[t] = Fields /\ call[t].todo \in Todos /\ word \in Seq(Bytes) /\ part \in PP!Parts
  <2>1. DOMAIN call[t] = Fields /\ call[t].todo \in Todos /\ word \in Seq(Bytes)
    BY <1>1 DEF RenderInv
  <2> QED  BY <2>1, TodoParts
<1>3. DOMAIN c = Fields /\ c.phase = "render" /\ c.todo = call[t].todo /\ c.at = 1 /\ c.copies = 0
  BY <1>2 DEF Fields
<1>4. call'[t] = c /\ \A u \in SetterThreads \ {t} : call'[u] = call[u]
  BY <1>1, OthersOf
<1>5. /\ d_word'[part] = word /\ d_word_interp'[part] = <<>>
      /\ \A q \in PP!Parts \ {part} : d_word'[q] = d_word[q] /\ d_word_interp'[q] = d_word_interp[q]
      /\ d_word' \in [PP!Parts -> Seq(Bytes)] /\ DOMAIN d_word_interp' = PP!Parts
  BY <1>1, <1>2 DEF RenderInv
<1>6. PartOk(call', d_word'[part], d_word_interp'[part], d_interp', d_nrz', part)
  <2>1. Progress(word, <<>>, d_interp, d_nrz, 1, 0)
    BY <1>2, ProgressStarts DEF RenderInv
  <2>2. Renders(c, part)
    BY <1>3 DEF Renders
  <2>3. Renders(call'[t], part) /\ Progress(word, <<>>, d_interp, d_nrz, call'[t].at, call'[t].copies)
    BY <1>3, <1>4, <2>1, <2>2
  <2> QED  BY <1>1, <1>5, <2>3 DEF PartOk
<1>7. ASSUME NEW p \in PP!Parts, p # part
      PROVE  PartOk(call', d_word'[p], d_word_interp'[p], d_interp', d_nrz', p)
  <2>1. p \in Left(call[t]) => p \in Left(c)
    BY <1>1, <1>2, <1>3, <1>7, TodoElems DEF Left
  <2>2. ~Renders(call[t], p) /\ ~Renders(c, p)
    BY <1>1, <1>3, <1>7 DEF Renders
  <2>3. PartOk(call, d_word[p], d_word_interp[p], d_interp, d_nrz, p)
    BY DEF RenderInv, Coherent
  <2>4. PartOk(call', d_word[p], d_word_interp[p], d_interp, d_nrz, p)
    BY <1>4, <2>1, <2>2, <2>3, PartKept
  <2> QED  BY <1>1, <1>5, <1>7, <2>4
<1>8. Coherent'
  BY <1>6, <1>7 DEF Coherent
<1>9. \A u, v \in SetterThreads : call'[u].phase = "render" /\ call'[v].phase = "render" => u = v
  <2>1. \A u \in SetterThreads \ {t} : call'[u].phase # "render"
    BY <1>1, <1>4 DEF PP!LockFree
  <2> QED  BY <2>1
<1>10. PP!QuietPdusCoherent'
  BY <1>1 DEF RenderInv, PP!QuietPdusCoherent
<1>11. DOMAIN call' = SetterThreads
  BY <1>1 DEF RenderInv
<1> QED  BY <1>1, <1>2, <1>3, <1>4, <1>5, <1>8, <1>9, <1>10, <1>11 DEF RenderInv

(* The thread that renders a part goes on.                                 *)
LEMMA PartRendered ==
  ASSUME NEW cl, NEW new, NEW t \in SetterThreads, \A u \in SetterThreads \ {t} : new[u] = cl[u],
         NEW w, NEW o, NEW o2, NEW interp, NEW nrz, NEW p,
         Left(new[t]) = Left(cl[t]), Renders(cl[t], p), Renders(new[t], p),
         \A u \in SetterThreads : Renders(cl[u], p) => u = t,
         Progress(w, o, interp, nrz, cl[t].at, cl[t].copies)
           => Progress(w, o2, interp, nrz, new[t].at, new[t].copies),
         PartOk(cl, w, o, interp, nrz, p)
  PROVE  PartOk(new, w, o2, interp, nrz, p)
<1>1. CASE \E u \in SetterThreads : p \in Left(cl[u])
  BY <1>1 DEF PartOk
<1>2. CASE \E u \in SetterThreads : Renders(cl[u], p) /\ Progress(w, o, interp, nrz, cl[u].at, cl[u].copies)
  <2>1. Progress(w, o, interp, nrz, cl[t].at, cl[t].copies)
    BY <1>2
  <2> QED  BY <2>1 DEF PartOk
<1> QED  BY <1>1, <1>2 DEF PartOk

(* The thread that renders a part has done so.                             *)
LEMMA PartDone ==
  ASSUME NEW cl, NEW new, NEW t \in SetterThreads, \A u \in SetterThreads \ {t} : new[u] = cl[u],
         NEW w, NEW o, NEW interp, NEW nrz, NEW p,
         p \in Left(cl[t]) => p \in Left(new[t]), ~Renders(new[t], p),
         \A u \in SetterThreads : Renders(cl[u], p) => u = t,
         Progress(w, o, interp, nrz, cl[t].at, cl[t].copies) => o = PP!Rendered(w, interp, nrz),
         PartOk(cl, w, o, interp, nrz, p)
  PROVE  PartOk(new, w, o, interp, nrz, p)
<1>1. CASE \E u \in SetterThreads : p \in Left(cl[u])
  BY <1>1 DEF PartOk
<1>2. \A u \in SetterThreads : ~Renders(new[u], p)
  OBVIOUS
<1>3. CASE \E u \in SetterThreads : Renders(cl[u], p) /\ Progress(w, o, interp, nrz, cl[u].at, cl[u].copies)
  <2>1. Progress(w, o, interp, nrz, cl[t].at, cl[t].copies)
    BY <1>3
  <2> QED  BY <1>2, <2>1 DEF PartOk
<1>4. CASE o = PP!Rendered(w, interp, nrz)
  BY <1>2, <1>4 DEF PartOk
<1> QED  BY <1>1, <1>3, <1>4 DEF PartOk

(* A setter renders a bit.                                                 *)
LEMMA RenderOk ==
  ASSUME RenderInv, NEW t \in SetterThreads, PP!RenderBit(t)
  PROVE  RenderInv'
<1> PICK c, part, w, o, interp, nrz, more, next :
      /\ c = call[t] /\ part = Head(c.todo) /\ w = d_word[part] /\ o = d_word_interp[part]
      /\ interp = d_interp /\ nrz = d_nrz
      /\ more = [c EXCEPT !.copies = @ + 1] /\ next = [c EXCEPT !.at = @ + 1, !.copies = 0]
  OBVIOUS
<1>1. /\ c.phase = "render" /\ c.at <= Len(w) /\ pdu' = pdu /\ d_word' = d_word
      /\ d_interp' = d_interp /\ d_nrz' = d_nrz /\ d_zero_pad' = d_zero_pad
  BY DEF PP!RenderBit, PP!params
<1>2. /\ DOMAIN c = Fields /\ c.todo \in Todos /\ part \in PP!Parts /\ w \in Seq(Bytes)
      /\ interp \in Nat /\ nrz \in BOOLEAN /\ DOMAIN d_word_interp = PP!Parts
  <2>1. DOMAIN c = Fields /\ c.todo \in Todos
    BY <1>1 DEF RenderInv
  <2>2. part \in PP!Parts
    BY <2>1, TodoParts
  <2> QED  BY <2>1, <2>2 DEF RenderInv
<1>3. \A u \in SetterThreads : \A p : Renders(call[u], p) => u = t
  BY <1>1 DEF RenderInv, Renders
<1> DEFINE Turn(new, o2) ==
        /\ new \in {more, next}
        /\ call' = [call EXCEPT ![t] = new]
        /\ d_word_interp'[part] = o2 /\ DOMAIN d_word_interp' = PP!Parts
        /\ \A p \in PP!Parts \ {part} : d_word_interp'[p] = d_word_interp[p]
        /\ Progress(w, o, interp, nrz, c.at, c.copies)
             => Progress(w, o2, interp, nrz, new.at, new.copies)
<1>4. \E new, o2 : Turn(new, o2)
  <2>1. CASE c.copies < interp
    <3> PICK o2 : o2 = Append(o, PP!Value(w[c.at], nrz))
      OBVIOUS
    <3>1. /\ d_word_interp' = [d_word_interp EXCEPT ![part] = o2]
          /\ call' = [call EXCEPT ![t] = more]
      BY <2>1 DEF PP!RenderBit
    <3>2. more.at = c.at /\ more.copies = c.copies + 1
      BY <1>2 DEF Fields
    <3>3. Progress(w, o, interp, nrz, c.at, c.copies)
             => Progress(w, o2, interp, nrz, more.at, more.copies)
      BY <1>1, <1>2, <2>1, <3>2, ProgressMore
    <3>4. /\ d_word_interp'[part] = o2 /\ DOMAIN d_word_interp' = PP!Parts
          /\ \A p \in PP!Parts \ {part} : d_word_interp'[p] = d_word_interp[p]
      BY <1>2, <3>1
    <3>5. Turn(more, o2)
      BY <3>1, <3>3, <3>4
    <3> HIDE DEF Turn
    <3> QED  BY <3>5
  <2>2. CASE ~(c.copies < interp)
    <3>1. d_word_interp' = d_word_interp /\ call' = [call EXCEPT ![t] = next]
      BY <2>2 DEF PP!RenderBit
    <3>2. next.at = c.at + 1 /\ next.copies = 0
      BY <1>2 DEF Fields
    <3>3. Progress(w, o, interp, nrz, c.at, c.copies)
             => Progress(w, o, interp, nrz, next.at, next.copies)
      BY <1>1, <1>2, <2>2, <3>2, ProgressOn
    <3>4. Turn(next, o)
      BY <1>2, <3>1, <3>3
    <3> HIDE DEF Turn
    <3> QED  BY <3>4
  <2> QED  BY <2>1, <2>2
<1> PICK new, o2 : Turn(new, o2)
  BY <1>4
<1>5. DOMAIN new = Fields /\ new.phase = c.phase /\ new.todo = c.todo
  BY <1>2 DEF Fields
<1>6. call'[t] = new /\ \A u \in SetterThreads \ {t} : call'[u] = call[u]
  BY OthersOf
<1> PICK cl, cl2 : cl = call /\ cl2 = call'
  OBVIOUS
<1>7. Left(cl2[t]) = Left(cl[t]) /\ \A p : Renders(cl2[t], p) <=> Renders(cl[t], p)
  BY <1>5, <1>6 DEF Left, Renders
<1>8. PartOk(cl2, w, o2, interp, nrz, part)
  <2>1. Renders(cl[t], part)
    BY <1>1 DEF Renders
  <2>2. PartOk(cl, w, o, interp, nrz, part)
    BY <1>2 DEF RenderInv, Coherent
  <2>3. Progress(w, o, interp, nrz, cl[t].at, cl[t].copies)
          => Progress(w, o2, interp, nrz, cl2[t].at, cl2[t].copies)
    BY <1>6
  <2>4. (\A u \in SetterThreads \ {t} : cl2[u] = cl[u]) /\ \A u \in SetterThreads : Renders(cl[u], part) => u = t
    BY <1>3, <1>6
  <2> QED  BY ONLY <1>7, <2>1, <2>2, <2>3, <2>4, t \in SetterThreads, PartRendered
<1>9. ASSUME NEW p \in PP!Parts, p # part
      PROVE  PartOk(cl2, d_word[p], d_word_interp[p], interp, nrz, p)
  <2>1. ~Renders(cl[t], p)
    BY <1>9 DEF Renders
  <2>2. PartOk(cl, d_word[p], d_word_interp[p], interp, nrz, p)
    BY DEF RenderInv, Coherent
  <2> QED  BY <1>6, <1>7, <2>1, <2>2, PartKept
<1>10. Coherent'
  BY <1>1, <1>8, <1>9 DEF Coherent
<1>11. d_interp' \in Nat /\ d_nrz' \in BOOLEAN /\ d_zero_pad' \in Nat
  BY <1>1 DEF RenderInv
<1> QED  BY <1>1, <1>2, <1>5, <1>10, <1>11, CallOk

(* A setter that rendered a word goes on to the next, or returns.          *)
LEMMA UnlockOk ==
  ASSUME RenderInv, NEW t \in SetterThreads, PP!Unlock(t)
  PROVE  RenderInv'
<1> PICK c, part, w, o, interp, nrz, more, new :
      /\ c = call[t] /\ part = Head(c.todo) /\ w = d_word[part] /\ o = d_word_interp[part]
      /\ interp = d_interp /\ nrz = d_nrz
      /\ more = [PP!Idle EXCEPT !.todo = Tail(c.todo), !.phase = "copy"]
      /\ new = IF Len(c.todo) = 1 THEN PP!Idle ELSE more
  OBVIOUS
<1>1. /\ c.phase = "render" /\ c.at > Len(w) /\ pdu' = pdu
      /\ d_word' = d_word /\ d_word_interp' = d_word_interp
      /\ d_interp' = d_interp /\ d_nrz' = d_nrz /\ d_zero_pad' = d_zero_pad
      /\ call' = [call EXCEPT ![t] = new]
  BY DEF PP!Unlock, PP!words, PP!params
<1>2. c.todo \in Todos /\ part \in PP!Parts /\ w \in Seq(Bytes) /\ interp \in Nat /\ nrz \in BOOLEAN
  <2>1. c.todo \in Todos
    BY <1>1 DEF RenderInv
  <2>2. part \in PP!Parts
    BY <2>1, TodoParts
  <2> QED  BY <2>1, <2>2 DEF RenderInv
<1>3. \A u \in SetterThreads : \A p : Renders(call[u], p) => u = t
  BY <1>1 DEF RenderInv, Renders
<1>4. /\ DOMAIN PP!Idle = Fields /\ PP!Idle.phase = "idle"
      /\ DOMAIN more = Fields /\ more.phase = "copy" /\ more.todo = Tail(c.todo)
  BY DEF PP!Idle, Fields
<1>5. /\ DOMAIN new = Fields /\ new.phase \in {"idle", "copy"}
      /\ new.phase # "idle" => new.todo \in Todos
  BY <1>2, <1>4, TodoParts
<1>6. Left(c) = Elems(Tail(c.todo)) /\ Left(new) = Left(c)
  <2>1. Left(c) = Elems(Tail(c.todo))
    BY <1>1 DEF Left
  <2>2. CASE Len(c.todo) = 1
    <3>1. Left(new) = {}
      BY <1>4, <2>2 DEF Left
    <3> QED  BY <1>2, <2>1, <2>2, <3>1, TodoElems
  <2>3. CASE Len(c.todo) # 1
    BY <1>4, <2>1, <2>3 DEF Left
  <2> QED  BY <2>1, <2>2, <2>3
<1>7. call'[t] = new /\ \A u \in SetterThreads \ {t} : call'[u] = call[u]
  BY <1>1, OthersOf
<1> PICK cl, cl2 : cl = call /\ cl2 = call'
  OBVIOUS
<1>8. \A p : ~Renders(new, p)
  BY <1>5 DEF Renders
<1>9. PartOk(cl2, w, o, interp, nrz, part)
  <2>1. PartOk(cl, w, o, interp, nrz, part)
    BY <1>2 DEF RenderInv, Coherent
  <2>2. Progress(w, o, interp, nrz, cl[t].at, cl[t].copies) => o = PP!Rendered(w, interp, nrz)
    BY <1>1, <1>2, ProgressDone
  <2>3. /\ \A u \in SetterThreads \ {t} : cl2[u] = cl[u]
        /\ \A u \in SetterThreads : Renders(cl[u], part) => u = t
        /\ part \in Left(cl[t]) => part \in Left(cl2[t])
        /\ ~Renders(cl2[t], part)
    BY <1>3, <1>6, <1>7, <1>8
  <2> QED  BY ONLY <2>1, <2>2, <2>3, t \in SetterThreads, PartDone
<1>10. ASSUME NEW p \in PP!Parts, p # part
       PROVE  PartOk(cl2, d_word[p], d_word_interp[p], interp, nrz, p)
  <2>1. ~Renders(cl[t], p)
    BY <1>10 DEF Renders
  <2>2. PartOk(cl, d_word[p], d_word_interp[p], interp, nrz, p)
    BY DEF RenderInv, Coherent
  <2> QED  BY <1>6, <1>7, <1>8, <2>1, <2>2, PartKept
<1>11. Coherent'
  BY <1>1, <1>9, <1>10 DEF Coherent
<1>12. DOMAIN d_word_interp' = PP!Parts /\ d_interp' \in Nat /\ d_nrz' \in BOOLEAN /\ d_zero_pad' \in Nat
  BY <1>1 DEF RenderInv
<1> QED  BY <1>1, <1>5, <1>11, <1>12, CallOk

(* The words of a PDU made while no setter runs.                           *)
LEMMA HandleOk ==
  ASSUME PP!PreambleAssumption, RenderInv, NEW d \in PreambleData, PP!HandleMsg(d)
  PROVE  RenderInv'
<1> PICK pre, tl, ipre, itl, interp, nrz, z, r :
      /\ pre = d_word["preamble"] /\ tl = d_word["tail"]
      /\ ipre = d_word_interp["preamble"] /\ itl = d_word_interp["tail"]
      /\ interp = d_interp /\ nrz = d_nrz /\ z = PP!Zeros(d_zero_pad)
      /\ r = PP!Rendered(d, interp, nrz)
  OBVIOUS
<1>1. /\ d_word' = d_word /\ d_word_interp' = d_word_interp /\ call' = call
      /\ d_interp' = d_interp /\ d_nrz' = d_nrz /\ d_zero_pad' = d_zero_pad
      /\ pdu'.out = z \o ipre \o r \o itl \o z
      /\ pdu'.expected = z \o PP!Rendered(pre \o d \o tl, interp, nrz) \o z
      /\ pdu'.quiet = (\A t \in SetterThreads : call[t] = PP!Idle)
  BY DEF PP!HandleMsg, PP!words, PP!params
<1>2. ASSUME \A t \in SetterThreads : call[t] = PP!Idle
      PROVE  z \o ipre \o r \o itl \o z = z \o PP!Rendered(pre \o d \o tl, interp, nrz) \o z
  <2>1. /\ pre \in Seq(Bytes) /\ tl \in Seq(Bytes) /\ d \in Seq(Bytes)
        /\ interp \in Nat /\ nrz \in BOOLEAN
    BY DEF RenderInv, PP!PreambleAssumption, PP!Parts, Bytes
  <2>2. \A p : \A t \in SetterThreads : Left(call[t]) = {} /\ ~Renders(call[t], p)
    BY <1>2 DEF Left, Renders, PP!Idle
  <2>3. \A p \in PP!Parts : d_word_interp[p] = PP!Rendered(d_word[p], interp, nrz)
    BY <2>2 DEF RenderInv, Coherent, PartOk
  <2>4. ipre = PP!Rendered(pre, interp, nrz) /\ itl = PP!Rendered(tl, interp, nrz)
    BY <2>3 DEF PP!Parts
  <2>5. pre \o d \in Seq(Bytes)
    <3> HIDE DEF Bytes
    <3> QED  BY ONLY <2>1, ConcatProperties
  <2>6. PP!Rendered(pre \o d \o tl, interp, nrz) = ipre \o r \o itl
    <3>1. PP!Rendered(pre \o d, interp, nrz) = ipre \o r
      BY ONLY <2>1, <2>4, r = PP!Rendered(d, interp, nrz), RenderedJoin
    <3>2. PP!Rendered((pre \o d) \o tl, interp, nrz) = PP!Rendered(pre \o d, interp, nrz) \o itl
      BY ONLY <2>1, <2>4, <2>5, RenderedJoin
    <3> QED  BY <3>1, <3>2
  <2>7. ipre \in Seq(Values) /\ itl \in Seq(Values) /\ r \in Seq(Values) /\ z \in Seq(Values)
    <3>1. ipre \in Seq(Values) /\ itl \in Seq(Values) /\ r \in Seq(Values)
      BY <2>1, <2>4, RenderedType
    <3>2. d_zero_pad \in Nat /\ z \in [1..d_zero_pad -> Values]
      BY DEF RenderInv, PP!Zeros, Values
    <3>3. z \in Seq(Values)
      BY <3>2, SeqDef
    <3> QED  BY <3>1, <3>3
  <2>8. z \o ipre \o r \o itl = z \o (ipre \o r \o itl)
    <3> HIDE DEF Values
    <3>1. z \o ipre \in Seq(Values) /\ ipre \o r \in Seq(Values)
      BY ONLY <2>7, ConcatProperties
    <3>2. (z \o ipre) \o r = z \o (ipre \o r)
      BY ONLY <2>7, ConcatAssociative
    <3>3. (z \o (ipre \o r)) \o itl = z \o ((ipre \o r) \o itl)
      BY ONLY <2>7, <3>1, ConcatAssociative
    <3> QED  BY <3>2, <3>3
  <2> QED  BY <2>6, <2>8
<1>3. PP!QuietPdusCoherent'
  BY <1>1, <1>2 DEF PP!QuietPdusCoherent
<1>4. Coherent'
  BY <1>1 DEF RenderInv, Coherent
<1> QED  BY <1>1, <1>3, <1>4 DEF RenderInv

(* Every step keeps each part rendered, or to be rendered again.           *)
LEMMA RenderStep ==
  ASSUME PP!PreambleAssumption, RenderInv, PP!Next \/ UNCHANGED PPvars
  PROVE  RenderInv'
<1>1. \A p \in PP!Parts : p \in Elems(<<p>>) /\ p \in Elems(<<"preamble", "tail">>)
  BY TodoElems
<1>2. ASSUME NEW t \in SetterThreads, NEW part \in PP!Parts, NEW word \in Words, PP!SetWord(t, part, word)
      PROVE  RenderInv'
  <2> PICK c : c = [PP!Idle EXCEPT !.todo = <<part>>, !.phase = "set", !.word = word]
    OBVIOUS
  <2>1. c.phase = "set" /\ c.todo \in Todos /\ DOMAIN c = Fields /\ c.word = word
    BY DEF PP!Idle, PP!Parts, Todos, Fields
  <2>2. /\ PP!Enter(t, c) /\ UNCHANGED PP!words /\ pdu' = pdu
        /\ d_interp' = d_interp /\ d_nrz' = d_nrz /\ d_zero_pad' = d_zero_pad
    BY <1>2 DEF PP!SetWord, PP!params
  <2>3. word \in Seq(Bytes)
    BY DEF PP!PreambleAssumption, Bytes
  <2>4. d_interp' \in Nat /\ d_nrz' \in BOOLEAN /\ d_zero_pad' \in Nat
    BY <2>2 DEF RenderInv
  <2> QED  BY <2>1, <2>2, <2>3, <2>4, EnterOk
<1> PICK both : both = [PP!Idle EXCEPT !.todo = <<"preamble", "tail">>, !.phase = "copy"]
  OBVIOUS
<1>3. both.phase = "copy" /\ both.todo \in Todos /\ DOMAIN both = Fields /\ \A p \in PP!Parts : p \in Left(both)
  <2>1. both.phase = "copy" /\ both.todo = <<"preamble", "tail">> /\ DOMAIN both = Fields
    BY DEF PP!Idle, Fields
  <2>2. Left(both) = Elems(<<"preamble", "tail">>)
    BY <2>1 DEF Left
  <2> QED  BY <1>1, <2>1, <2>2 DEF Todos
<1>4. ASSUME NEW t \in SetterThreads, NEW interp \in Interps, PP!SetInterp(t, interp)
      PROVE  RenderInv'
  <2>1. /\ PP!Enter(t, both) /\ UNCHANGED PP!words /\ pdu' = pdu
        /\ d_interp' = interp /\ d_nrz' = d_nrz /\ d_zero_pad' = d_zero_pad
    BY <1>4 DEF PP!SetInterp
  <2>2. d_interp' \in Nat /\ d_nrz' \in BOOLEAN /\ d_zero_pad' \in Nat
    BY <2>1 DEF RenderInv, PP!PreambleAssumption
  <2> QED  BY <1>3, <2>1, <2>2, EnterOk
<1>5. ASSUME NEW t \in SetterThreads, NEW nrz \in BOOLEAN, PP!SetNrz(t, nrz)
      PROVE  RenderInv'
  <2>1. /\ PP!Enter(t, both) /\ UNCHANGED PP!words /\ pdu' = pdu
        /\ d_interp' = d_interp /\ d_nrz' = nrz /\ d_zero_pad' = d_zero_pad
    BY <1>5 DEF PP!SetNrz
  <2>2. d_interp' \in Nat /\ d_nrz' \in BOOLEAN /\ d_zero_pad' \in Nat
    BY <2>1 DEF RenderInv
  <2> QED  BY <1>3, <2>1, <2>2, EnterOk
<1>6. ASSUME NEW t \in SetterThreads, NEW pad \in Pads, PP!SetZeroPad(t, pad)
      PROVE  RenderInv'
  <2>1. /\ PP!Enter(t, PP!Idle) /\ UNCHANGED PP!words /\ pdu' = pdu
        /\ d_interp' = d_interp /\ d_nrz' = d_nrz /\ d_zero_pad' = pad
    BY <1>6 DEF PP!SetZeroPad
  <2>2. d_interp' \in Nat /\ d_nrz' \in BOOLEAN /\ d_zero_pad' \in Nat
    BY <2>1 DEF RenderInv, PP!PreambleAssumption
  <2>3. DOMAIN PP!Idle = Fields /\ PP!Idle.phase = "idle"
    BY DEF PP!Idle, Fields
  <2> QED  BY <2>1, <2>2, <2>3, EnterOk
<1>7. CASE UNCHANGED PPvars
  BY <1>7 DEF PPvars, RenderInv, Coherent, PP!QuietPdusCoherent
<1> QED  BY <1>2, <1>4, <1>5, <1>6, <1>7, CopyOk, LockOk, RenderOk, UnlockOk, HandleOk DEF PP!Next

(* Whatever threads set meanwhile, a PDU handled while no setter runs is   *)
(* made of one set of parameters: whoever writes a parameter stores and    *)
(* renders every part again before it returns.                             *)
THEOREM QuietPdusAlwaysCoherent == BlocksSpec => []QuietPdusCoherent
<1> DEFINE I == block = "pdu_preamble" => RenderInv
<1>0. PP!PreambleAssumption
  BY BlockAssumptions
<1>1. BlocksInit => I
  <2>1. ASSUME PP!Init PROVE RenderInv
    <3>1. /\ d_word \in [PP!Parts -> Seq(Bytes)] /\ d_interp \in Nat /\ d_zero_pad \in Nat
      BY <1>0, <2>1 DEF PP!Init, PP!PreambleAssumption, Bytes
    <3>2. \A t \in SetterThreads : call[t].phase = "idle" /\ DOMAIN call[t] = Fields
      BY <2>1 DEF PP!Init, PP!Idle, Fields
    <3>3. Coherent
      BY <2>1, <3>2 DEF PP!Init, Coherent, PartOk, Renders
    <3>4. PP!QuietPdusCoherent
      BY <2>1 DEF PP!Init, PP!QuietPdusCoherent
    <3> QED  BY <2>1, <3>1, <3>2, <3>3, <3>4 DEF PP!Init, RenderInv
  <2> QED  BY <2>1, BlockBegins
<1>2. I /\ [BlocksNext]_allvars => I'
  BY <1>0, RenderStep, BlockSteps
<1>3. I => QuietPdusCoherent
  BY DEF RenderInv, QuietPdusCoherent
<1> QED  BY <1>1, <1>2, <1>3, PTL DEF BlocksSpec

-----------------------------------------------------------------------------
(* pdu_slice: an action property.                                          *)

(* A walk that ends where it begins, or before, has no index.              *)
LEMMA EmptyWalk ==
  ASSUME NEW start \in Int, NEW stop \in Int, NEW stride \in Int \ {0},
         stride > 0 => stop <= start, stride < 0 => start <= stop
  PROVE  SL!Walk(start, stop, stride) = [i \in 1..0 |-> start + ((i - 1) * stride)]
BY DEF SL!Walk

(* Forwards, the indices brought into the data are Python's.               *)
LEMMA SlicesForwards ==
  ASSUME SL!SliceAssumption, NEW n \in Notations, ~SL!Refused(n), NEW v_len \in SliceLengths, NEW p,
         n.start # Blank => p.start = n.start, n.stop # Blank => p.stop = n.stop,
         p.blank_start = (n.start = Blank), p.blank_stop = (n.stop = Blank),
         p.stride = IF n.stride \in {Blank, Absent} THEN 1 ELSE n.stride,
         p.stride > 0
  PROVE  SL!Walk(SL!StartIndex(p, v_len), SL!StopIndex(p, v_len), p.stride) = SL!PythonSlice(n, v_len)
<1>1. /\ v_len \in Nat
      /\ n.start # Blank => n.start \in Int
      /\ n.stop # Blank => n.stop \in Int
  BY DEF SL!SliceAssumption, SL!Refused
<1>2. ASSUME NEW i \in Int
      PROVE  SL!PythonIndex(i, v_len, 0, v_len) =
               IF SL!FromEnd(i, v_len) > v_len THEN v_len ELSE SL!FromEnd(i, v_len)
  BY <1>1 DEF SL!FromEnd, SL!PythonIndex, SL!Clamp
<1>3. SL!StartIndex(p, v_len) =
        IF n.start # Blank THEN SL!PythonIndex(n.start, v_len, 0, v_len) ELSE 0
  BY <1>1, <1>2 DEF SL!StartIndex
<1>4. SL!StopIndex(p, v_len) =
        IF n.stop # Blank THEN SL!PythonIndex(n.stop, v_len, 0, v_len) ELSE v_len
  BY <1>1, <1>2 DEF SL!StopIndex
<1> QED  BY <1>3, <1>4 DEF SL!PythonSlice

(* Backwards from inside the data the first index is Python's; where the   *)
(* stop is not, neither walk has an index.                                 *)
LEMMA SlicesBackwards ==
  ASSUME SL!SliceAssumption, NEW n \in Notations, ~SL!Refused(n), NEW v_len \in SliceLengths, NEW p,
         n.start # Blank => p.start = n.start, n.stop # Blank => p.stop = n.stop,
         p.blank_start = (n.start = Blank), p.blank_stop = (n.stop = Blank),
         p.stride = IF n.stride \in {Blank, Absent} THEN 1 ELSE n.stride,
         p.stride < 0,
         n.start # Blank => ~(n.start < -v_len \/ n.start = v_len),
         n.stop # Blank => ~(n.stop < -v_len)
  PROVE  SL!Walk(SL!StartIndex(p, v_len), SL!StopIndex(p, v_len), p.stride) = SL!PythonSlice(n, v_len)
<1> DEFINE start == IF n.start # Blank THEN SL!PythonIndex(n.start, v_len, -1, v_len - 1)
                    ELSE v_len - 1
           stop == IF n.stop # Blank THEN SL!PythonIndex(n.stop, v_len, -1, v_len - 1)
                   ELSE -1
<1>1. /\ v_len \in Nat
      /\ n.start # Blank => n.start \in Int
      /\ n.stop # Blank => n.stop \in Int
      /\ n.stride \in {Blank, Absent} \/ n.stride \in Int \ {0}
  BY DEF SL!SliceAssumption, SL!Refused
<1>2. p.stride \in Int \ {0} /\ ~(p.stride > 0)
  BY <1>1
<1>3. SL!StartIndex(p, v_len) = start /\ start \in Int /\ start <= v_len - 1
  <2>1. CASE n.start = Blank
    <3>1. SL!StartIndex(p, v_len) = v_len - 1
      BY <1>2, <2>1 DEF SL!StartIndex
    <3> QED  BY <1>1, <2>1, <3>1
  <2>2. CASE n.start # Blank
    <3>1. SL!StartIndex(p, v_len) = IF SL!FromEnd(n.start, v_len) > v_len THEN v_len - 1
                                    ELSE SL!FromEnd(n.start, v_len)
      BY <1>2, <2>2 DEF SL!StartIndex
    <3>2. start = SL!PythonIndex(n.start, v_len, -1, v_len - 1)
      BY <2>2
    <3> HIDE DEF start
    <3> QED  BY <1>1, <2>2, <3>1, <3>2 DEF SL!FromEnd, SL!PythonIndex, SL!Clamp
  <2> QED  BY <2>1, <2>2
<1>4. /\ stop \in Int /\ SL!StopIndex(p, v_len) \in Int
      /\ \/ SL!StopIndex(p, v_len) = stop
         \/ SL!StopIndex(p, v_len) >= v_len /\ stop >= v_len - 1
  <2>1. CASE n.stop = Blank
    <3>1. SL!StopIndex(p, v_len) = -1
      BY <1>2, <2>1 DEF SL!StopIndex
    <3> QED  BY <2>1, <3>1
  <2>2. CASE n.stop # Blank
    <3>1. SL!StopIndex(p, v_len) = IF SL!FromEnd(n.stop, v_len) > v_len THEN v_len
                                   ELSE SL!FromEnd(n.stop, v_len)
      BY <2>2 DEF SL!StopIndex
    <3>2. stop = SL!PythonIndex(n.stop, v_len, -1, v_len - 1)
      BY <2>2
    <3> HIDE DEF stop
    <3> QED  BY <1>1, <2>2, <3>1, <3>2 DEF SL!FromEnd, SL!PythonIndex, SL!Clamp
  <2> QED  BY <2>1, <2>2
<1>5. SL!PythonSlice(n, v_len) = SL!Walk(start, stop, p.stride)
  BY <1>2 DEF SL!PythonSlice
<1> HIDE DEF start, stop
<1>6. CASE SL!StopIndex(p, v_len) = stop
  BY <1>3, <1>5, <1>6
<1>7. CASE SL!StopIndex(p, v_len) >= v_len /\ stop >= v_len - 1
  <2>1. start <= SL!StopIndex(p, v_len) /\ start <= stop
    BY <1>1, <1>3, <1>4, <1>7
  <2>2. SL!Walk(start, SL!StopIndex(p, v_len), p.stride) = [i \in 1..0 |-> start + ((i - 1) * p.stride)]
    BY <1>2, <1>3, <1>4, <2>1, EmptyWalk
  <2>3. SL!Walk(start, stop, p.stride) = [i \in 1..0 |-> start + ((i - 1) * p.stride)]
    BY <1>2, <1>3, <1>4, <2>1, EmptyWalk
  <2> QED  BY <1>3, <1>5, <2>2, <2>3
<1> QED  BY <1>4, <1>6, <1>7

(* A slice is read from the members a PDU's own parse left: d_slice is     *)
(* what was set last unless a call overlapped a PDU, and while no call has *)
(* overlapped this PDU every step finds the members as the step before it  *)
(* left them.                                                              *)
StartParsed ==
  /\ d_slice.start \notin {NoNumber, Malformed}
  /\ d_slice.start # Blank => d_start_index = d_slice.start
  /\ d_blank_start = (d_slice.start = Blank)
StopParsed ==
  /\ d_slice.stop # Blank => d_stop_index = d_slice.stop
  /\ d_blank_stop = (d_slice.stop = Blank)
StrideParsed ==
  d_slice.stride # Absent => d_stride_size = IF d_slice.stride = Blank THEN 1 ELSE d_slice.stride
SliceReady ==
  /\ ~SL!Refused(d_slice)
  /\ \/ SL!StrideStale \/ SL!BackwardsFromOutside
     \/ ~SL!Endless /\ SL!Walk(d_start_index, d_stop_index, d_stride_size) = SL!PythonSlice(d_slice, in_len)

Undisturbed ==
  /\ sl_at.set_slice = "idle"
  /\ sl_at.handle_pdu = "store" => arg = d_slice
  /\ sl_at.handle_pdu = "one colon" => d_slice.stride = Absent /\ StartParsed
  /\ sl_at.handle_pdu = "two colons" => d_slice.stride # Absent /\ StartParsed
  /\ sl_at.handle_pdu = "adapt" =>
       ~SL!Refused(d_slice) /\ StartParsed /\ StopParsed /\ StrideParsed
  /\ sl_at.handle_pdu = "loop" => SliceReady

Parsing == {"idle", "start", "one colon", "two colons"}
SliceInv ==
  /\ d_slice \in Notations /\ arg \in Notations
  /\ sl_at \in [{"set_slice", "handle_pdu"} -> Parsing \cup {"store", "adapt", "loop", "for ever"}]
  /\ sl_at.set_slice \in Parsing
  /\ sl_at.handle_pdu # "idle" => in_len \in SliceLengths
  /\ h_set_overlap \in BOOLEAN /\ h_pdu_overlap \in BOOLEAN
  /\ ~h_set_overlap => d_slice = sl_asked
  /\ ~h_set_overlap /\ sl_at.handle_pdu = "store" => arg = sl_asked
  /\ ~h_pdu_overlap /\ sl_at.handle_pdu # "idle" => Undisturbed

(* The members adapted to the data hold the indices Python's reading has.  *)
LEMMA SliceAdapted ==
  ASSUME SL!SliceAssumption, d_slice \in Notations, in_len \in SliceLengths, ~SL!Refused(d_slice),
         StartParsed, StopParsed, StrideParsed, SL!Adapt
  PROVE  SliceReady'
<1> PICK p : p = SL!Members
  OBVIOUS
<1> PICK n : n = d_slice
  OBVIOUS
<1> PICK v_len : v_len = in_len
  OBVIOUS
<1>1. /\ d_start_index' = SL!StartIndex(p, v_len) /\ d_stop_index' = SL!StopIndex(p, v_len)
      /\ d_stride_size' = p.stride /\ d_slice' = n /\ in_len' = v_len
      /\ n \in Notations /\ v_len \in SliceLengths /\ ~SL!Refused(n)
  BY DEF SL!Adapt, SL!Members, SL!handling
<1>2. /\ n.start # Blank => p.start = n.start
      /\ n.stop # Blank => p.stop = n.stop
      /\ p.blank_start = (n.start = Blank) /\ p.blank_stop = (n.stop = Blank)
      /\ n.stride # Absent => p.stride = IF n.stride = Blank THEN 1 ELSE n.stride
  BY DEF SL!Members, StartParsed, StopParsed, StrideParsed
<1>3. ~SL!Refused(d_slice)'
  BY <1>1 DEF SL!Refused
<1>4. SUFFICES ASSUME ~SL!StrideStale', ~SL!BackwardsFromOutside'
               PROVE  /\ ~SL!Endless'
                      /\ SL!Walk(SL!StartIndex(p, v_len), SL!StopIndex(p, v_len), p.stride) = SL!PythonSlice(n, v_len)
  BY <1>1, <1>3 DEF SliceReady
<1>5. p.stride = IF n.stride \in {Blank, Absent} THEN 1 ELSE n.stride
  BY <1>1, <1>2, <1>4 DEF SL!StrideStale
<1>6. p.stride \in Int \ {0}
  BY <1>1, <1>5 DEF SL!SliceAssumption, SL!Refused
<1>7. ~SL!Endless'
  BY <1>1, <1>6 DEF SL!Endless
<1>8. CASE p.stride > 0
  BY <1>1, <1>2, <1>5, <1>7, <1>8, SlicesForwards
<1>9. CASE p.stride < 0
  <2>1. /\ n.start # Blank => ~(n.start < -v_len \/ n.start = v_len)
        /\ n.stop # Blank => ~(n.stop < -v_len)
    BY <1>1, <1>4, <1>9 DEF SL!BackwardsFromOutside
  <2> QED  BY <1>1, <1>2, <1>5, <1>7, <1>9, <2>1, SlicesBackwards
<1> QED  BY <1>6, <1>8, <1>9

(* A call of the application or a PDU begins.                              *)
LEMMA SliceCalls ==
  ASSUME SliceInv, SL!Calls
  PROVE  SliceInv'
<1>1. ASSUME NEW n \in Notations, SL!SetSlice(n) PROVE SliceInv'
  BY <1>1 DEF SliceInv, SL!SetSlice, SL!Go, SL!handling, Parsing
<1>2. ASSUME NEW v_len \in SliceLengths, SL!HandlePdu(v_len) PROVE SliceInv'
  BY <1>2 DEF SliceInv, SL!HandlePdu, SL!Go, Parsing, Undisturbed
<1> QED  BY <1>1, <1>2 DEF SL!Calls

(* The application's own parse overlaps the PDU of a handler in progress.  *)
LEMMA SliceSetSteps ==
  ASSUME SliceInv,
         SL!ParseStart("set_slice") \/ SL!ParseOneColon("set_slice") \/ SL!ParseTwoColons("set_slice")
  PROVE  SliceInv'
<1>1. sl_at.set_slice # "idle"
  BY DEF SL!ParseStart, SL!ParseOneColon, SL!ParseTwoColons
<1>2. h_pdu_overlap \/ sl_at.handle_pdu = "idle"
  BY <1>1 DEF SliceInv, Undisturbed
<1>3. /\ UNCHANGED <<d_slice, arg, in_len, sl_asked, h_pdu_overlap, h_set_overlap>>
      /\ \E place \in Parsing : sl_at' = [sl_at EXCEPT !["set_slice"] = place]
  BY DEF SL!ParseStart, SL!ParseOneColon, SL!ParseTwoColons, SL!ParseStop, SL!Return, SL!Go,
     SL!handling, SL!overlaps, Parsing
<1> QED  BY <1>2, <1>3 DEF SliceInv

(* The handler's steps, from its store to the end of its loop.             *)
LEMMA SliceHandlerSteps ==
  ASSUME SL!SliceAssumption, SliceInv,
         \/ SL!ParseStart("handle_pdu") \/ SL!ParseOneColon("handle_pdu")
         \/ SL!ParseTwoColons("handle_pdu")
         \/ SL!StoreAgain \/ SL!Adapt \/ SL!LoopEnds \/ SL!LoopsForEver
  PROVE  SliceInv'
<1>1. CASE SL!ParseStart("handle_pdu")
  <2>1. /\ UNCHANGED <<d_slice, arg, in_len, sl_asked, h_pdu_overlap, h_set_overlap>>
        /\ sl_at.handle_pdu = "start"
        /\ \E place \in {"idle", "one colon", "two colons"} :
             /\ sl_at' = [sl_at EXCEPT !["handle_pdu"] = place]
             /\ place # "idle" => StartParsed'
             /\ place = "one colon" => d_slice.stride = Absent
             /\ place = "two colons" => d_slice.stride # Absent
    BY <1>1 DEF SL!ParseStart, SL!Go, SL!handling, SL!overlaps, StartParsed
  <2> QED  BY <2>1 DEF SliceInv, Undisturbed, Parsing
<1>2. CASE SL!ParseOneColon("handle_pdu") \/ SL!ParseTwoColons("handle_pdu")
  <2>1. /\ UNCHANGED <<d_slice, arg, in_len, sl_asked, h_pdu_overlap, h_set_overlap>>
        /\ UNCHANGED <<d_start_index, d_blank_start>>
        /\ sl_at.handle_pdu \in {"one colon", "two colons"}
        /\ \E place \in {"idle", "adapt"} : sl_at' = [sl_at EXCEPT !["handle_pdu"] = place]
    BY <1>2 DEF SL!ParseOneColon, SL!ParseTwoColons, SL!ParseStop, SL!Return, SL!Go,
       SL!handling, SL!overlaps
  <2>2. ASSUME Undisturbed, sl_at'.handle_pdu = "adapt"
        PROVE  ~SL!Refused(d_slice) /\ StopParsed' /\ StrideParsed'
    <3>1. CASE SL!ParseOneColon("handle_pdu")
      <4>1. /\ d_slice.stride = Absent /\ StartParsed /\ SL!StopField("handle_pdu") = d_slice.stop
        BY <2>2, <3>1 DEF SL!ParseOneColon, SL!StopField, Undisturbed
      <4>2. d_slice.stop # NoNumber
        BY <2>1, <2>2, <3>1, <4>1 DEF SL!ParseOneColon, SL!Go, SliceInv
      <4> QED  BY <2>1, <3>1, <4>1, <4>2 DEF SL!ParseOneColon, SL!ParseStop, SL!Refused,
               SL!SliceAssumption, StartParsed, StopParsed, StrideParsed
    <3>2. CASE SL!ParseTwoColons("handle_pdu")
      <4>1. /\ d_slice.stride # Absent /\ StartParsed /\ SL!StopField("handle_pdu") = d_slice.stop
            /\ SL!StrideField = d_slice.stride
        BY <2>2, <3>2 DEF SL!ParseTwoColons, SL!StopField, SL!StrideField, Undisturbed
      <4>2. d_slice.stop # NoNumber /\ d_slice.stride \notin {NoNumber, 0}
        BY <2>1, <2>2, <3>2, <4>1 DEF SL!ParseTwoColons, SL!Go, SliceInv
      <4> QED  BY <2>1, <3>2, <4>1, <4>2 DEF SL!ParseTwoColons, SL!ParseStop, SL!Refused,
               StartParsed, StopParsed, StrideParsed
    <3> QED  BY <1>2, <3>1, <3>2
  <2>3. ASSUME Undisturbed PROVE StartParsed'
    BY <2>1, <2>3 DEF Undisturbed, StartParsed
  <2>4. SL!Refused(d_slice)' = SL!Refused(d_slice)
    BY <2>1 DEF SL!Refused
  <2> QED  BY <2>1, <2>2, <2>3, <2>4 DEF SliceInv, Undisturbed, Parsing
<1>3. CASE SL!StoreAgain
  BY <1>3 DEF SL!StoreAgain, SL!Go, SL!handling, SL!overlaps, SliceInv, Undisturbed, Parsing
<1>4. CASE SL!Adapt
  <2>1. ASSUME Undisturbed PROVE SliceReady'
    BY <1>4, <2>1, SliceAdapted DEF SL!Adapt, SliceInv, Undisturbed
  <2> QED  BY <1>4, <2>1 DEF SL!Adapt, SL!Go, SL!handling, SL!overlaps, SliceInv, Undisturbed, Parsing
<1>5. CASE SL!LoopEnds \/ SL!LoopsForEver
  BY <1>5 DEF SL!LoopEnds, SL!LoopsForEver, SL!Go, SL!handling, SL!overlaps, SliceInv, Undisturbed, Parsing
<1> QED  BY <1>1, <1>2, <1>3, <1>4, <1>5

(* The invariant of pdu_slice.                                             *)
LEMMA SliceStep ==
  ASSUME SL!SliceAssumption, SliceInv, SL!Next \/ UNCHANGED SLvars
  PROVE  SliceInv'
<1>1. CASE UNCHANGED SLvars
  <2>1. SliceReady' = SliceReady
    BY <1>1 DEF SLvars, SliceReady, SL!Refused, SL!StrideStale, SL!BackwardsFromOutside, SL!Endless
  <2>2. Undisturbed' = Undisturbed
    BY <1>1, <2>1 DEF SLvars, Undisturbed, StartParsed, StopParsed, StrideParsed, SL!Refused
  <2> QED  BY <1>1, <2>2 DEF SLvars, SliceInv
<1>2. CASE SL!Next
  <2>1. ASSUME SL!Within
        PROVE  \/ /\ \/ SL!ParseStart("set_slice") \/ SL!ParseOneColon("set_slice")
                     \/ SL!ParseTwoColons("set_slice")
               \/ \/ SL!ParseStart("handle_pdu") \/ SL!ParseOneColon("handle_pdu")
                  \/ SL!ParseTwoColons("handle_pdu")
                  \/ SL!StoreAgain \/ SL!Adapt \/ SL!LoopEnds \/ SL!LoopsForEver
    BY <2>1 DEF SL!Within
  <2> QED  BY <1>2, <2>1, SliceCalls, SliceSetSteps, SliceHandlerSteps DEF SL!Next
<1> QED  BY <1>1, <1>2

(* pdu_slice publishes every PDU that no set_slice overlaps, cut like      *)
(* Python does by the notation set last, whatever earlier notations,       *)
(* refused ones and PDUs left behind, unless the stride is an earlier one  *)
(* or a negative stride starts or stops outside of the data.               *)
THEOREM SlicedRight == BlocksSpec => SlicesLikePython
<1> DEFINE I == block = "pdu_slice" => SliceInv
<1>0. SL!SliceAssumption
  BY BlockAssumptions
<1>1. BlocksInit => I
  BY BlockBegins DEF SL!Init, SliceInv, Parsing
<1>2. I /\ [BlocksNext]_allvars => I'
  BY <1>0, BlockSteps, SliceStep
<1>3. I => (block = "pdu_slice" => SL!SlicedLikePython)
  BY DEF SL!SlicedLikePython, SL!LoopEnds, SL!LoopsForEver, SliceInv, Undisturbed, SliceReady
<1> HIDE DEF I
<1>4. BlocksSpec => []I
  BY <1>1, <1>2, PTL DEF BlocksSpec
<1>5. I => [block = "pdu_slice" => SL!SlicedLikePython]_SLvars
  BY <1>3
<1> QED  BY <1>4, <1>5, PTL DEF SlicesLikePython

-----------------------------------------------------------------------------
(* The bit vectors: eight bits and their byte.                             *)

EightBits == [1..8 -> {0, 1}]

(* The bits of byte i, and eight bits turned around.                       *)
Eight(bits, i) == [j \in 1..8 |-> bits[(8 * (i - 1)) + j]]
Turned(b) == [j \in 1..8 |-> b[9 - j]]

(* The byte that packing makes of eight bits.                              *)
Digits(b) ==
  b[1] + 2 * b[2] + 4 * b[3] + 8 * b[4] + 16 * b[5] + 32 * b[6] + 64 * b[7] + 128 * b[8]
ByteValue(o, b) == Digits(IF o = BV!LsbFirst THEN b ELSE Turned(b))

(* Whoever shifts in the bits one by one has their byte in the end.        *)
LEMMA ShiftedIn ==
  ASSUME NEW o, NEW b \in EightBits, NEW v \in [0..8 -> Int], v[0] = 0,
         \A j \in 1..8 : v[j] = BV!ShiftIn(o, v[j - 1], b[j])
  PROVE  v[8] = ByteValue(o, b)
<1> PICK b1, b2, b3, b4, b5, b6, b7, b8 :
      /\ b1 = b[1] /\ b2 = b[2] /\ b3 = b[3] /\ b4 = b[4]
      /\ b5 = b[5] /\ b6 = b[6] /\ b7 = b[7] /\ b8 = b[8]
  OBVIOUS
<1>1. /\ b1 \in {0, 1} /\ b2 \in {0, 1} /\ b3 \in {0, 1} /\ b4 \in {0, 1}
      /\ b5 \in {0, 1} /\ b6 \in {0, 1} /\ b7 \in {0, 1} /\ b8 \in {0, 1}
  BY DEF EightBits
<1>2. CASE o = BV!LsbFirst
  <2>1. ASSUME NEW j \in 1..8  PROVE v[j] = (v[j - 1] \div 2) + 128 * b[j]
    <3>1. v[j] = BV!ShiftIn(o, v[j - 1], b[j]) /\ b[j] \in {0, 1}
      BY DEF EightBits
    <3> QED  BY <1>2, <3>1 DEF BV!ShiftIn
  <2>2. v[1] = 128 * b1
    <3>1. v[1] = (v[0] \div 2) + 128 * b1
      BY <2>1
    <3>2. v[0] \div 2 = 0
      BY v[0] = 0
    <3> QED  BY ONLY <1>1, <3>1, <3>2
  <2>3. v[2] = 64 * b1 + 128 * b2
    <3>1. v[2] = (v[1] \div 2) + 128 * b2
      BY <2>1
    <3>2. v[1] \div 2 = 64 * b1
      BY ONLY <1>1, <2>2
    <3> QED  BY ONLY <1>1, <3>1, <3>2
  <2>4. v[3] = 32 * b1 + 64 * b2 + 128 * b3
    <3>1. v[3] = (v[2] \div 2) + 128 * b3
      BY <2>1
    <3>2. v[2] \div 2 = 32 * b1 + 64 * b2
      BY ONLY <1>1, <2>3
    <3> QED  BY ONLY <1>1, <3>1, <3>2
  <2>5. v[4] = 16 * b1 + 32 * b2 + 64 * b3 + 128 * b4
    <3>1. v[4] = (v[3] \div 2) + 128 * b4
      BY <2>1
    <3>2. v[3] \div 2 = 16 * b1 + 32 * b2 + 64 * b3
      BY ONLY <1>1, <2>4
    <3> QED  BY ONLY <1>1, <3>1, <3>2
  <2>6. v[5] = 8 * b1 + 16 * b2 + 32 * b3 + 64 * b4 + 128 * b5
    <3>1. v[5] = (v[4] \div 2) + 128 * b5
      BY <2>1
    <3>2. v[4] \div 2 = 8 * b1 + 16 * b2 + 32 * b3 + 64 * b4
      BY ONLY <1>1, <2>5
    <3> QED  BY ONLY <1>1, <3>1, <3>2
  <2>7. v[6] = 4 * b1 + 8 * b2 + 16 * b3 + 32 * b4 + 64 * b5 + 128 * b6
    <3>1. v[6] = (v[5] \div 2) + 128 * b6
      BY <2>1
    <3>2. v[5] \div 2 = 4 * b1 + 8 * b2 + 16 * b3 + 32 * b4 + 64 * b5
      BY ONLY <1>1, <2>6
    <3> QED  BY ONLY <1>1, <3>1, <3>2
  <2>8. v[7] = 2 * b1 + 4 * b2 + 8 * b3 + 16 * b4 + 32 * b5 + 64 * b6 + 128 * b7
    <3>1. v[7] = (v[6] \div 2) + 128 * b7
      BY <2>1
    <3>2. v[6] \div 2 = 2 * b1 + 4 * b2 + 8 * b3 + 16 * b4 + 32 * b5 + 64 * b6
      BY ONLY <1>1, <2>7
    <3> QED  BY ONLY <1>1, <3>1, <3>2
  <2>9. v[8] = b1 + 2 * b2 + 4 * b3 + 8 * b4 + 16 * b5 + 32 * b6 + 64 * b7 + 128 * b8
    <3>1. v[8] = (v[7] \div 2) + 128 * b8
      BY <2>1
    <3>2. v[7] \div 2 = b1 + 2 * b2 + 4 * b3 + 8 * b4 + 16 * b5 + 32 * b6 + 64 * b7
      BY ONLY <1>1, <2>8
    <3> QED  BY ONLY <1>1, <3>1, <3>2
  <2> QED  BY <1>2, <2>9 DEF ByteValue, Digits
<1>3. CASE o # BV!LsbFirst
  <2>1. ASSUME NEW j \in 1..8  PROVE v[j] = ((v[j - 1] * 2) % 256) + b[j]
    <3>1. v[j] = BV!ShiftIn(o, v[j - 1], b[j]) /\ b[j] \in {0, 1}
      BY DEF EightBits
    <3> QED  BY <1>3, <3>1 DEF BV!ShiftIn
  <2>2. v[1] = b1
    <3>1. v[1] = ((v[0] * 2) % 256) + b1
      BY <2>1
    <3>2. (v[0] * 2) % 256 = 0
      BY v[0] = 0
    <3> QED  BY ONLY <1>1, <3>1, <3>2
  <2>3. v[2] = b2 + 2 * b1
    <3>1. v[2] = ((v[1] * 2) % 256) + b2
      BY <2>1
    <3>2. (v[1] * 2) % 256 = 2 * b1
      BY ONLY <1>1, <2>2
    <3> QED  BY ONLY <1>1, <3>1, <3>2
  <2>4. v[3] = b3 + 2 * b2 + 4 * b1
    <3>1. v[3] = ((v[2] * 2) % 256) + b3
      BY <2>1
    <3>2. (v[2] * 2) % 256 = 2 * b2 + 4 * b1
      BY ONLY <1>1, <2>3
    <3> QED  BY ONLY <1>1, <3>1, <3>2
  <2>5. v[4] = b4 + 2 * b3 + 4 * b2 + 8 * b1
    <3>1. v[4] = ((v[3] * 2) % 256) + b4
      BY <2>1
    <3>2. (v[3] * 2) % 256 = 2 * b3 + 4 * b2 + 8 * b1
      BY ONLY <1>1, <2>4
    <3> QED  BY ONLY <1>1, <3>1, <3>2
  <2>6. v[5] = b5 + 2 * b4 + 4 * b3 + 8 * b2 + 16 * b1
    <3>1. v[5] = ((v[4] * 2) % 256) + b5
      BY <2>1
    <3>2. (v[4] * 2) % 256 = 2 * b4 + 4 * b3 + 8 * b2 + 16 * b1
      BY ONLY <1>1, <2>5
    <3> QED  BY ONLY <1>1, <3>1, <3>2
  <2>7. v[6] = b6 + 2 * b5 + 4 * b4 + 8 * b3 + 16 * b2 + 32 * b1
    <3>1. v[6] = ((v[5] * 2) % 256) + b6
      BY <2>1
    <3>2. (v[5] * 2) % 256 = 2 * b5 + 4 * b4 + 8 * b3 + 16 * b2 + 32 * b1
      BY ONLY <1>1, <2>6
    <3> QED  BY ONLY <1>1, <3>1, <3>2
  <2>8. v[7] = b7 + 2 * b6 + 4 * b5 + 8 * b4 + 16 * b3 + 32 * b2 + 64 * b1
    <3>1. v[7] = ((v[6] * 2) % 256) + b7
      BY <2>1
    <3>2. (v[6] * 2) % 256 = 2 * b6 + 4 * b5 + 8 * b4 + 16 * b3 + 32 * b2 + 64 * b1
      BY ONLY <1>1, <2>7
    <3> QED  BY ONLY <1>1, <3>1, <3>2
  <2>9. v[8] = b8 + 2 * b7 + 4 * b6 + 8 * b5 + 16 * b4 + 32 * b3 + 64 * b2 + 128 * b1
    <3>1. v[8] = ((v[7] * 2) % 256) + b8
      BY <2>1
    <3>2. (v[7] * 2) % 256 = 2 * b7 + 4 * b6 + 8 * b5 + 16 * b4 + 32 * b3 + 64 * b2 + 128 * b1
      BY ONLY <1>1, <2>8
    <3> QED  BY ONLY <1>1, <3>1, <3>2
  <2>10. /\ Turned(b)[1] = b8 /\ Turned(b)[2] = b7 /\ Turned(b)[3] = b6 /\ Turned(b)[4] = b5
         /\ Turned(b)[5] = b4 /\ Turned(b)[6] = b3 /\ Turned(b)[7] = b2 /\ Turned(b)[8] = b1
    BY DEF Turned
  <2> QED  BY <1>3, <2>9, <2>10 DEF ByteValue, Digits
<1> QED  BY <1>2, <1>3

(* The loop of the code is such a sequence of shifts.                      *)
LEMMA PackedByte ==
  ASSUME NEW o, NEW bits, NEW i \in Nat, Eight(bits, i) \in EightBits
  PROVE  BV!ByteOf(o, bits, i) = ByteValue(o, Eight(bits, i))
<1> DEFINE b == Eight(bits, i)
           body(f) == [j \in 0..8 |->
                         IF j = 0 THEN 0 ELSE BV!ShiftIn(o, f[j - 1], bits[(8 * (i - 1)) + j])]
           v1 == BV!ShiftIn(o, 0, b[1])
           v2 == BV!ShiftIn(o, v1, b[2])
           v3 == BV!ShiftIn(o, v2, b[3])
           v4 == BV!ShiftIn(o, v3, b[4])
           v5 == BV!ShiftIn(o, v4, b[5])
           v6 == BV!ShiftIn(o, v5, b[6])
           v7 == BV!ShiftIn(o, v6, b[7])
           v8 == BV!ShiftIn(o, v7, b[8])
           w == [j \in 0..8 |-> CASE j = 0 -> 0 [] j = 1 -> v1 [] j = 2 -> v2 [] j = 3 -> v3
                                  [] j = 4 -> v4 [] j = 5 -> v5 [] j = 6 -> v6 [] j = 7 -> v7
                                  [] OTHER -> v8]
           f == CHOOSE f : f = body(f)
<1>1. \A j \in 1..8 : bits[(8 * (i - 1)) + j] = b[j]
  BY DEF Eight
<1> HIDE DEF b
<1>2. \E g : g = body(g)
  <2>1. ASSUME NEW j \in 0..8
        PROVE  w[j] = IF j = 0 THEN 0 ELSE BV!ShiftIn(o, w[j - 1], b[j])
    <3>1. /\ w[0] = 0 /\ w[1] = v1 /\ w[2] = v2 /\ w[3] = v3 /\ w[4] = v4 /\ w[5] = v5
          /\ w[6] = v6 /\ w[7] = v7 /\ w[8] = v8
      <4> HIDE DEF v1, v2, v3, v4, v5, v6, v7, v8
      <4> QED  OBVIOUS
    <3>2. j \in {0, 1, 2, 3, 4, 5, 6, 7, 8}
      OBVIOUS
    <3> HIDE DEF w
    <3> QED  BY <3>1, <3>2
  <2>2. w = [j \in 0..8 |-> w[j]]
    OBVIOUS
  <2> HIDE DEF w
  <2>3. w = body(w)
    BY <1>1, <2>1, <2>2
  <2> QED  BY <2>3
<1>3. f = body(f)
  BY <1>2
<1>4. BV!ByteOf(o, bits, i) = f[8]
  BY DEF BV!ByteOf
<1> HIDE DEF f
<1>5. f[0] = 0 /\ \A j \in 1..8 : f[j] = BV!ShiftIn(o, f[j - 1], b[j])
  BY <1>1, <1>3
<1>6. f \in [0..8 -> Int]
  <2>1. \A x \in Int : \A y : BV!ShiftIn(o, x, y) \in Int
    BY DEF BV!ShiftIn
  <2>2. \A j \in 0..8 : f[j] \in Int
    <3> DEFINE T == {j \in 0..8 : f[j] \in Int}
    <3>1. 0 \in T
      BY <1>5
    <3>2. ASSUME NEW k \in 0..8, k \in T, k < 8  PROVE k + 1 \in T
      <4>1. f[k + 1] = BV!ShiftIn(o, f[k], b[k + 1])
        BY <1>5, <3>2
      <4> QED  BY <2>1, <3>2, <4>1
    <3> HIDE DEF T
    <3>3. \A j \in 0..8 : j \in T
      BY ONLY <3>1, <3>2, UpTo
    <3> QED  BY <3>3 DEF T
  <2>3. f = [j \in 0..8 |-> f[j]]
    BY <1>3
  <2> QED  BY <2>2, <2>3
<1>7. b \in EightBits
  BY DEF b
<1>8. f[8] = ByteValue(o, b)
  BY <1>5, <1>6, <1>7, ShiftedIn
<1> QED  BY <1>4, <1>8 DEF b

(* The bits of a byte, by what is above and below them.                    *)
LEMMA DigitsBack ==
  ASSUME NEW b \in EightBits, NEW x, x = Digits(b)
  PROVE  /\ (x \div 1) % 2 = b[1] /\ (x \div 2) % 2 = b[2] /\ (x \div 4) % 2 = b[3]
         /\ (x \div 8) % 2 = b[4] /\ (x \div 16) % 2 = b[5] /\ (x \div 32) % 2 = b[6]
         /\ (x \div 64) % 2 = b[7] /\ (x \div 128) % 2 = b[8]
<1> PICK b1, b2, b3, b4, b5, b6, b7, b8 :
      /\ b1 = b[1] /\ b2 = b[2] /\ b3 = b[3] /\ b4 = b[4]
      /\ b5 = b[5] /\ b6 = b[6] /\ b7 = b[7] /\ b8 = b[8]
  OBVIOUS
<1>1. /\ b1 \in {0, 1} /\ b2 \in {0, 1} /\ b3 \in {0, 1} /\ b4 \in {0, 1}
      /\ b5 \in {0, 1} /\ b6 \in {0, 1} /\ b7 \in {0, 1} /\ b8 \in {0, 1}
  BY DEF EightBits
<1>2. x = b1 + 2 * b2 + 4 * b3 + 8 * b4 + 16 * b5 + 32 * b6 + 64 * b7 + 128 * b8
  BY DEF Digits
<1>3. (x \div 1) % 2 = b1
  BY ONLY <1>1, <1>2
<1>4. (x \div 2) % 2 = b2
  <2>1. x \div 2 = b2 + 2 * b3 + 4 * b4 + 8 * b5 + 16 * b6 + 32 * b7 + 64 * b8
    BY ONLY <1>1, <1>2
  <2> QED  BY ONLY <1>1, <2>1
<1>5. (x \div 4) % 2 = b3
  <2>1. x \div 4 = b3 + 2 * b4 + 4 * b5 + 8 * b6 + 16 * b7 + 32 * b8
    BY ONLY <1>1, <1>2
  <2> QED  BY ONLY <1>1, <2>1
<1>6. (x \div 8) % 2 = b4
  <2>1. x \div 8 = b4 + 2 * b5 + 4 * b6 + 8 * b7 + 16 * b8
    BY ONLY <1>1, <1>2
  <2> QED  BY ONLY <1>1, <2>1
<1>7. (x \div 16) % 2 = b5
  <2>1. x \div 16 = b5 + 2 * b6 + 4 * b7 + 8 * b8
    BY ONLY <1>1, <1>2
  <2> QED  BY ONLY <1>1, <2>1
<1>8. (x \div 32) % 2 = b6
  <2>1. x \div 32 = b6 + 2 * b7 + 4 * b8
    BY ONLY <1>1, <1>2
  <2> QED  BY ONLY <1>1, <2>1
<1>9. (x \div 64) % 2 = b7
  <2>1. x \div 64 = b7 + 2 * b8
    BY ONLY <1>1, <1>2
  <2> QED  BY ONLY <1>1, <2>1
<1>10. (x \div 128) % 2 = b8
  BY ONLY <1>1, <1>2
<1> QED  BY <1>3, <1>4, <1>5, <1>6, <1>7, <1>8, <1>9, <1>10

(* Unpacking a byte gives its bits back.                                   *)
LEMMA BitsBack ==
  ASSUME NEW o, NEW b \in EightBits, NEW j \in 1..8
  PROVE  BV!BitOf(o, ByteValue(o, b), j) = b[j]
<1>1. j \in {1, 2, 3, 4, 5, 6, 7, 8}
  OBVIOUS
<1>2. /\ BV!Weights[1] = 1 /\ BV!Weights[2] = 2 /\ BV!Weights[3] = 4 /\ BV!Weights[4] = 8
      /\ BV!Weights[5] = 16 /\ BV!Weights[6] = 32 /\ BV!Weights[7] = 64 /\ BV!Weights[8] = 128
  BY DEF BV!Weights
<1>3. ASSUME NEW c \in EightBits, NEW k \in {1, 2, 3, 4, 5, 6, 7, 8}
      PROVE  (Digits(c) \div BV!Weights[k]) % 2 = c[k]
  <2> PICK x : x = Digits(c)
    OBVIOUS
  <2>1. /\ (x \div 1) % 2 = c[1] /\ (x \div 2) % 2 = c[2] /\ (x \div 4) % 2 = c[3]
        /\ (x \div 8) % 2 = c[4] /\ (x \div 16) % 2 = c[5] /\ (x \div 32) % 2 = c[6]
        /\ (x \div 64) % 2 = c[7] /\ (x \div 128) % 2 = c[8]
    BY ONLY c \in EightBits, x = Digits(c), DigitsBack
  <2>2. (x \div BV!Weights[k]) % 2 = c[k]
    BY ONLY <1>2, <2>1, k \in {1, 2, 3, 4, 5, 6, 7, 8}
  <2> QED  BY <2>2
<1>4. CASE o = BV!LsbFirst
  BY <1>1, <1>3, <1>4 DEF BV!BitOf, ByteValue
<1>5. CASE o # BV!LsbFirst
  <2>1. Turned(b) \in EightBits /\ Turned(b)[9 - j] = b[j]
    BY DEF Turned, EightBits
  <2>2. 9 - j \in {1, 2, 3, 4, 5, 6, 7, 8}
    OBVIOUS
  <2>3. (Digits(Turned(b)) \div BV!Weights[9 - j]) % 2 = b[j]
    BY <1>3, <2>1, <2>2
  <2> QED  BY <1>5, <2>3 DEF BV!BitOf, ByteValue
<1> QED  BY <1>4, <1>5

(* Positions in whole bytes.                                               *)
LEMMA BytePlace ==
  ASSUME NEW m \in Nat, NEW i \in 1..m, NEW j \in 1..8, NEW k, k = (8 * (i - 1)) + j
  PROVE  k \in 1..(8 * m)
OBVIOUS

LEMMA PlaceInByte ==
  ASSUME NEW m \in Nat, NEW k \in 1..(8 * m)
  PROVE  \E i \in 1..m, j \in 1..8 :
           /\ ((k - 1) \div 8) + 1 = i /\ ((k - 1) % 8) + 1 = j /\ k = (8 * (i - 1)) + j
<1> PICK i, j : i = ((k - 1) \div 8) + 1 /\ j = ((k - 1) % 8) + 1
  OBVIOUS
<1>1. i \in 1..m /\ j \in 1..8 /\ k = (8 * (i - 1)) + j
  OBVIOUS
<1> QED  BY <1>1

(* Eight bits of whole bytes, and eight bits turned around, are bits.      *)
LEMMA EightOk ==
  ASSUME NEW m \in Nat, NEW bits \in [1..(8 * m) -> {0, 1}], NEW i \in 1..m
  PROVE  Eight(bits, i) \in EightBits /\ Turned(Eight(bits, i)) \in EightBits
<1>1. \A j \in 1..8 : (8 * (i - 1)) + j \in 1..(8 * m)
  BY BytePlace
<1>2. Eight(bits, i) \in EightBits
  BY <1>1 DEF Eight, EightBits
<1> HIDE DEF Eight
<1> QED  BY <1>2 DEF Turned, EightBits

(* Padding fills the last byte, and adds nothing to whole bytes.           *)
LEMMA PaddedBits ==
  ASSUME NEW d \in Seq({0, 1})
  PROVE  /\ (Len(d) + 7) \div 8 \in Nat
         /\ Len(BV!Padded(d)) = 8 * ((Len(d) + 7) \div 8)
         /\ BV!Padded(d) \in [1..(8 * ((Len(d) + 7) \div 8)) -> {0, 1}]
         /\ Len(d) % 8 = 0 => BV!Padded(d) = d /\ Len(d) = 8 * (Len(d) \div 8)
<1> PICK n, r : n = Len(d) /\ r = (8 - (n % 8)) % 8
  OBVIOUS
<1>1. n \in Nat /\ r \in Nat /\ n + r = 8 * ((n + 7) \div 8) /\ (n + 7) \div 8 \in Nat
      /\ (n % 8 = 0 => r = 0 /\ n = 8 * (n \div 8))
  <2>1. n \in Nat
    OBVIOUS
  <2> QED  BY ONLY <2>1, r = (8 - (n % 8)) % 8
<1> DEFINE zeros == [i \in 1..r |-> 0]
<1>2. zeros \in Seq({0, 1}) /\ Len(zeros) = r
  BY <1>1
<1>3. BV!Padded(d) = d \o zeros
  BY DEF BV!Padded
<1> HIDE DEF zeros
<1>4. d \o zeros \in Seq({0, 1}) /\ Len(d \o zeros) = n + r
  BY <1>2, ConcatProperties
<1>5. d \o zeros \in [1..(n + r) -> {0, 1}]
  BY <1>4, LenProperties
<1>6. r = 0 => d \o zeros = d
  BY <1>2, ConcatEmptySeq, EmptySeq
<1> QED  BY <1>1, <1>3, <1>4, <1>5, <1>6

(* Whole bytes, packed.                                                    *)
LEMMA Packed ==
  ASSUME NEW d \in Seq({0, 1}), NEW o, NEW m, m = (Len(d) + 7) \div 8
  PROVE  BV!Pack(d, o) = [i \in 1..m |-> ByteValue(o, Eight(BV!Padded(d), i))]
<1> PICK bits : bits = BV!Padded(d)
  OBVIOUS
<1>1. m \in Nat /\ Len(bits) = 8 * m /\ bits \in [1..(8 * m) -> {0, 1}]
  BY PaddedBits
<1>2. Len(bits) \div 8 = m
  BY ONLY <1>1
<1>3. BV!Pack(d, o) = [i \in 1..m |-> BV!ByteOf(o, bits, i)]
  BY <1>2 DEF BV!Pack
<1>4. \A i \in 1..m : BV!ByteOf(o, bits, i) = ByteValue(o, Eight(bits, i))
  BY <1>1, EightOk, PackedByte
<1> QED  BY <1>3, <1>4

(* The bits of m bytes one after the other.                                *)
Spread(b, m) == [k \in 1..(8 * m) |-> b[((k - 1) \div 8) + 1][((k - 1) % 8) + 1]]

(* Bytes of known bits, unpacked.                                          *)
LEMMA Unpacked ==
  ASSUME NEW m \in Nat, NEW o, NEW b \in [1..m -> EightBits],
         NEW bytes, bytes = [i \in 1..m |-> ByteValue(o, b[i])]
  PROVE  BV!Unpack(bytes, o) = Spread(b, m)
<1>1. Len(bytes) = m
  OBVIOUS
<1>2. ASSUME NEW k \in 1..(8 * m)
      PROVE  BV!BitOf(o, bytes[((k - 1) \div 8) + 1], ((k - 1) % 8) + 1)
               = b[((k - 1) \div 8) + 1][((k - 1) % 8) + 1]
  <2>1. PICK i \in 1..m, j \in 1..8 : ((k - 1) \div 8) + 1 = i /\ ((k - 1) % 8) + 1 = j
    BY PlaceInByte
  <2>2. BV!BitOf(o, ByteValue(o, b[i]), j) = b[i][j]
    BY BitsBack
  <2> QED  BY <2>1, <2>2
<1>3. BV!Unpack(bytes, o) =
        [k \in 1..(8 * m) |-> BV!BitOf(o, bytes[((k - 1) \div 8) + 1], ((k - 1) % 8) + 1)]
  BY <1>1 DEF BV!Unpack
<1> QED  BY <1>2, <1>3 DEF Spread

(* Packing and unpacking pads to whole bytes.                              *)
LEMMA BytesRoundTrip ==
  ASSUME NEW d \in Seq({0, 1}), NEW o
  PROVE  BV!Unpack(BV!Pack(d, o), o) = BV!Padded(d)
<1> PICK m, bits : m = (Len(d) + 7) \div 8 /\ bits = BV!Padded(d)
  OBVIOUS
<1> DEFINE b == [i \in 1..m |-> Eight(bits, i)]
<1>1. m \in Nat /\ bits \in [1..(8 * m) -> {0, 1}]
  BY PaddedBits
<1>2. b \in [1..m -> EightBits] /\ \A i \in 1..m : b[i] = Eight(bits, i)
  BY <1>1, EightOk
<1>3. BV!Pack(d, o) = [i \in 1..m |-> ByteValue(o, Eight(bits, i))]
  BY Packed
<1> HIDE DEF b
<1>4. BV!Pack(d, o) = [i \in 1..m |-> ByteValue(o, b[i])]
  BY <1>2, <1>3
<1>5. BV!Unpack(BV!Pack(d, o), o)
        = Spread(b, m)
  BY ONLY <1>1, <1>2, <1>4, Unpacked
<1>6. ASSUME NEW k \in 1..(8 * m)
      PROVE  b[((k - 1) \div 8) + 1][((k - 1) % 8) + 1] = bits[k]
  <2>1. PICK i \in 1..m, j \in 1..8 :
          ((k - 1) \div 8) + 1 = i /\ ((k - 1) % 8) + 1 = j /\ k = (8 * (i - 1)) + j
    BY <1>1, PlaceInByte
  <2>2. b[i][j] = bits[k]
    <3>1. Eight(bits, i)[j] = bits[(8 * (i - 1)) + j]
      BY DEF Eight
    <3>2. b[i] = Eight(bits, i)
      BY <1>2
    <3> QED  BY <2>1, <3>1, <3>2
  <2> QED  BY <2>1, <2>2
<1>7. bits = [k \in 1..(8 * m) |-> bits[k]]
  BY <1>1
<1> QED  BY <1>5, <1>6, <1>7 DEF Spread

(* The table turns the eight bits of a byte around, in both bit orders.    *)
LEMMA ReversedByte ==
  ASSUME NEW o, NEW b \in EightBits
  PROVE  BV!BitReverse(ByteValue(o, b)) = ByteValue(o, Turned(b))
<1>1. Turned(b) \in EightBits /\ Turned(Turned(b)) = b
  BY DEF Turned, EightBits
<1>2. ASSUME NEW c \in EightBits
      PROVE  BV!BitReverse(ByteValue(BV!LsbFirst, c)) = ByteValue(BV!MsbFirst, c)
  <2> PICK byte : byte = ByteValue(BV!LsbFirst, c)
    OBVIOUS
  <2> DEFINE one == [i \in 1..1 |-> c]
  <2>1. <<byte>> = [i \in 1..1 |-> ByteValue(BV!LsbFirst, one[i])]
    OBVIOUS
  <2>2. one \in [1..1 -> EightBits]
    OBVIOUS
  <2>3. \A k \in 1..8 : one[((k - 1) \div 8) + 1][((k - 1) % 8) + 1] = c[k]
    OBVIOUS
  <2> HIDE DEF one
  <2>4. BV!Unpack(<<byte>>, BV!LsbFirst)
          = Spread(one, 1)
    BY ONLY 1 \in Nat, <2>1, <2>2, Unpacked
  <2>5. BV!Unpack(<<byte>>, BV!LsbFirst) = [k \in 1..8 |-> c[k]]
    BY <2>3, <2>4 DEF Spread
  <2>6. c = [k \in 1..8 |-> c[k]] /\ c \in Seq({0, 1}) /\ Len(c) = 8
    <3>1. c \in [1..8 -> {0, 1}]
      BY DEF EightBits
    <3>2. c \in Seq({0, 1})
      BY ONLY <3>1, SeqDef, 8 \in Nat
    <3> QED  BY ONLY <3>1, <3>2, LenProperties
  <2>7. BV!Padded(c) = c
    <3>1. Len(c) % 8 = 0
      BY ONLY <2>6
    <3> QED  BY <2>6, <3>1, PaddedBits
  <2>8. BV!Pack(c, BV!MsbFirst) = [i \in 1..1 |-> ByteValue(BV!MsbFirst, Eight(c, i))]
    <3>1. (Len(c) + 7) \div 8 = 1
      BY <2>6
    <3> QED  BY <2>6, <2>7, <3>1, Packed
  <2>9. Eight(c, 1) = c
    BY <2>6 DEF Eight
  <2> QED  BY <2>5, <2>6, <2>8, <2>9 DEF BV!BitReverse
<1>3. BV!MsbFirst # BV!LsbFirst
  BY DEF BV!MsbFirst, BV!LsbFirst
<1>4. CASE o = BV!LsbFirst
  BY <1>2, <1>3, <1>4 DEF ByteValue
<1>5. CASE o # BV!LsbFirst
  <2>1. ByteValue(o, b) = ByteValue(BV!LsbFirst, Turned(b))
    BY <1>5 DEF ByteValue
  <2>2. ByteValue(o, Turned(b)) = ByteValue(BV!MsbFirst, Turned(b))
    BY <1>3, <1>5 DEF ByteValue
  <2> QED  BY <1>1, <1>2, <2>1, <2>2
<1> QED  BY <1>4, <1>5

(* What turning bytes around does to the positions of bits.                *)
LEMMA Swapped ==
  ASSUME NEW m \in Nat, NEW bits \in [1..(8 * m) -> {0, 1}], NEW i \in 1..m, NEW j \in 1..8,
         NEW k, k = (8 * (i - 1)) + j, Len(bits) = 8 * m
  PROVE  BV!EndianSwap(bits)[k] = Turned(Eight(bits, i))[j]
<1>1. k \in 1..(8 * m) /\ (k - 1) % 8 = j - 1 /\ k \in Int
  <2>1. ((k - 1) % 8) + 1 = j /\ k \in 1..(8 * m)
    BY ONLY m \in Nat, i \in 1..m, j \in 1..8, k = (8 * (i - 1)) + j
  <2>2. k \in Int /\ (k - 1) % 8 \in Int
    BY <2>1
  <2> QED  BY <2>1, <2>2
<1>2. 8 * (Len(bits) \div 8) = 8 * m
  OBVIOUS
<1>3. BV!EndianSwap(bits)[k] = LET first == k - ((k - 1) % 8) IN bits[2 * first + 7 - k]
  BY <1>1, <1>2 DEF BV!EndianSwap
<1>4. (2 * (k - ((k - 1) % 8)) + 7) - k = (8 * (i - 1)) + (9 - j)
  BY <1>1
<1>5. BV!EndianSwap(bits)[k] = bits[(8 * (i - 1)) + (9 - j)]
  BY <1>3, <1>4
<1> QED  BY <1>5 DEF Turned, Eight

LEMMA SwappedType ==
  ASSUME NEW m \in Nat, NEW bits \in [1..(8 * m) -> {0, 1}], Len(bits) = 8 * m
  PROVE  /\ BV!EndianSwap(bits) = [k \in 1..(8 * m) |-> BV!EndianSwap(bits)[k]]
         /\ BV!EndianSwap(bits) \in [1..(8 * m) -> {0, 1}]
<1>1. DOMAIN BV!EndianSwap(bits) = 1..(8 * m)
      /\ BV!EndianSwap(bits) = [k \in 1..(8 * m) |-> BV!EndianSwap(bits)[k]]
  BY DEF BV!EndianSwap
<1>2. ASSUME NEW k \in 1..(8 * m)  PROVE BV!EndianSwap(bits)[k] \in {0, 1}
  <2>1. PICK i \in 1..m, j \in 1..8 : k = (8 * (i - 1)) + j
    BY PlaceInByte
  <2>2. BV!EndianSwap(bits)[k] = Turned(Eight(bits, i))[j]
    BY <2>1, Swapped
  <2> QED  BY <2>2, EightOk DEF EightBits
<1> QED  BY <1>1, <1>2

(* A bitswap in between turns the bits of every byte around.               *)
LEMMA SwapRoundTrip ==
  ASSUME NEW d \in Seq({0, 1}), NEW o
  PROVE  BV!Unpack(BV!Bitswap(BV!Pack(d, o)), o) = BV!EndianSwap(BV!Padded(d))
<1> PICK m, bits : m = (Len(d) + 7) \div 8 /\ bits = BV!Padded(d)
  OBVIOUS
<1> DEFINE b == [i \in 1..m |-> Turned(Eight(bits, i))]
<1>1. m \in Nat /\ bits \in [1..(8 * m) -> {0, 1}] /\ Len(bits) = 8 * m
  BY PaddedBits
<1>2. b \in [1..m -> EightBits] /\ \A i \in 1..m : b[i] = Turned(Eight(bits, i))
  BY <1>1, EightOk
<1>3. BV!Pack(d, o) = [i \in 1..m |-> ByteValue(o, Eight(bits, i))]
  BY Packed
<1> HIDE DEF b
<1>4. BV!Bitswap(BV!Pack(d, o)) = [i \in 1..m |-> BV!BitReverse(ByteValue(o, Eight(bits, i)))]
  BY <1>3 DEF BV!Bitswap
<1>5. \A i \in 1..m : BV!BitReverse(ByteValue(o, Eight(bits, i))) = ByteValue(o, b[i])
  BY <1>1, <1>2, EightOk, ReversedByte
<1>6. BV!Bitswap(BV!Pack(d, o)) = [i \in 1..m |-> ByteValue(o, b[i])]
  BY <1>4, <1>5
<1>7. BV!Unpack(BV!Bitswap(BV!Pack(d, o)), o)
        = Spread(b, m)
  BY ONLY <1>1, <1>2, <1>6, Unpacked
<1>8. ASSUME NEW k \in 1..(8 * m)
      PROVE  b[((k - 1) \div 8) + 1][((k - 1) % 8) + 1] = BV!EndianSwap(bits)[k]
  <2>1. PICK i \in 1..m, j \in 1..8 :
          ((k - 1) \div 8) + 1 = i /\ ((k - 1) % 8) + 1 = j /\ k = (8 * (i - 1)) + j
    BY <1>1, PlaceInByte
  <2>2. BV!EndianSwap(bits)[k] = b[i][j]
    <3>1. BV!EndianSwap(bits)[k] = Turned(Eight(bits, i))[j]
      BY ONLY <1>1, <2>1, i \in 1..m, j \in 1..8, Swapped
    <3> QED  BY <1>2, <3>1
  <2> QED  BY <2>1, <2>2
<1> QED  BY <1>1, <1>7, <1>8, SwappedType DEF Spread

(* Turning eight bits around is packing in the other order.                *)
LEMMA OtherOrder ==
  ASSUME NEW d \in Seq({0, 1}), NEW o, Len(d) % 8 = 0
  PROVE  BV!Pack(BV!EndianSwap(d), o) = BV!Pack(d, BV!Other(o))
<1> PICK m, e : m = Len(d) \div 8 /\ e = BV!EndianSwap(d)
  OBVIOUS
<1>1. BV!Padded(d) = d /\ Len(d) = 8 * m
  BY PaddedBits
<1>2. m \in Nat /\ d \in [1..(8 * m) -> {0, 1}] /\ (Len(d) + 7) \div 8 = m
  <2>1. Len(d) \in Nat
    OBVIOUS
  <2>2. m \in Nat /\ (Len(d) + 7) \div 8 = m
    BY ONLY <1>1, <2>1, m = Len(d) \div 8
  <2> QED  BY <1>1, <2>2, LenProperties
<1>3. e \in [1..(8 * m) -> {0, 1}]
  BY <1>1, <1>2, SwappedType
<1>4. e \in Seq({0, 1}) /\ Len(e) = 8 * m
  BY <1>2, <1>3
<1>5. Len(e) % 8 = 0 /\ (Len(e) + 7) \div 8 = m
  BY ONLY <1>2, <1>4
<1>6. BV!Padded(e) = e
  BY <1>4, <1>5, PaddedBits
<1>7. BV!Pack(e, o) = [i \in 1..m |-> ByteValue(o, Eight(e, i))]
  BY <1>4, <1>5, <1>6, Packed
<1>8. BV!Pack(d, BV!Other(o)) = [i \in 1..m |-> ByteValue(BV!Other(o), Eight(d, i))]
  BY <1>1, <1>2, Packed
<1>9. ASSUME NEW i \in 1..m
      PROVE  ByteValue(o, Eight(e, i)) = ByteValue(BV!Other(o), Eight(d, i))
  <2> PICK c : c = Eight(d, i)
    OBVIOUS
  <2>1. c \in EightBits
    BY <1>2, EightOk
  <2>2. \A j \in 1..8 : e[(8 * (i - 1)) + j] = Turned(c)[j]
    BY <1>1, <1>2, Swapped
  <2>3. Eight(e, i) = Turned(c)
    BY <2>2 DEF Eight, Turned
  <2>4. Turned(Turned(c)) = c
    BY <2>1 DEF Turned, EightBits
  <2> QED  BY <2>3, <2>4 DEF ByteValue, BV!Other, BV!LsbFirst, BV!MsbFirst
<1> QED  BY <1>7, <1>8, <1>9

(* One item for one: to and from NRZ symbols, and flipped twice.           *)
LEMMA ItemsRoundTrip ==
  ASSUME NEW d \in Seq({0, 1})
  PROVE  /\ BV!FromNrz(BV!ToNrz(d)) = d /\ BV!Slice(BV!ToNrz(d)) = d
         /\ BV!BitFlip(BV!BitFlip(d)) = d
<1>1. d = [i \in DOMAIN d |-> d[i]] /\ \A i \in DOMAIN d : d[i] \in {0, 1}
  OBVIOUS
<1>2. BV!FromNrz(BV!ToNrz(d)) = [i \in DOMAIN d |-> ((d[i] * 2 - 1) + 1) \div 2]
  BY DEF BV!FromNrz, BV!ToNrz
<1>3. BV!Slice(BV!ToNrz(d)) = [i \in DOMAIN d |-> IF d[i] * 2 - 1 > 0 THEN 1 ELSE 0]
  BY DEF BV!Slice, BV!ToNrz
<1>4. ASSUME NEW i \in DOMAIN d
      PROVE  /\ ((d[i] * 2 - 1) + 1) \div 2 = d[i]
             /\ (IF d[i] * 2 - 1 > 0 THEN 1 ELSE 0) = d[i]
             /\ BV!BitFlip(BV!BitFlip(d))[i] = d[i]
  <2>1. d[i] = 0 \/ d[i] = 1
    BY <1>1
  <2>2. BV!BitFlip(d)[i] = 1 - d[i] /\ DOMAIN BV!BitFlip(d) = DOMAIN d
    BY <2>1 DEF BV!BitFlip
  <2>3. BV!BitFlip(BV!BitFlip(d))[i] = d[i]
    BY <2>1, <2>2 DEF BV!BitFlip
  <2> QED  BY <2>1, <2>3
<1>5. BV!BitFlip(BV!BitFlip(d)) = [i \in DOMAIN d |-> BV!BitFlip(BV!BitFlip(d))[i]]
  BY DEF BV!BitFlip
<1> QED  BY <1>1, <1>2, <1>3, <1>4, <1>5

(* Two symbols for one item.                                               *)
LEMMA ManchesterRoundTrip ==
  ASSUME NEW d \in Seq({0, 1})
  PROVE  BV!ManchesterDecode(BV!ManchesterEncode(d)) = d
<1> PICK n, e : n = Len(d) /\ e = BV!ManchesterEncode(d)
  OBVIOUS
<1>1. n \in Nat /\ d = [i \in 1..n |-> d[i]] /\ \A i \in 1..n : d[i] \in {0, 1}
  OBVIOUS
<1>2. Len(e) = 2 * n
  BY <1>1 DEF BV!ManchesterEncode
<1>3. ASSUME NEW i \in 1..n
      PROVE  (IF e[2 * i] < e[2 * i - 1] THEN 1 ELSE 0) = d[i]
  <2>1. /\ 2 * i \in 1..(2 * n) /\ 2 * i - 1 \in 1..(2 * n)
        /\ (2 * i) % 2 = 0 /\ (2 * i - 1) % 2 = 1
        /\ ((2 * i) + 1) \div 2 = i /\ ((2 * i - 1) + 1) \div 2 = i
    <3>1. i \in Nat /\ n \in Nat /\ 1 <= i /\ i <= n
      BY <1>1
    <3>2. 2 * i \in 1..(2 * n) /\ 2 * i - 1 \in 1..(2 * n)
      BY ONLY <3>1
    <3>3. (2 * i) % 2 = 0 /\ (2 * i - 1) % 2 = 1
      BY ONLY <3>1
    <3>4. ((2 * i) + 1) \div 2 = i /\ ((2 * i - 1) + 1) \div 2 = i
      BY ONLY <3>1
    <3> QED  BY <3>2, <3>3, <3>4
  <2>2. e[2 * i - 1] = IF d[i] # 0 THEN 1 ELSE 0
    BY <2>1 DEF BV!ManchesterEncode
  <2>3. e[2 * i] = IF d[i] # 0 THEN 0 ELSE 1
    BY <2>1 DEF BV!ManchesterEncode
  <2> QED  BY <1>1, <2>2, <2>3
<1>4. Len(e) \div 2 = n
  BY ONLY <1>1, <1>2
<1>5. BV!ManchesterDecode(e) = [i \in 1..n |-> IF e[2 * i] < e[2 * i - 1] THEN 1 ELSE 0]
  BY <1>4 DEF BV!ManchesterDecode
<1> QED  BY <1>1, <1>3, <1>5

(* n samples for one item, of which any repeated one will do.              *)
LEMMA SamplesRoundTrip ==
  ASSUME NEW d \in Seq({0, 1}), NEW n \in Nat \ {0}, NEW rep \in BOOLEAN,
         NEW phase \in 0..(n - 1), rep \/ phase = 0
  PROVE  BV!Downsample(BV!Upsample(d, n, rep), n, phase) = d
<1> PICK l, u : l = Len(d) /\ u = BV!Upsample(d, n, rep)
  OBVIOUS
<1>1. l \in Nat /\ n * l \in Nat /\ d = [i \in 1..l |-> d[i]] /\ phase \in Nat /\ phase < n
  <2>1. l \in Nat /\ d = [i \in 1..l |-> d[i]]
    OBVIOUS
  <2>2. n * l \in Nat
    BY ONLY <2>1, n \in Nat \ {0}
  <2> QED  BY <2>1, <2>2
<1>2. Len(u) = n * l
  BY <1>1 DEF BV!Upsample
<1>3. (IF Len(u) > phase THEN (((Len(u) - phase) + n) - 1) \div n ELSE 0) = l
  <2>1. CASE l = 0
    <3>1. n * l = 0
      BY ONLY <2>1, n \in Nat \ {0}
    <3> QED  BY <1>1, <1>2, <2>1, <3>1
  <2>2. CASE l # 0
    <3>1. n * l >= n
      <4>1. n * l = n * (l - 1) + n /\ n * (l - 1) \in Nat
        BY ONLY <1>1, <2>2, n \in Nat \ {0}
      <4> QED  BY <4>1
    <3>2. ((Len(u) - phase) + n) - 1 = l * n + ((n - 1) - phase) /\ (n - 1) - phase \in Nat
          /\ (n - 1) - phase < n
      <4>1. n * l = l * n
        BY ONLY <1>1, n \in Nat \ {0}
      <4> QED  BY <1>1, <1>2, <4>1
    <3>3. (l * n + ((n - 1) - phase)) \div n = l
      BY ONLY <1>1, <3>2, n \in Nat \ {0}, Divided
    <3>4. Len(u) > phase
      <4> PICK size : size = n * l
        OBVIOUS
      <4>1. size \in Nat /\ size >= n /\ phase < n /\ Len(u) = size /\ phase \in Nat
        BY <1>1, <1>2, <3>1
      <4> QED  BY ONLY <4>1, n \in Nat \ {0}
    <3> QED  BY <3>2, <3>3, <3>4
  <2> QED  BY <2>1, <2>2
<1>4. ASSUME NEW i \in 1..l  PROVE u[phase + (i - 1) * n + 1] = d[i]
  <2>1. i - 1 \in Nat /\ (i - 1) * n \in Nat /\ (i - 1) * n + n <= n * l
    <3>1. (l - i) * n \in Nat /\ (i - 1) * n \in Nat
      BY ONLY <1>1, i \in 1..l, n \in Nat \ {0}
    <3>2. n * l = ((i - 1) * n + n) + (l - i) * n
      BY ONLY <1>1, i \in 1..l, n \in Nat \ {0}
    <3> QED  BY <1>1, <3>1, <3>2
  <2> PICK k, z, size : k = phase + (i - 1) * n + 1 /\ z = (i - 1) * n /\ size = n * l
    OBVIOUS
  <2>2. k \in 1..(n * l) /\ k - 1 = (i - 1) * n + phase
    <3>1. k = phase + z + 1 /\ z \in Nat /\ phase \in Nat /\ phase < n /\ z + n <= size /\ size \in Nat
      BY <1>1, <2>1
    <3>2. k \in 1..size /\ k - 1 = z + phase
      BY ONLY <3>1, n \in Nat \ {0}
    <3> QED  BY <3>2
  <2>3. (k - 1) \div n = i - 1
    <3>1. ((i - 1) * n + phase) \div n = i - 1
      BY ONLY <1>1, <2>1, n \in Nat \ {0}, Divided
    <3> QED  BY <2>2, <3>1
  <2>4. phase = 0 => (k - 1) % n = 0
    <3>1. SUFFICES ASSUME phase = 0  PROVE (k - 1) % n = 0
      OBVIOUS
    <3>2. k - 1 \in Nat /\ k - 1 = (i - 1) * n
      BY <1>1, <2>1, <2>2, <3>1
    <3>3. k - 1 = n * ((k - 1) \div n) + ((k - 1) % n)
      BY ONLY <3>2, n \in Nat \ {0}
    <3>4. n * (i - 1) = (i - 1) * n /\ (k - 1) % n \in Int
      BY ONLY <2>1, <3>2, n \in Nat \ {0}
    <3> QED  BY <2>1, <2>3, <3>2, <3>3, <3>4
  <2>5. u[k] = IF rep \/ (k - 1) % n = 0 THEN d[((k - 1) \div n) + 1] ELSE 0
    BY <2>2 DEF BV!Upsample
  <2>6. ((k - 1) \div n) + 1 = i
    BY <2>1, <2>3
  <2> QED  BY <2>4, <2>5, <2>6
<1>5. BV!Downsample(u, n, phase) = [i \in 1..l |-> u[phase + (i - 1) * n + 1]]
  BY <1>3 DEF BV!Downsample
<1> QED  BY <1>1, <1>4, <1>5

(* Between the two ends is what the sender made of the data, turned around *)
(* if it was swapped.                                                      *)
LinkInv ==
  /\ bv_data \in Seq({0, 1}) /\ factor \in Nat \ {0} /\ repeat \in BOOLEAN
  /\ coding \in BV!Codings /\ stage \in {"send", "link", "received"}
  /\ stage = "send" => swapped = FALSE
  /\ swapped => coding = "bytes"
  /\ stage = "link" =>
       /\ coding = "bytes" =>
            IF swapped THEN link = BV!Bitswap(BV!Pack(bv_data, order))
                       ELSE link = BV!Pack(bv_data, order)
       /\ coding = "swap" => link = BV!EndianSwap(bv_data)
       /\ coding \in {"nrz", "slice"} => link = BV!ToNrz(bv_data)
       /\ coding = "manchester" => link = BV!ManchesterEncode(bv_data)
       /\ coding = "flip" => link = BV!BitFlip(bv_data)
       /\ coding = "samples" => link = BV!Upsample(bv_data, factor, repeat)
  /\ BV!RoundTrip

LEMMA LinkStep ==
  ASSUME LinkInv, BV!Next \/ UNCHANGED BVvars
  PROVE  LinkInv'
<1>1. CASE BV!Send
  <2>1. /\ stage = "send" /\ stage' = "link" /\ swapped' = FALSE /\ swapped = FALSE
        /\ bv_data' = bv_data /\ order' = order /\ factor' = factor /\ repeat' = repeat
        /\ coding' = coding
    BY <1>1 DEF BV!Send, BV!config, LinkInv
  <2>2. /\ coding = "bytes" => link' = BV!Pack(bv_data, order)
        /\ coding = "swap" => link' = BV!EndianSwap(bv_data)
        /\ coding \in {"nrz", "slice"} => link' = BV!ToNrz(bv_data)
        /\ coding = "manchester" => link' = BV!ManchesterEncode(bv_data)
        /\ coding = "flip" => link' = BV!BitFlip(bv_data)
        /\ coding = "samples" => link' = BV!Upsample(bv_data, factor, repeat)
    BY <1>1 DEF BV!Send
  <2>3. BV!RoundTrip'
    BY <2>1 DEF BV!RoundTrip
  <2> QED  BY <2>1, <2>2, <2>3 DEF LinkInv
<1>2. CASE BV!Swap
  <2>1. /\ stage = "link" /\ stage' = "link" /\ coding = "bytes" /\ ~swapped /\ swapped' = TRUE
        /\ bv_data' = bv_data /\ order' = order /\ factor' = factor /\ repeat' = repeat
        /\ coding' = coding /\ link' = BV!Bitswap(link)
    BY <1>2 DEF BV!Swap, BV!config
  <2>2. link' = BV!Bitswap(BV!Pack(bv_data, order))
    BY <2>1 DEF LinkInv
  <2>3. BV!RoundTrip'
    BY <2>1 DEF BV!RoundTrip
  <2> QED  BY <2>1, <2>2, <2>3 DEF LinkInv
<1>3. CASE BV!Receive
  <2>1. /\ stage = "link" /\ stage' = "received" /\ swapped' = swapped
        /\ bv_data' = bv_data /\ order' = order /\ factor' = factor /\ repeat' = repeat
        /\ coding' = coding /\ link' = link
    BY <1>3 DEF BV!Receive, BV!config
  <2>2. PICK phase \in IF repeat /\ coding = "samples" THEN 0..(factor - 1) ELSE {0} :
          /\ coding = "bytes" => bv_received' = BV!Unpack(link, order)
          /\ coding = "swap" => bv_received' = BV!Pack(link, order)
          /\ coding = "nrz" => bv_received' = BV!FromNrz(link)
          /\ coding = "slice" => bv_received' = BV!Slice(link)
          /\ coding = "manchester" => bv_received' = BV!ManchesterDecode(link)
          /\ coding = "flip" => bv_received' = BV!BitFlip(link)
          /\ coding = "samples" => bv_received' = BV!Downsample(link, factor, phase)
    BY <1>3 DEF BV!Receive
  <2>3. bv_data \in Seq({0, 1}) /\ coding \in BV!Codings
    BY DEF LinkInv
  <2>4. coding = "bytes" =>
          bv_received' = IF swapped THEN BV!EndianSwap(BV!Padded(bv_data)) ELSE BV!Padded(bv_data)
    BY <2>1, <2>2, <2>3, BytesRoundTrip, SwapRoundTrip DEF LinkInv
  <2>5. coding = "swap" /\ Len(bv_data) % 8 = 0 => bv_received' = BV!Pack(bv_data, BV!Other(order))
    BY <2>1, <2>2, <2>3, OtherOrder DEF LinkInv
  <2>6. coding \in {"nrz", "slice", "flip"} => bv_received' = bv_data
    BY <2>1, <2>2, <2>3, ItemsRoundTrip DEF LinkInv
  <2>7. coding = "manchester" => bv_received' = bv_data
    BY <2>1, <2>2, <2>3, ManchesterRoundTrip DEF LinkInv
  <2>8. coding = "samples" => bv_received' = bv_data
    <3>1. SUFFICES ASSUME coding = "samples"  PROVE bv_received' = bv_data
      OBVIOUS
    <3>2. phase \in 0..(factor - 1) /\ (repeat \/ phase = 0) /\ factor \in Nat \ {0}
          /\ repeat \in BOOLEAN
      BY <3>1 DEF LinkInv
    <3>3. BV!Downsample(BV!Upsample(bv_data, factor, repeat), factor, phase) = bv_data
      BY ONLY <2>3, <3>2, SamplesRoundTrip
    <3> QED  BY <2>1, <2>2, <3>1, <3>3 DEF LinkInv
  <2>9. BV!RoundTrip'
    BY <2>1, <2>3, <2>4, <2>5, <2>6, <2>7, <2>8 DEF BV!RoundTrip, BV!Codings
  <2> QED  BY <2>1, <2>9 DEF LinkInv
<1>4. CASE UNCHANGED BVvars
  BY <1>4 DEF BVvars, LinkInv, BV!RoundTrip
<1> QED  BY <1>1, <1>2, <1>3, <1>4 DEF BV!Next

(* The blocks that pack, recode and resample undo each other, for data of  *)
(* any length and any factor.                                              *)
THEOREM AlwaysRoundTrip == BlocksSpec => []RoundTrip
<1> DEFINE I == block = "bit_vectors" => LinkInv
<1>1. BlocksInit => I
  <2>1. ASSUME BV!Init  PROVE LinkInv
    <3>1. bv_data \in Seq({0, 1}) /\ factor \in Nat \ {0} /\ stage = "send"
      BY <2>1, BlockAssumptions DEF BV!Init, BV!BitsAssumption
    <3>2. BV!RoundTrip
      BY <3>1 DEF BV!RoundTrip
    <3> QED  BY <2>1, <3>1, <3>2 DEF BV!Init, LinkInv
  <2> QED  BY <2>1, BlockBegins
<1>2. I /\ [BlocksNext]_allvars => I'
  BY BlockSteps, LinkStep
<1>3. I => RoundTrip
  BY DEF RoundTrip, LinkInv
<1> HIDE DEF I
<1> QED  BY <1>1, <1>2, <1>3, PTL DEF BlocksSpec
=============================================================================
