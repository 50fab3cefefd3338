---------------------- MODULE TagMessageTriggerProofs ----------------------
(***************************************************************************)
(* Proofs about TagMessageTrigger for every stream, chunking, setting and  *)
(* interleaving of the setters with the tags of a call of work(): TypeOK,  *)
(* HoldoffRespected, OneShotPerArming and TxLimitHonoured, and TxTimeExact *)
(* when the start time and the rate set are true.                          *)
(*                                                                         *)
(* HoldoffRespected compares a message with all the earlier ones while the *)
(* code remembers the last one only: PositionInv says that the offsets     *)
(* that trigger, commands included, never go back, and LastInv that the    *)
(* remembered one bounds them all.  OneShotPerArming needs ArmingInv: what *)
(* d_disarm_offset holds while the block is armed.  LimitInv counts what   *)
(* was fired since the limit was set.                                      *)
(***************************************************************************)
EXTENDS TagMessageTrigger, SampleClockProofs, SequenceTheorems, FiniteSetTheorems

-----------------------------------------------------------------------------
(* Types                                                                   *)

LEMMA TxTimeType ==
  ASSUME conf \in Confs, known \in KnownTimes, NEW o \in Nat
  PROVE  TxTime(o) \in Times
<1> DEFINE delta == (o - known.off) * Period(conf.d_samp_rate)
           int_delta == Truncated(delta)
           frac == known.frac + (delta - int_delta * TicksPerSec) + conf.delay.frac
           residual == IF frac > TicksPerSec \/ frac < 0 THEN Truncated(frac) ELSE 0
           sec == known.sec + int_delta + conf.delay.sec
<1>1. /\ known.sec \in Int /\ known.frac \in Int /\ known.off \in Nat
      /\ conf.delay.sec \in Int /\ conf.delay.frac \in Int
      /\ conf.d_samp_rate \in Rates
  BY DEF KnownTimes, Confs, Times
<1>2. delta \in Int
  <2>1. Period(conf.d_samp_rate) \in Nat
    BY <1>1, PeriodNat
  <2> QED  BY <1>1, <2>1
<1>3. TxTime(o) = [sec |-> sec + residual, frac |-> frac - residual * TicksPerSec]
  BY DEF TxTime
<1> HIDE DEF delta
<1>4. int_delta \in Int
  BY <1>2, TruncatedInt
<1> HIDE DEF int_delta
<1>5. frac \in Int /\ sec \in Int
  BY <1>1, <1>2, <1>4, ClockAssumption
<1> HIDE DEF frac, sec
<1>6. residual \in Int
  BY <1>5, TruncatedInt
<1> HIDE DEF residual
<1> QED  BY <1>3, <1>5, <1>6, ClockAssumption DEF Times

LEMMA TagEntryType ==
  ASSUME TypeOK, NEW o \in Nat
  PROVE  TagEntry(o) \in Entries
<1>1. TxTime(o) \in Times
  BY TxTimeType DEF TypeOK
<1>2. /\ conf.d_message \in Messages /\ conf.d_tpdu_mode \in BOOLEAN
      /\ conf.delay \in Times /\ conf.d_holdoff \in Nat
  BY DEF TypeOK, Confs
<1> QED  BY <1>1, <1>2 DEF TagEntry, Entries, TypeOK

-----------------------------------------------------------------------------
(* The inductive invariant                                                 *)

(* Every tag not yet processed lies after all samples consumed and all     *)
(* offsets that triggered.                                                 *)
PositionInv ==
  /\ d_last_trigger_offset <= a_end
  /\ \A k \in next_tag..Len(tags) :
       /\ nitems_read <= tags[k].offset
       /\ d_last_trigger_offset <= tags[k].offset

LastInv ==
  \A i \in 1..Len(published) : published[i].off <= d_last_trigger_offset

(* While the block is armed, no message carries the number of the arming.  *)
ArmingInv ==
  /\ d_armed => /\ h_arm.num > 0
                /\ d_disarm_offset = h_arm.off + h_arm.holdoff
                /\ \A i \in 1..Len(published) :
                     published[i].by = "tag" => published[i].arm.num < h_arm.num
  /\ \A i \in 1..Len(published) : published[i].arm.num <= h_arm.num

IInv == /\ TypeOK /\ PositionInv /\ LastInv /\ ArmingInv
        /\ HoldoffRespected /\ OneShotPerArming

LEMMA EntryTypes ==
  ASSUME TypeOK, NEW i \in 1..Len(published)
  PROVE  /\ published[i] \in Entries
         /\ published[i].off \in Nat /\ published[i].holdoff \in Nat
         /\ published[i].arm.num \in Nat
<1>1. published[i] \in Entries
  BY ElementOfSeq DEF TypeOK
<1> QED  BY <1>1 DEF Entries, Armings

LEMMA AppendEntry ==
  ASSUME TypeOK, NEW e \in Entries, published' = Append(published, e)
  PROVE  /\ published' \in Seq(Entries)
         /\ Len(published) \in Nat
         /\ Len(published') = Len(published) + 1
         /\ published'[Len(published) + 1] = e
         /\ \A i \in 1..Len(published) : published'[i] = published[i]
BY AppendProperties, LenProperties DEF TypeOK

(* A message keeps the invariants about the sequence of messages when its  *)
(* offset is not before the last one and, if a tag published it, outside   *)
(* the holdoff and by an arming not used before.                           *)
LEMMA PublishStep ==
  ASSUME IInv, NEW e \in Entries, published' = Append(published, e),
         d_last_trigger_offset' = e.off, d_last_trigger_offset <= e.off,
         e.by = "tag" /\ e.holdoff # 0 => e.off > d_last_trigger_offset + e.holdoff,
         e.by = "tag" /\ ~e.at_will =>
           /\ d_armed /\ e.arm = h_arm
           /\ e.holdoff # 0 => e.off < d_disarm_offset
  PROVE  /\ published' \in Seq(Entries)
         /\ LastInv'
         /\ HoldoffRespected'
         /\ OneShotPerArming'
<1> USE DEF IInv
<1>1. /\ published' \in Seq(Entries)
      /\ Len(published) \in Nat
      /\ Len(published') = Len(published) + 1
      /\ published'[Len(published) + 1] = e
      /\ \A i \in 1..Len(published) : published'[i] = published[i]
  BY AppendEntry
<1>2. /\ e.off \in Nat /\ e.holdoff \in Nat /\ d_last_trigger_offset \in Nat
      /\ h_arm.num \in Nat /\ h_arm.off \in Nat /\ h_arm.holdoff \in Nat
  BY DEF Entries, TypeOK, Armings
<1>3. \A i \in 1..Len(published) :
        /\ published[i].off \in Nat /\ published[i].off <= d_last_trigger_offset
        /\ published[i].off <= e.off
  <2> SUFFICES ASSUME NEW i \in 1..Len(published)
               PROVE  /\ published[i].off \in Nat /\ published[i].off <= d_last_trigger_offset
                      /\ published[i].off <= e.off
    OBVIOUS
  <2>1. published[i].off \in Nat /\ published[i].off <= d_last_trigger_offset
    BY EntryTypes DEF LastInv
  <2> QED  BY <1>2, <2>1
<1>4. LastInv'
  <2> SUFFICES ASSUME NEW i \in 1..Len(published')
               PROVE  published'[i].off <= d_last_trigger_offset'
    BY DEF LastInv
  <2> QED  BY <1>1, <1>2, <1>3
<1>5. HoldoffRespected'
  <2> SUFFICES ASSUME NEW j \in 1..Len(published'), published'[j].by = "tag",
                      NEW i \in 1..(j - 1)
               PROVE  published'[j].off >= published'[i].off + published'[j].holdoff
    BY DEF HoldoffRespected
  <2>1. CASE j \in 1..Len(published)
    BY <1>1, <2>1 DEF HoldoffRespected
  <2>2. CASE j = Len(published) + 1
    <3>1. published'[j] = e /\ e.off >= d_last_trigger_offset + e.holdoff
      BY <1>1, <1>2, <2>2
    <3>2. published'[i] = published[i] /\ published[i].off \in Nat
          /\ published[i].off <= d_last_trigger_offset
      BY <1>1, <1>3, <2>2
    <3> QED  BY <1>2, <3>1, <3>2
  <2> QED  BY <1>1, <2>1, <2>2
<1>6. OneShotPerArming'
  <2> SUFFICES ASSUME NEW j \in 1..Len(published'),
                      published'[j].by = "tag", ~published'[j].at_will
               PROVE  /\ published'[j].arm.num > 0
                      /\ published'[j].holdoff # 0 =>
                           published'[j].off < published'[j].arm.off + published'[j].arm.holdoff
                      /\ \A i \in 1..(j - 1) :
                           published'[i].by = "tag" =>
                             published'[i].arm.num < published'[j].arm.num
    BY DEF OneShotPerArming
  <2>1. CASE j \in 1..Len(published)
    BY <1>1, <2>1 DEF OneShotPerArming
  <2>2. CASE j = Len(published) + 1
    <3>1. published'[j] = e /\ d_armed /\ e.arm = h_arm
          /\ (e.holdoff # 0 => e.off < d_disarm_offset)
      BY <1>1, <2>2
    <3>2. /\ h_arm.num > 0 /\ d_disarm_offset = h_arm.off + h_arm.holdoff
          /\ \A i \in 1..Len(published) :
               published[i].by = "tag" => published[i].arm.num < h_arm.num
      BY <3>1 DEF ArmingInv
    <3> QED  BY <1>1, <2>2, <3>1, <3>2
  <2> QED  BY <1>1, <2>1, <2>2
<1> QED  BY <1>1, <1>4, <1>5, <1>6

(* Steps that publish nothing and leave the block armed or not as it was.  *)
LEMMA KeepPublished ==
  ASSUME IInv, UNCHANGED <<arming, firing>>
  PROVE  LastInv' /\ ArmingInv' /\ HoldoffRespected' /\ OneShotPerArming'
BY DEF IInv, arming, firing, LastInv, ArmingInv, HoldoffRespected, OneShotPerArming

-----------------------------------------------------------------------------
(* Arming and firing                                                       *)

LEMMA ArmStep ==
  ASSUME IInv, NEW o \in Nat, Arm(o), UNCHANGED firing, conf \in Confs
  PROVE  /\ d_armed' \in BOOLEAN /\ d_disarm_offset' \in Nat /\ h_arm' \in Armings
         /\ d_fire_at_will' \in BOOLEAN
         /\ LastInv' /\ ArmingInv' /\ HoldoffRespected' /\ OneShotPerArming'
<1> USE DEF IInv
<1>1. conf.d_holdoff \in Nat /\ h_arm.num \in Nat
  BY DEF TypeOK, Confs, Armings
<1>2. /\ d_armed' = TRUE /\ d_disarm_offset' = o + conf.d_holdoff
      /\ h_arm' = [num |-> h_arm.num + 1, off |-> o, holdoff |-> conf.d_holdoff]
      /\ d_fire_at_will' = d_fire_at_will
  BY DEF Arm
<1>3. h_arm' \in Armings
  BY <1>1, <1>2 DEF Armings
<1>4. published' = published /\ d_last_trigger_offset' = d_last_trigger_offset
  BY DEF firing
<1>5. ArmingInv'
  <2> SUFFICES ASSUME NEW i \in 1..Len(published)
               PROVE  published[i].arm.num < h_arm'.num
    BY <1>1, <1>2, <1>4, EntryTypes DEF ArmingInv
  <2>1. published[i].arm.num \in Nat /\ published[i].arm.num <= h_arm.num
    BY EntryTypes DEF ArmingInv
  <2> QED  BY <1>1, <1>2, <2>1
<1>6. LastInv' /\ HoldoffRespected' /\ OneShotPerArming'
  BY <1>4 DEF LastInv, HoldoffRespected, OneShotPerArming
<1> QED  BY <1>1, <1>2, <1>3, <1>5, <1>6 DEF TypeOK

LEMMA FireStep ==
  ASSUME IInv, NEW o \in Nat, d_last_trigger_offset <= o, ReadyToFire(o), Fire(o)
  PROVE  /\ d_tx_limit' \in TxLimits /\ h_limit' = h_limit
         /\ d_armed' \in BOOLEAN /\ d_disarm_offset' \in Nat /\ h_arm' \in Armings
         /\ d_fire_at_will' \in BOOLEAN
         /\ d_last_trigger_offset' = o
         /\ published' \in Seq(Entries)
         /\ LastInv' /\ ArmingInv' /\ HoldoffRespected' /\ OneShotPerArming'
<1> USE DEF IInv
<1> DEFINE e == TagEntry(o)
<1>1. e \in Entries
  BY TagEntryType
<1>2. /\ e.by = "tag" /\ e.off = o /\ e.holdoff = conf.d_holdoff
      /\ e.at_will = d_fire_at_will /\ e.arm = h_arm
  BY DEF TagEntry
<1>3. /\ published' = Append(published, e) /\ d_last_trigger_offset' = o
      /\ d_armed' = FALSE
      /\ UNCHANGED <<d_fire_at_will, d_disarm_offset, h_arm, h_limit>>
  BY DEF Fire, Disarm
<1>4. d_tx_limit' \in TxLimits
  BY DEF Fire, CountDown, TypeOK, TxLimits, Unlimited
<1> HIDE DEF e
<1>5. e.holdoff # 0 => e.off > d_last_trigger_offset + e.holdoff
  BY <1>2 DEF ReadyToFire, FiringHoldoffOk, NoHoldoff
<1>6. ~e.at_will => /\ d_armed /\ e.arm = h_arm
                    /\ e.holdoff # 0 => e.off < d_disarm_offset
  BY <1>2 DEF ReadyToFire, ArmingHoldoffOk, NoHoldoff
<1>7. published' \in Seq(Entries) /\ LastInv' /\ HoldoffRespected' /\ OneShotPerArming'
  BY <1>1, <1>2, <1>3, <1>5, <1>6, PublishStep
<1>8. ArmingInv'
  <2>1. \A i \in 1..Len(published') : published'[i].arm.num <= h_arm.num
    <3>1. h_arm.num \in Nat
      BY DEF TypeOK, Armings
    <3> QED  BY <1>1, <1>2, <1>3, <3>1, AppendEntry DEF ArmingInv
  <2> QED  BY <1>3, <2>1 DEF ArmingInv
<1> QED  BY <1>3, <1>4, <1>7, <1>8 DEF TypeOK

-----------------------------------------------------------------------------
(* work                                                                    *)

(* The tags are ordered: what follows the next one lies at it or after it. *)
LEMMA NextTagStep ==
  ASSUME IInv, NEW tag \in StreamTags, NextTag(tag),
         d_last_trigger_offset' \in {d_last_trigger_offset, tag.offset}
  PROVE  /\ tag.offset \in Nat /\ d_last_trigger_offset <= tag.offset
         /\ next_tag' \in 1..(Len(tags) + 1)
         /\ PositionInv'
<1> USE DEF IInv
<1>1. /\ next_tag \in 1..Len(tags) /\ tag = tags[next_tag] /\ tag.offset < a_end
      /\ next_tag' = next_tag + 1
      /\ UNCHANGED <<tags, nitems_read, a_end>>
  BY LenProperties, StreamAssumption DEF NextTag, TypeOK
<1>2. tags \in Seq(StreamTags) /\ tags \in InitTags
  BY StreamAssumption DEF TypeOK
<1>3. Len(tags) \in Nat
  BY <1>2, LenProperties
<1>4. tag.offset \in Nat /\ a_end \in Nat /\ nitems_read \in Nat
      /\ d_last_trigger_offset \in Nat
  BY StreamAssumption DEF StreamTags, TypeOK
<1>5. nitems_read <= tag.offset /\ d_last_trigger_offset <= tag.offset
  BY <1>1, <1>3 DEF PositionInv
<1>6. ASSUME NEW k \in next_tag'..Len(tags)
      PROVE  /\ nitems_read <= tags[k].offset
             /\ d_last_trigger_offset' <= tags[k].offset
  <2>1. k \in next_tag..Len(tags) /\ k \in 1..Len(tags) /\ next_tag < k
    BY <1>1, <1>3
  <2>2. tag.offset <= tags[k].offset
    BY <1>1, <1>2, <2>1, StreamAssumption
  <2>3. /\ nitems_read <= tags[k].offset
        /\ d_last_trigger_offset <= tags[k].offset
    BY <2>1 DEF PositionInv
  <2> QED  BY <2>2, <2>3
<1>7. d_last_trigger_offset' <= a_end
  BY <1>1, <1>4 DEF PositionInv
<1> QED  BY <1>1, <1>3, <1>4, <1>5, <1>6, <1>7 DEF PositionInv

LEMMA ArmingTagStep ==
  ASSUME IInv, ArmingTag
  PROVE  IInv'
<1>1. PICK tag \in StreamTags : /\ NextTag(tag) /\ Arm(tag.offset)
                                /\ UNCHANGED <<limit, known, firing>>
  BY DEF ArmingTag
<1>2. d_last_trigger_offset' = d_last_trigger_offset
  BY <1>1 DEF firing
<1>3. /\ tag.offset \in Nat /\ next_tag' \in 1..(Len(tags) + 1) /\ PositionInv'
  BY <1>1, <1>2, NextTagStep
<1>4. conf \in Confs
  BY DEF IInv, TypeOK
<1>5. /\ d_armed' \in BOOLEAN /\ d_disarm_offset' \in Nat /\ h_arm' \in Armings
      /\ d_fire_at_will' \in BOOLEAN
      /\ LastInv' /\ ArmingInv' /\ HoldoffRespected' /\ OneShotPerArming'
  BY <1>1, <1>3, <1>4, ArmStep
<1>6. TypeOK'
  BY <1>1, <1>3, <1>5 DEF IInv, TypeOK, NextTag, limit, firing
<1> QED  BY <1>3, <1>5, <1>6 DEF IInv

LEMMA TriggerTagStep ==
  ASSUME IInv, TriggerTag
  PROVE  IInv'
<1>1. PICK tag \in StreamTags :
        /\ NextTag(tag) /\ UNCHANGED known
        /\ \/ ReadyToFire(tag.offset) /\ Fire(tag.offset)
           \/ TxLimitReached
           \/ UNCHANGED <<arming, limit, firing>>
  BY DEF TriggerTag
<1>2. d_last_trigger_offset' \in {d_last_trigger_offset, tag.offset}
  BY <1>1 DEF Fire, TxLimitReached, firing
<1>3. /\ tag.offset \in Nat /\ d_last_trigger_offset <= tag.offset
      /\ next_tag' \in 1..(Len(tags) + 1) /\ PositionInv'
  BY <1>1, <1>2, NextTagStep
<1>4. CASE ReadyToFire(tag.offset) /\ Fire(tag.offset)
  <2>1. /\ d_tx_limit' \in TxLimits /\ h_limit' = h_limit
        /\ d_armed' \in BOOLEAN /\ d_disarm_offset' \in Nat /\ h_arm' \in Armings
        /\ d_fire_at_will' \in BOOLEAN
        /\ d_last_trigger_offset' = tag.offset
        /\ published' \in Seq(Entries)
        /\ LastInv' /\ ArmingInv' /\ HoldoffRespected' /\ OneShotPerArming'
    BY <1>3, <1>4, FireStep
  <2>2. TypeOK'
    BY <1>1, <1>3, <2>1 DEF IInv, TypeOK, NextTag
  <2> QED  BY <1>3, <2>1, <2>2 DEF IInv
<1>5. CASE TxLimitReached
  <2>1. /\ d_armed' = FALSE
        /\ UNCHANGED <<d_fire_at_will, d_disarm_offset, h_arm, limit, firing>>
    BY <1>5 DEF TxLimitReached, Disarm
  <2>2. TypeOK'
    BY <1>1, <1>3, <2>1 DEF IInv, TypeOK, NextTag, limit, firing
  <2>3. LastInv' /\ ArmingInv' /\ HoldoffRespected' /\ OneShotPerArming'
    BY <2>1 DEF IInv, firing, LastInv, ArmingInv, HoldoffRespected, OneShotPerArming
  <2> QED  BY <1>3, <2>2, <2>3 DEF IInv
<1>6. CASE UNCHANGED <<arming, limit, firing>>
  <2>1. TypeOK'
    BY <1>1, <1>3, <1>6 DEF IInv, TypeOK, NextTag, arming, limit, firing
  <2> QED  BY <1>3, <1>6, <2>1, KeepPublished DEF IInv
<1> QED  BY <1>1, <1>4, <1>5, <1>6

LEMMA TimeOrOtherTagStep ==
  ASSUME IInv, TimeOrOtherTag
  PROVE  IInv'
<1>1. PICK tag \in StreamTags :
        /\ NextTag(tag) /\ UNCHANGED <<arming, limit, firing>>
        /\ known' = IF tag.key = conf.d_time_tag_key THEN TimeTag(tag.offset) ELSE known
  BY DEF TimeOrOtherTag
<1>2. d_last_trigger_offset' = d_last_trigger_offset
  BY <1>1 DEF firing
<1>3. /\ tag.offset \in Nat /\ next_tag' \in 1..(Len(tags) + 1) /\ PositionInv'
  BY <1>1, <1>2, NextTagStep
<1>4. known' \in KnownTimes
  BY <1>1, <1>3, TimeTagTrue DEF IInv, TypeOK
<1>5. TypeOK'
  BY <1>1, <1>3, <1>4 DEF IInv, TypeOK, NextTag, arming, limit, firing
<1> QED  BY <1>1, <1>3, <1>5, KeepPublished DEF IInv

LEMMA WorkBeginStep ==
  ASSUME IInv, WorkBegin
  PROVE  IInv'
<1> USE DEF IInv
<1>1. UNCHANGED <<tags, nitems_read, next_tag, conf, arming, limit, known, firing>>
  BY DEF WorkBegin
<1>2. a_end' \in nitems_read..StreamLength /\ a_end = nitems_read /\ a_end <= a_end'
  BY StreamAssumption DEF WorkBegin, Working, TypeOK
<1>3. TypeOK'
  BY <1>1, <1>2 DEF TypeOK, arming, limit, firing
<1>4. PositionInv'
  BY <1>1, <1>2, StreamAssumption DEF TypeOK, PositionInv, firing
<1> QED  BY <1>1, <1>3, <1>4, KeepPublished

LEMMA WorkEndStep ==
  ASSUME IInv, WorkEnd
  PROVE  IInv'
<1> USE DEF IInv
<1>1. /\ UNCHANGED <<tags, a_end, next_tag, conf, arming, limit, known, firing>>
      /\ nitems_read' = a_end
      /\ next_tag <= Len(tags) => tags[next_tag].offset >= a_end
  BY DEF WorkEnd
<1>2. a_end \in 0..StreamLength /\ a_end \in a_end..StreamLength
  BY StreamAssumption DEF TypeOK
<1>3. TypeOK'
  BY <1>1, <1>2 DEF TypeOK, arming, limit, firing
<1>4. tags \in Seq(StreamTags) /\ tags \in InitTags
  BY StreamAssumption DEF TypeOK
<1>5. Len(tags) \in Nat
  BY <1>4, LenProperties
<1>6. ASSUME NEW k \in next_tag..Len(tags)
      PROVE  a_end <= tags[k].offset /\ d_last_trigger_offset <= tags[k].offset
  <2>1. next_tag \in 1..Len(tags) /\ k \in 1..Len(tags) /\ next_tag <= k
    BY <1>5 DEF TypeOK
  <2>2. tags[next_tag] \in StreamTags /\ tags[k] \in StreamTags
    BY <1>4, <2>1, ElementOfSeq
  <2>3. tags[next_tag].offset \in Nat /\ tags[k].offset \in Nat
    BY <2>2, StreamAssumption DEF StreamTags
  <2>4. tags[next_tag].offset <= tags[k].offset
    <3>1. CASE next_tag = k
      BY <2>3, <3>1
    <3>2. CASE next_tag < k
      BY <1>4, <2>1, <3>2, StreamAssumption
    <3> QED  BY <2>1, <3>1, <3>2
  <2>5. a_end <= tags[next_tag].offset
    BY <1>1, <1>2, <2>1, <2>3
  <2> QED  BY <1>2, <2>3, <2>4, <2>5 DEF PositionInv
<1>7. PositionInv'
  BY <1>1, <1>6 DEF PositionInv, firing
<1> QED  BY <1>1, <1>3, <1>7, KeepPublished

-----------------------------------------------------------------------------
(* The setters and the commands                                            *)

LEMMA SetConfStep ==
  ASSUME IInv, NEW c \in Confs, SetConf(c)
  PROVE  IInv'
<1>1. TypeOK'
  BY DEF IInv, TypeOK, SetConf, position, arming, limit, firing
<1>2. PositionInv'
  BY DEF IInv, PositionInv, SetConf, position, firing
<1> QED  BY <1>1, <1>2, KeepPublished DEF IInv, SetConf

LEMMA SettersStep ==
  ASSUME IInv, Setters
  PROVE  IInv'
<1>1. conf \in Confs
  BY DEF IInv, TypeOK
<1>2. CASE SetTriggerKey \/ SetArmingKey \/ SetTimeTagKey
  BY <1>1, <1>2, SetConfStep, SettingsAssumption
  DEF SetTriggerKey, SetArmingKey, SetTimeTagKey, Confs
<1>3. CASE SetMessage \/ SetHoldoff
  BY <1>1, <1>3, SetConfStep, SettingsAssumption DEF SetMessage, SetHoldoff, Confs
<1>4. CASE SetSampRate \/ SetDelayTime
  BY <1>1, <1>4, SetConfStep, SettingsAssumption DEF SetSampRate, SetDelayTime, Confs
<1>5. CASE SetStartTime
  <2>1. PICK t \in StartTimeSettings : known' = [sec |-> t.sec, frac |-> t.frac, off |-> 0]
    BY <1>5 DEF SetStartTime
  <2>2. t \in Times
    BY SettingsAssumption
  <2>3. known' \in KnownTimes
    BY <2>1, <2>2 DEF Times, KnownTimes
  <2>4. TypeOK'
    BY <1>5, <2>3 DEF IInv, TypeOK, SetStartTime, position, arming, limit, firing
  <2>5. PositionInv'
    BY <1>5 DEF IInv, PositionInv, SetStartTime, position, firing
  <2> QED  BY <1>5, <2>4, <2>5, KeepPublished DEF IInv, SetStartTime
<1>6. CASE SetTxLimit
  <2>1. PICK l \in TxLimitSettings :
          d_tx_limit' = l /\ h_limit' = [set |-> l, from |-> Len(published)]
    BY <1>6 DEF SetTxLimit
  <2>2. l \in TxLimits /\ Len(published) \in Nat
    BY SettingsAssumption, LenProperties DEF IInv, TypeOK
  <2>3. TypeOK'
    BY <1>6, <2>1, <2>2 DEF IInv, TypeOK, SetTxLimit, position, arming, firing
  <2>4. PositionInv'
    BY <1>6 DEF IInv, PositionInv, SetTxLimit, position, firing
  <2> QED  BY <1>6, <2>3, <2>4, KeepPublished DEF IInv, SetTxLimit
<1> QED  BY <1>2, <1>3, <1>4, <1>5, <1>6 DEF Setters

LEMMA SetArmedStep ==
  ASSUME IInv, SetArmed
  PROVE  IInv'
<1>1. PICK o \in ArmingOffsets \cup {nitems_read} : Arm(o)
  BY DEF SetArmed
<1>2. o \in Nat /\ conf \in Confs
  BY SettingsAssumption, StreamAssumption DEF IInv, TypeOK
<1>3. UNCHANGED <<position, conf, limit, known, firing>>
  BY DEF SetArmed
<1>4. /\ d_armed' \in BOOLEAN /\ d_disarm_offset' \in Nat /\ h_arm' \in Armings
      /\ d_fire_at_will' \in BOOLEAN
      /\ LastInv' /\ ArmingInv' /\ HoldoffRespected' /\ OneShotPerArming'
  BY <1>1, <1>2, <1>3, ArmStep
<1>5. TypeOK'
  BY <1>3, <1>4 DEF IInv, TypeOK, position, limit, firing
<1>6. PositionInv'
  BY <1>3 DEF IInv, PositionInv, position, firing
<1> QED  BY <1>4, <1>5, <1>6 DEF IInv

LEMMA TriggerNowStep ==
  ASSUME IInv, TriggerNow
  PROVE  IInv'
<1> USE DEF IInv
<1>1. PICK m \in MessageSettings \cup {conf.d_message} :
        published' = Append(published, [TagEntry(nitems_read) EXCEPT
                                          !.by = "command", !.msg = m, !.timed = FALSE])
  BY DEF TriggerNow
<1> DEFINE e == [TagEntry(nitems_read) EXCEPT !.by = "command", !.msg = m, !.timed = FALSE]
<1>2. /\ d_last_trigger_offset' = nitems_read
      /\ UNCHANGED <<position, conf, arming, limit, known>>
      /\ a_end = nitems_read
  BY DEF TriggerNow, Working
<1>3. m \in Messages /\ nitems_read \in Nat
  BY SettingsAssumption, StreamAssumption DEF TypeOK, Confs
<1>4. e \in Entries
  <2>1. TagEntry(nitems_read) \in Entries
    BY <1>3, TagEntryType
  <2> QED  BY <1>3, <2>1 DEF Entries
<1>5. e.by = "command" /\ e.off = nitems_read /\ e.arm = h_arm
  BY DEF TagEntry
<1> HIDE DEF e
<1>6. d_last_trigger_offset <= nitems_read
  BY <1>2 DEF PositionInv
<1>7. published' \in Seq(Entries) /\ LastInv' /\ HoldoffRespected' /\ OneShotPerArming'
  BY <1>1, <1>2, <1>4, <1>5, <1>6, PublishStep DEF e
<1>8. TypeOK'
  BY <1>2, <1>3, <1>7 DEF TypeOK, position, arming, limit
<1>9. PositionInv'
  BY <1>2, <1>3 DEF PositionInv, position
<1>10. ArmingInv'
  <2>1. /\ Len(published) \in Nat
        /\ Len(published') = Len(published) + 1
        /\ published'[Len(published) + 1] = e
        /\ \A i \in 1..Len(published) : published'[i] = published[i]
    BY <1>1, <1>4, AppendEntry DEF e
  <2>2. h_arm.num \in Nat
    BY DEF TypeOK, Armings
  <2>3. \A i \in 1..Len(published') : /\ published'[i].arm.num <= h_arm.num
                                      /\ published'[i].by = "tag" => i \in 1..Len(published)
    BY <1>5, <2>1, <2>2 DEF ArmingInv
  <2> QED  BY <1>2, <2>1, <2>3 DEF ArmingInv, arming
<1> QED  BY <1>7, <1>8, <1>9, <1>10

-----------------------------------------------------------------------------
LEMMA InitIInv ==
  ASSUME Init
  PROVE  IInv
<1>1. tags \in InitTags /\ tags \in Seq(StreamTags) /\ Len(tags) \in Nat
  BY StreamAssumption, LenProperties DEF Init
<1>2. conf \in Confs /\ known \in KnownTimes
  BY StreamAssumption, TimeTagTrue DEF Init
<1>3. TypeOK
  <2>1. d_fire_at_will \in BOOLEAN /\ d_armed \in BOOLEAN
    BY Zenon DEF Init
  <2>2. /\ nitems_read \in 0..StreamLength /\ a_end \in nitems_read..StreamLength
        /\ next_tag \in 1..(Len(tags) + 1)
        /\ d_disarm_offset \in Nat /\ d_last_trigger_offset \in Nat
    BY <1>1, StreamAssumption DEF Init
  <2>3. /\ d_tx_limit \in TxLimits /\ h_arm \in Armings
        /\ h_limit \in [set : TxLimits, from : Nat]
    BY DEF Init, TxLimits, Armings
  <2>4. published \in Seq(Entries)
    BY DEF Init
  <2> QED  BY <1>1, <1>2, <2>1, <2>2, <2>3, <2>4 DEF TypeOK
<1>4. PositionInv
  <2>1. \A k \in 1..Len(tags) : tags[k] \in StreamTags
    BY <1>1, ElementOfSeq
  <2> QED  BY <2>1, StreamAssumption DEF Init, PositionInv, StreamTags
<1>5. LastInv /\ ArmingInv /\ HoldoffRespected /\ OneShotPerArming
  BY DEF Init, LastInv, ArmingInv, HoldoffRespected, OneShotPerArming
<1> QED  BY <1>3, <1>4, <1>5 DEF IInv

LEMMA NextIInv ==
  ASSUME IInv, [Next]_vars
  PROVE  IInv'
<1>1. CASE Work
  BY <1>1, WorkBeginStep, ArmingTagStep, TriggerTagStep, TimeOrOtherTagStep, WorkEndStep
  DEF Work
<1>2. CASE Setters
  BY <1>2, SettersStep
<1>3. CASE SetArmed
  BY <1>3, SetArmedStep
<1>4. CASE TriggerNow
  BY <1>4, TriggerNowStep
<1>5. CASE UNCHANGED vars
  <2>1. TypeOK'
    BY <1>5 DEF vars, IInv, TypeOK, position, arming, limit, firing
  <2>2. PositionInv'
    BY <1>5 DEF vars, IInv, PositionInv, position, firing
  <2> QED  BY <1>5, <2>1, <2>2, KeepPublished DEF vars, IInv
<1> QED  BY <1>1, <1>2, <1>3, <1>4, <1>5 DEF Next

(* The inductive invariant holds in every reachable state.                 *)
THEOREM Invariance == Spec => []IInv
<1>1. Init => IInv
  BY InitIInv
<1>2. IInv /\ [Next]_vars => IInv'
  BY NextIInv
<1> QED  BY <1>1, <1>2, PTL DEF Spec

(* Every variable keeps its type; in particular the transmit limit of the  *)
(* block never counts down below zero.                                     *)
THEOREM TypeCorrect == Spec => []TypeOK
<1>1. IInv => TypeOK
  BY DEF IInv
<1> QED  BY <1>1, Invariance, PTL

(* No tag fires less than the holdoff behind anything published, however   *)
(* the stream is cut into calls, and whatever is set or commanded between. *)
THEOREM HoldoffAlwaysRespected == Spec => []HoldoffRespected
<1>1. IInv => HoldoffRespected
  BY DEF IInv
<1> QED  BY <1>1, Invariance, PTL

(* Every arming fires at most once, within its holdoff, and the offset the *)
(* constructor leaves uninitialised is never relied on.                    *)
THEOREM ArmingFiresOnce == Spec => []OneShotPerArming
<1>1. IInv => OneShotPerArming
  BY DEF IInv
<1> QED  BY <1>1, Invariance, PTL

-----------------------------------------------------------------------------
(* The transmit time, in exact arithmetic                                  *)

(* The known time is the true time of the known offset.                    *)
TimeInv ==
  /\ conf.d_samp_rate = TrueRate
  /\ Ticks(known) = TrueTime(known.off)
  /\ TxTimeExact

(* Neither the truncation of the delta nor the carry lose anything.        *)
LEMMA TxTimeTrue ==
  ASSUME conf \in Confs, known \in KnownTimes, conf.d_samp_rate = TrueRate,
         Ticks(known) = TrueTime(known.off), NEW o \in Nat
  PROVE  Ticks(TxTime(o)) = TrueTime(o) + Ticks(conf.delay)
<1> DEFINE period == Period(TrueRate)
           delta == (o - known.off) * period
           int_delta == Truncated(delta)
           frac == known.frac + (delta - int_delta * TicksPerSec) + conf.delay.frac
           residual == IF frac > TicksPerSec \/ frac < 0 THEN Truncated(frac) ELSE 0
           sec == known.sec + int_delta + conf.delay.sec
<1>1. /\ known.sec \in Int /\ known.frac \in Int /\ known.off \in Nat
      /\ conf.delay.sec \in Int /\ conf.delay.frac \in Int
      /\ TicksPerSec \in Nat /\ ClockAtZero \in Nat
  BY ClockAssumption DEF KnownTimes, Confs, Times
<1>2. period \in Nat
  BY ClockAssumption, PeriodNat
<1>3. TxTime(o) = [sec |-> sec + residual, frac |-> frac - residual * TicksPerSec]
  BY DEF TxTime
<1>4. /\ TrueTime(o) = ClockAtZero + o * period
      /\ known.sec * TicksPerSec + known.frac = ClockAtZero + known.off * period
  BY DEF TrueTime, Ticks
<1> HIDE DEF period
<1>5. delta \in Int /\ delta = o * period - known.off * period
  BY <1>1, <1>2
<1> HIDE DEF delta
<1>6. int_delta \in Int
  BY <1>5, TruncatedInt
<1> HIDE DEF int_delta
<1>7. frac \in Int /\ sec \in Int
  BY <1>1, <1>5, <1>6
<1>8. sec * TicksPerSec + frac = TrueTime(o) + Ticks(conf.delay)
  <2> DEFINE a == o * period
             b == known.off * period
             c == known.sec * TicksPerSec
             d == int_delta * TicksPerSec
             e == conf.delay.sec * TicksPerSec
  <2>1. a \in Int /\ b \in Int /\ c \in Int /\ d \in Int /\ e \in Int
    BY <1>1, <1>2, <1>6
  <2>2. sec * TicksPerSec = c + d + e
    BY <1>1, <1>6
  <2>3. /\ c + known.frac = ClockAtZero + b
        /\ delta = a - b
        /\ frac = known.frac + (delta - d) + conf.delay.frac
        /\ TrueTime(o) = ClockAtZero + a
        /\ Ticks(conf.delay) = e + conf.delay.frac
    BY <1>4, <1>5 DEF Ticks
  <2> HIDE DEF a, b, c, d, e, frac, sec
  <2>4. (c + d + e) + (known.frac + (delta - d) + conf.delay.frac)
          = (ClockAtZero + a) + (e + conf.delay.frac)
    BY <1>1, <1>5, <2>1, <2>3
  <2> QED  BY <2>2, <2>3, <2>4
<1> HIDE DEF frac, sec
<1>9. residual \in Int
  BY <1>7, TruncatedInt
<1> HIDE DEF residual
<1>10. (sec + residual) * TicksPerSec + (frac - residual * TicksPerSec)
         = sec * TicksPerSec + frac
  <2>1. (sec + residual) * TicksPerSec = sec * TicksPerSec + residual * TicksPerSec
    BY <1>1, <1>7, <1>9
  <2>2. sec * TicksPerSec \in Int /\ residual * TicksPerSec \in Int
    BY <1>1, <1>7, <1>9
  <2> HIDE DEF Ticks
  <2> QED  BY <1>7, <2>1, <2>2
<1> QED  BY <1>3, <1>8, <1>10 DEF Ticks

(* What is published next is timed with the true time of its tag.          *)
LEMMA PublishTrue ==
  ASSUME IInv, TimeInv, NEW e \in Entries, published' = Append(published, e),
         e.timed => Ticks(e.time) = TrueTime(e.off) + Ticks(e.delay)
  PROVE  TxTimeExact'
<1>1. /\ Len(published') = Len(published) + 1 /\ Len(published) \in Nat
      /\ published'[Len(published) + 1] = e
      /\ \A i \in 1..Len(published) : published'[i] = published[i]
  BY AppendEntry DEF IInv
<1>2. ASSUME NEW i \in 1..Len(published'), published'[i].timed
      PROVE  Ticks(published'[i].time)
               = TrueTime(published'[i].off) + Ticks(published'[i].delay)
  <2>1. CASE i = Len(published) + 1
    BY <1>1, <1>2, <2>1
  <2>2. CASE i \in 1..Len(published)
    BY <1>1, <1>2, <2>2 DEF TimeInv, TxTimeExact, Ticks, TrueTime
  <2> QED  BY <1>1, <2>1, <2>2
<1> QED  BY <1>2 DEF TxTimeExact, Ticks, TrueTime

LEMMA StepTimeInv ==
  ASSUME IInv, TimeInv, [Next]_vars, RateSettings \subseteq {TrueRate},
         \A t \in StartTimeSettings : Ticks(t) = TrueTime(0)
  PROVE  TimeInv'
<1> USE DEF IInv
<1>0. conf \in Confs /\ known \in KnownTimes /\ nitems_read \in Nat
  BY StreamAssumption DEF TypeOK
<1>1. conf'.d_samp_rate = TrueRate
  <2>1. CASE UNCHANGED conf
    BY <2>1 DEF TimeInv
  <2>2. CASE \E k \in Keys \cup {NIL} : \/ conf' = [conf EXCEPT !.d_trigger_key = k]
                                        \/ conf' = [conf EXCEPT !.d_arming_key = k]
                                        \/ conf' = [conf EXCEPT !.d_time_tag_key = k]
    BY <1>0, <2>2 DEF TimeInv, Confs
  <2>3. CASE \E x : \/ conf' = [conf EXCEPT !.d_message = x]
                    \/ conf' = [conf EXCEPT !.d_holdoff = x]
                    \/ conf' = [conf EXCEPT !.delay = x]
    BY <1>0, <2>3 DEF TimeInv, Confs
  <2>4. CASE \E r \in RateSettings : conf' = [conf EXCEPT !.d_samp_rate = r]
    BY <1>0, <2>4 DEF Confs
  <2>5. CASE SetTriggerKey \/ SetArmingKey \/ SetTimeTagKey
    BY <2>2, <2>5, SettingsAssumption
    DEF SetTriggerKey, SetArmingKey, SetTimeTagKey, SetConf
  <2>6. CASE SetMessage \/ SetHoldoff \/ SetSampRate \/ SetDelayTime
    BY <2>3, <2>4, <2>6 DEF SetMessage, SetHoldoff, SetSampRate, SetDelayTime, SetConf
  <2>7. CASE Work \/ SetStartTime \/ SetTxLimit \/ SetArmed \/ TriggerNow \/ UNCHANGED vars
    BY <2>1, <2>7 DEF Work, WorkBegin, ArmingTag, TriggerTag, TimeOrOtherTag, WorkEnd,
                      NextTag, SetStartTime, SetTxLimit, SetArmed, TriggerNow, vars
  <2> QED  BY <2>5, <2>6, <2>7 DEF Next, Setters
<1>2. Ticks(known') = TrueTime(known'.off)
  <2>1. CASE UNCHANGED known
    BY <2>1 DEF TimeInv
  <2>2. CASE \E tag \in StreamTags : known' = TimeTag(tag.offset)
    <3>1. PICK tag \in StreamTags : known' = TimeTag(tag.offset)
      BY <2>2
    <3>2. tag.offset \in Nat
      BY StreamAssumption DEF StreamTags
    <3> QED  BY <3>1, <3>2, TimeTagTrue
  <2>3. CASE SetStartTime
    <3>1. PICK t \in StartTimeSettings :
            known' = [sec |-> t.sec, frac |-> t.frac, off |-> 0]
      BY <2>3 DEF SetStartTime
    <3>2. known'.off = 0 /\ Ticks(known') = Ticks(t)
      BY <3>1 DEF Ticks
    <3> QED  BY <3>2
  <2>4. CASE Work
    BY <2>1, <2>2, <2>4 DEF Work, WorkBegin, ArmingTag, TriggerTag, TimeOrOtherTag, WorkEnd
  <2>5. CASE Setters /\ ~SetStartTime
    BY <2>1, <2>5 DEF Setters, SetTriggerKey, SetArmingKey, SetTimeTagKey, SetMessage,
                      SetHoldoff, SetSampRate, SetDelayTime, SetTxLimit, SetConf
  <2>6. CASE SetArmed \/ TriggerNow \/ UNCHANGED vars
    BY <2>1, <2>6 DEF SetArmed, TriggerNow, vars
  <2> QED  BY <2>3, <2>4, <2>5, <2>6 DEF Next
<1>3. TxTimeExact'
  <2>1. CASE UNCHANGED published
    BY <2>1 DEF TimeInv, TxTimeExact, Ticks, TrueTime
  <2>2. CASE \E o \in Nat : published' = Append(published, TagEntry(o))
    <3>1. PICK o \in Nat : published' = Append(published, TagEntry(o))
      BY <2>2
    <3>2. TagEntry(o) \in Entries
      BY TagEntryType
    <3>3. Ticks(TxTime(o)) = TrueTime(o) + Ticks(conf.delay)
      BY <1>0, TxTimeTrue DEF TimeInv
    <3>4. /\ TagEntry(o).time = TxTime(o) /\ TagEntry(o).off = o
          /\ TagEntry(o).delay = conf.delay
      BY DEF TagEntry
    <3> QED  BY <3>1, <3>2, <3>3, <3>4, PublishTrue
  <2>3. CASE TriggerNow
    <3>1. PICK m \in MessageSettings \cup {conf.d_message} :
            published' = Append(published, [TagEntry(nitems_read) EXCEPT
                                   !.by = "command", !.msg = m, !.timed = FALSE])
      BY <2>3 DEF TriggerNow
    <3> DEFINE e == [TagEntry(nitems_read) EXCEPT
                       !.by = "command", !.msg = m, !.timed = FALSE]
    <3>2. e \in Entries
      <4>1. m \in Messages
        BY <1>0, SettingsAssumption DEF Confs
      <4>2. TagEntry(nitems_read) \in Entries
        BY <1>0, TagEntryType
      <4> QED  BY <4>1, <4>2 DEF Entries
    <3>3. e.timed = FALSE
      BY DEF TagEntry
    <3> HIDE DEF e
    <3> QED  BY <3>1, <3>2, <3>3, PublishTrue DEF e
  <2>4. CASE Work
    <3>1. \A tag \in StreamTags : tag.offset \in Nat
      BY StreamAssumption DEF StreamTags
    <3> QED  BY <2>1, <2>2, <2>4, <3>1
             DEF Work, WorkBegin, ArmingTag, TriggerTag, TimeOrOtherTag, WorkEnd,
                 Fire, TxLimitReached, firing
  <2>5. CASE Setters \/ SetArmed \/ UNCHANGED vars
    BY <2>1, <2>5 DEF Setters, SetTriggerKey, SetArmingKey, SetTimeTagKey, SetMessage,
                      SetHoldoff, SetSampRate, SetDelayTime, SetStartTime, SetTxLimit,
                      SetConf, SetArmed, vars, firing
  <2> QED  BY <2>3, <2>4, <2>5 DEF Next
<1> QED  BY <1>1, <1>2, <1>3 DEF TimeInv

(* As long as the application gives the true start time and the true rate, *)
(* every tx_time is the true time of its tag plus the delay set then, for  *)
(* every stream, chunking and delay, and whatever else is set between.     *)
THEOREM TxTimesExact ==
  ASSUME RateSettings \subseteq {TrueRate},
         \A t \in StartTimeSettings : Ticks(t) = TrueTime(0),
         \A c \in InitConfs : c.d_samp_rate = TrueRate
  PROVE  Spec => []TxTimeExact
<1>1. Init => TimeInv
  <2> SUFFICES ASSUME Init PROVE TimeInv
    OBVIOUS
  <2>1. known.off = 0 /\ Ticks(known) = TrueTime(known.off)
    BY TimeTagTrue DEF Init
  <2>2. conf.d_samp_rate = TrueRate
    BY DEF Init
  <2>3. TxTimeExact
    BY DEF Init, TxTimeExact
  <2> QED  BY <2>1, <2>2, <2>3 DEF TimeInv
<1>2. IInv /\ TimeInv /\ [Next]_vars => TimeInv'
  BY StepTimeInv
<1>3. TimeInv => TxTimeExact
  BY DEF TimeInv
<1> QED  BY <1>1, <1>2, <1>3, Invariance, PTL DEF Spec

-----------------------------------------------------------------------------
(* The transmission limit                                                  *)

(* The messages fired by tags that FiredSince counts.                      *)
FiredAfter(from) == {i \in (from + 1)..Len(published) : published[i].by = "tag"}

LimitInv ==
  /\ h_limit.from <= Len(published)
  /\ TxLimitHonoured

(* One more message adds one to the count when a tag fired it.             *)
LEMMA CountNext ==
  ASSUME TypeOK, NEW e \in Entries, published' = Append(published, e),
         NEW from \in Nat, from <= Len(published)
  PROVE  /\ FiredSince(from) \in Nat
         /\ FiredSince(from)' = IF e.by = "tag" THEN FiredSince(from) + 1 ELSE FiredSince(from)
<1> DEFINE n == Len(published)
           S == FiredAfter(from)
           T == {i \in (from + 1)..Len(published') : published'[i].by = "tag"}
<1>1. /\ Len(published') = n + 1 /\ n \in Nat /\ published'[n + 1] = e
      /\ \A i \in 1..n : published'[i] = published[i]
  BY AppendEntry
<1>2. IsFiniteSet(S) /\ n + 1 \notin S
  <2>1. IsFiniteSet((from + 1)..n)
    BY <1>1, FS_Interval
  <2>2. S \subseteq (from + 1)..n
    BY DEF FiredAfter
  <2>3. n + 1 \notin (from + 1)..n
    BY <1>1
  <2> QED  BY <2>1, <2>2, <2>3, FS_Subset
<1>3. T = IF e.by = "tag" THEN S \cup {n + 1} ELSE S
  <2>1. \A i : i \in (from + 1)..(n + 1) <=> i = n + 1 \/ i \in (from + 1)..n
    BY <1>1
  <2>2. \A i \in (from + 1)..n : i \in 1..n
    BY <1>1
  <2>3. \A i \in (from + 1)..n : published'[i] = published[i]
    BY <1>1, <2>2
  <2> QED  BY <1>1, <2>1, <2>3 DEF FiredAfter
<1>4. FiredSince(from) = Cardinality(S) /\ FiredSince(from)' = Cardinality(T)
  BY DEF FiredSince, FiredAfter
<1> HIDE DEF S, T
<1>5. Cardinality(S) \in Nat
  BY <1>2, FS_CardinalityType
<1>6. Cardinality(S \cup {n + 1}) = Cardinality(S) + 1
  BY <1>2, FS_AddElement
<1> QED  BY <1>3, <1>4, <1>5, <1>6

LEMMA KeepLimit ==
  ASSUME LimitInv, UNCHANGED <<limit, published>>
  PROVE  LimitInv'
BY DEF LimitInv, TxLimitHonoured, FiredSince, limit

LEMMA StepLimitInv ==
  ASSUME IInv, LimitInv, [Next]_vars
  PROVE  LimitInv'
<1>1. /\ TypeOK /\ h_limit.from \in Nat /\ h_limit.set \in TxLimits /\ d_tx_limit \in TxLimits
      /\ Len(published) \in Nat /\ h_limit.from <= Len(published)
  BY LenProperties DEF IInv, TypeOK, LimitInv
<1>2. CASE UNCHANGED <<limit, published>>
  BY <1>2, KeepLimit
<1>3. CASE \E tag \in StreamTags : Fire(tag.offset)
  <2>1. PICK tag \in StreamTags : Fire(tag.offset)
    BY <1>3
  <2>2. tag.offset \in Nat
    BY StreamAssumption DEF StreamTags
  <2> PICK e : e = TagEntry(tag.offset)
    OBVIOUS
  <2>3. e \in Entries /\ e.by = "tag"
    BY <1>1, <2>2, TagEntryType DEF TagEntry
  <2>4. published' = Append(published, e) /\ d_tx_limit # 0 /\ h_limit' = h_limit
        /\ d_tx_limit' = IF d_tx_limit = Unlimited THEN Unlimited ELSE d_tx_limit - 1
    BY <2>1 DEF Fire, CountDown
  <2> PICK from : from = h_limit.from
    OBVIOUS
  <2>5. /\ FiredSince(from) \in Nat /\ FiredSince(from)' = FiredSince(from) + 1
        /\ Len(published') = Len(published) + 1
    BY <1>1, <2>3, <2>4, CountNext, AppendEntry
  <2>6. FiredSince(h_limit.from)' = FiredSince(from)'
    BY <2>4 DEF FiredSince
  <2>7. TxLimitHonoured'
    <3> SUFFICES ASSUME h_limit.set # Unlimited
                 PROVE  /\ d_tx_limit' \in 0..h_limit.set
                        /\ FiredSince(from)' = h_limit.set - d_tx_limit'
      BY <2>4, <2>6 DEF TxLimitHonoured
    <3>1. d_tx_limit \in 0..h_limit.set /\ FiredSince(from) = h_limit.set - d_tx_limit
      BY DEF LimitInv, TxLimitHonoured
    <3>2. h_limit.set \in Nat /\ d_tx_limit # Unlimited
      BY <1>1, <3>1 DEF TxLimits, Unlimited
    <3> QED  BY <2>4, <2>5, <3>1, <3>2
  <2> QED  BY <1>1, <2>4, <2>5, <2>7 DEF LimitInv
<1>4. CASE SetTxLimit
  <2>1. PICK l \in TxLimitSettings :
          d_tx_limit' = l /\ h_limit' = [set |-> l, from |-> Len(published)]
    BY <1>4 DEF SetTxLimit
  <2>2. published' = published /\ l \in TxLimits
    BY <1>4, SettingsAssumption DEF SetTxLimit, firing
  <2>3. FiredSince(h_limit.from)' = 0
    <3>1. {i \in (Len(published) + 1)..Len(published) : published[i].by = "tag"} = {}
      BY <1>1
    <3> QED  BY <2>1, <2>2, <3>1, FS_EmptySet DEF FiredSince
  <2>4. TxLimitHonoured'
    BY <2>1, <2>2, <2>3 DEF TxLimitHonoured, TxLimits, Unlimited
  <2> QED  BY <1>1, <2>1, <2>2, <2>4 DEF LimitInv
<1>5. CASE TriggerNow
  <2>1. PICK m \in MessageSettings \cup {conf.d_message} :
          published' = Append(published, [TagEntry(nitems_read) EXCEPT
                                 !.by = "command", !.msg = m, !.timed = FALSE])
    BY <1>5 DEF TriggerNow
  <2> PICK e : e = [TagEntry(nitems_read) EXCEPT
                     !.by = "command", !.msg = m, !.timed = FALSE]
    OBVIOUS
  <2>2. e \in Entries /\ e.by # "tag"
    <3>1. m \in Messages
      BY <1>1, SettingsAssumption DEF Confs, TypeOK
    <3>2. TagEntry(nitems_read) \in Entries
      BY <1>1, StreamAssumption, TagEntryType DEF TypeOK
    <3>3. e \in Entries
      BY <3>1, <3>2 DEF Entries
    <3>4. e.by = "command"
      BY DEF TagEntry
    <3> QED  BY <3>3, <3>4
  <2> PICK from : from = h_limit.from
    OBVIOUS
  <2>3. UNCHANGED <<d_tx_limit, h_limit>>
    BY <1>5 DEF TriggerNow, limit
  <2>4. /\ FiredSince(from)' = FiredSince(from) /\ Len(published') = Len(published) + 1
    BY <1>1, <2>1, <2>2, CountNext, AppendEntry
  <2>5. FiredSince(h_limit.from)' = FiredSince(from)'
    BY <2>3 DEF FiredSince
  <2>6. TxLimitHonoured'
    BY <2>3, <2>4, <2>5 DEF LimitInv, TxLimitHonoured
  <2> QED  BY <1>1, <2>3, <2>4, <2>6 DEF LimitInv
<1>6. CASE Work
  BY <1>2, <1>3, <1>6 DEF Work, WorkBegin, ArmingTag, TriggerTag, TimeOrOtherTag, WorkEnd,
                          TxLimitReached, firing
<1>7. CASE Setters
  BY <1>2, <1>4, <1>7 DEF Setters, SetTriggerKey, SetArmingKey, SetTimeTagKey, SetMessage,
                          SetHoldoff, SetSampRate, SetDelayTime, SetStartTime, SetConf, firing
<1>8. CASE SetArmed \/ UNCHANGED vars
  BY <1>2, <1>8 DEF SetArmed, vars, firing
<1> QED  BY <1>5, <1>6, <1>7, <1>8 DEF Next

(* After set_tx_limit(l) at most l tags fire until the next set_tx_limit,  *)
(* whatever is armed, set or commanded in between and between which tags.  *)
THEOREM LimitHonoured == Spec => []TxLimitHonoured
<1>1. Init => LimitInv
  BY EmptySeq DEF Init, LimitInv, TxLimitHonoured
<1>2. IInv /\ LimitInv /\ [Next]_vars => LimitInv'
  BY StepLimitInv
<1>3. LimitInv => TxLimitHonoured
  BY DEF LimitInv
<1> QED  BY <1>1, <1>2, <1>3, Invariance, PTL DEF Spec
=============================================================================
