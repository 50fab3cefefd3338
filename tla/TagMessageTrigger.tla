------------------------- MODULE TagMessageTrigger -------------------------
(***************************************************************************)
(* The tag_message_trigger block: publishes a configured message when a    *)
(* trigger tag arrives while it is armed, or on command                    *)
(* (lib/tag_message_trigger_impl.cc).                                      *)
(*                                                                         *)
(* work() holds d_setlock while it goes through the tags of its samples    *)
(* one by one; the setters of the three keys do not take the lock and can  *)
(* run between two tags.  Every other setter waits for work() to return,   *)
(* and so does the control port, whose handler runs in the block's thread. *)
(***************************************************************************)
EXTENDS SampleClock, Sequences, FiniteSets

CONSTANTS
  Keys,             \* keys of stream tags
  NIL,              \* the empty PMT, no key
  Messages,         \* messages that can be published
  StreamLength,     \* number of samples
  InitTags,         \* the tags on the stream considered, as the buffer orders them
  InitConfs,        \* configurations given to make()
  Uninitialised,    \* what an uninitialised offset can hold
  \* what the application or the control port may set ({}: nothing)
  TriggerKeySettings, ArmingKeySettings, TimeKeySettings, MessageSettings,
  HoldoffSettings, RateSettings, StartTimeSettings, DelaySettings,
  TxLimitSettings, ArmingOffsets

ASSUME NilAssumption == NIL \notin Keys \cup Messages

Unlimited == -1     \* TX_UNLIMITED

TxLimits == Nat \cup {Unlimited}

Confs == [d_trigger_key : Keys, d_arming_key : Keys \cup {NIL}, d_time_tag_key : Keys,
          d_message : Messages, d_holdoff : Nat, d_samp_rate : Rates,
          delay : Times, d_tpdu_mode : BOOLEAN]

StreamTags == [offset : 0..(StreamLength - 1), key : Keys]

ASSUME StreamAssumption ==
  /\ StreamLength \in Nat
  /\ InitTags \subseteq Seq(StreamTags)
  /\ \A s \in InitTags : \A i, j \in 1..Len(s) : i < j => s[i].offset <= s[j].offset
  /\ InitConfs \subseteq Confs
  /\ Uninitialised \subseteq Nat

ASSUME SettingsAssumption ==
  /\ TriggerKeySettings \cup TimeKeySettings \subseteq Keys
  /\ ArmingKeySettings \subseteq Keys \cup {NIL}
  /\ MessageSettings \subseteq Messages
  /\ HoldoffSettings \cup ArmingOffsets \subseteq Nat
  /\ RateSettings \subseteq Rates
  /\ StartTimeSettings \cup DelaySettings \subseteq Times
  /\ TxLimitSettings \subseteq TxLimits

VARIABLES
  tags,             \* the tags of the stream
  nitems_read,      \* samples consumed
  a_end,            \* end of the samples of the running call of work(), or nitems_read
  next_tag,         \* position of the first tag not yet processed
  conf,             \* the settable parameters
  d_fire_at_will, d_armed, d_disarm_offset, d_last_trigger_offset, d_tx_limit,
  known,            \* d_known_time_*
  published,        \* what was published, by a tag or by a trigger_now command
  h_arm,            \* history: number, offset and holdoff of the last arming
  h_limit           \* history: the limit set last, and Len(published) at that time

position == <<tags, nitems_read, a_end, next_tag>>
arming   == <<d_fire_at_will, d_armed, d_disarm_offset, h_arm>>
limit    == <<d_tx_limit, h_limit>>
firing   == <<d_last_trigger_offset, published>>
vars     == <<position, conf, arming, limit, known, firing>>

Working == a_end # nitems_read

-----------------------------------------------------------------------------
(* Arming and firing                                                       *)

(* d_no_holdoff is set by set_holdoff exactly when the holdoff is zero.    *)
NoHoldoff == conf.d_holdoff = 0

ArmingHoldoffOk(o) == o < d_disarm_offset \/ NoHoldoff

(* Mutant of FiringHoldoffOk: the holdoff is added on the wrong side.      *)
FiringHoldoffWrongSide(o) == o + conf.d_holdoff > d_last_trigger_offset \/ NoHoldoff

FiringHoldoffOk(o) == o > d_last_trigger_offset + conf.d_holdoff \/ NoHoldoff

ReadyToFire(o) ==
  /\ (d_armed /\ ArmingHoldoffOk(o)) \/ d_fire_at_will
  /\ FiringHoldoffOk(o)

Arm(o) ==
  /\ d_armed' = TRUE
  /\ d_disarm_offset' = o + conf.d_holdoff
  /\ h_arm' = [num |-> h_arm.num + 1, off |-> o, holdoff |-> conf.d_holdoff]
  /\ UNCHANGED d_fire_at_will

(* Mutant of Disarm: the block stays armed after it fired.                 *)
StayArmed == UNCHANGED arming

Disarm ==
  /\ d_armed' = FALSE
  /\ UNCHANGED <<d_fire_at_will, d_disarm_offset, h_arm>>

(* Mutant of TxTime: the whole seconds of delta stay in the fraction.      *)
TxTimeDeltaTwice(o) ==
  LET delta == (o - known.off) * Period(conf.d_samp_rate)
  IN  [sec  |-> known.sec + Truncated(delta) + conf.delay.sec,
       frac |-> known.frac + delta + conf.delay.frac]

(* tx_time: the time of the trigger tag plus the delay.  The carry is not  *)
(* taken when the fraction is exactly 1, and truncates towards zero when   *)
(* the fraction is negative.                                               *)
TxTime(o) ==
  LET delta     == (o - known.off) * Period(conf.d_samp_rate)
      int_delta == Truncated(delta)
      frac      == known.frac + (delta - int_delta * TicksPerSec) + conf.delay.frac
      residual  == IF frac > TicksPerSec \/ frac < 0 THEN Truncated(frac) ELSE 0
  IN  [sec  |-> known.sec + int_delta + conf.delay.sec + residual,
       frac |-> frac - residual * TicksPerSec]

(* What a trigger tag at offset o publishes; a message has a time in timed *)
(* PDU mode only.                                                          *)
TagEntry(o) ==
  [by |-> "tag", off |-> o, msg |-> conf.d_message, timed |-> conf.d_tpdu_mode,
   time |-> TxTime(o), delay |-> conf.delay, holdoff |-> conf.d_holdoff,
   at_will |-> d_fire_at_will, arm |-> h_arm]

(* Mutant of CountDown: an unlimited block counts down too.                *)
CountDownAlways == d_tx_limit' = d_tx_limit - 1

(* Mutant of CountDown: the limit is never used up.                        *)
NoCountDown == UNCHANGED d_tx_limit

CountDown ==
  d_tx_limit' = IF d_tx_limit = Unlimited THEN Unlimited ELSE d_tx_limit - 1

Fire(o) ==
  /\ d_tx_limit # 0
  /\ CountDown
  /\ published' = Append(published, TagEntry(o))
  /\ UNCHANGED h_limit
  /\ d_last_trigger_offset' = o
  /\ Disarm

TxLimitReached ==
  /\ d_tx_limit = 0
  /\ Disarm
  /\ UNCHANGED <<limit, firing>>

-----------------------------------------------------------------------------
(* work                                                                    *)

WorkBegin ==
  /\ ~Working
  /\ a_end' \in (nitems_read + 1)..StreamLength
  /\ UNCHANGED <<tags, nitems_read, next_tag, conf, arming, limit, known, firing>>

(* The next tag of the running call; the arming key is looked for first.   *)
NextTag(tag) ==
  /\ next_tag <= Len(tags)
  /\ tag = tags[next_tag]
  /\ tag.offset < a_end
  /\ next_tag' = next_tag + 1
  /\ UNCHANGED <<tags, nitems_read, a_end, conf>>

IsTrigger(tag) == tag.key # conf.d_arming_key /\ tag.key = conf.d_trigger_key

ArmingTag ==
  \E tag \in StreamTags :
    /\ NextTag(tag) /\ tag.key = conf.d_arming_key
    /\ Arm(tag.offset)
    /\ UNCHANGED <<limit, known, firing>>

TriggerTag ==
  \E tag \in StreamTags :
    /\ NextTag(tag) /\ IsTrigger(tag)
    /\ \/ ReadyToFire(tag.offset) /\ (Fire(tag.offset) \/ TxLimitReached)
       \/ ~ReadyToFire(tag.offset) /\ UNCHANGED <<arming, limit, firing>>
    /\ UNCHANGED known

TimeOrOtherTag ==
  \E tag \in StreamTags :
    /\ NextTag(tag) /\ tag.key # conf.d_arming_key /\ ~IsTrigger(tag)
    /\ known' = IF tag.key = conf.d_time_tag_key THEN TimeTag(tag.offset) ELSE known
    /\ UNCHANGED <<arming, limit, firing>>

(* The mutex is released and the scheduler consumes the samples.           *)
WorkEnd ==
  /\ Working
  /\ next_tag <= Len(tags) => tags[next_tag].offset >= a_end
  /\ nitems_read' = a_end
  /\ UNCHANGED <<tags, a_end, next_tag, conf, arming, limit, known, firing>>

-----------------------------------------------------------------------------
(* Setters                                                                 *)

SetConf(c) ==
  /\ conf' = c
  /\ UNCHANGED <<position, arming, limit, known, firing>>

(* Without the lock, called by the application or the control port.        *)
SetTriggerKey == \E k \in TriggerKeySettings : SetConf([conf EXCEPT !.d_trigger_key = k])
SetArmingKey  == \E k \in ArmingKeySettings  : SetConf([conf EXCEPT !.d_arming_key = k])
SetTimeTagKey == \E k \in TimeKeySettings    : SetConf([conf EXCEPT !.d_time_tag_key = k])

(* Under the lock.                                                         *)
SetMessage   == ~Working /\ \E m \in MessageSettings : SetConf([conf EXCEPT !.d_message = m])
SetHoldoff   == ~Working /\ \E h \in HoldoffSettings : SetConf([conf EXCEPT !.d_holdoff = h])
SetSampRate  == ~Working /\ \E r \in RateSettings : SetConf([conf EXCEPT !.d_samp_rate = r])
SetDelayTime == ~Working /\ \E t \in DelaySettings : SetConf([conf EXCEPT !.delay = t])

SetStartTime ==
  /\ ~Working
  /\ \E t \in StartTimeSettings : known' = [sec |-> t.sec, frac |-> t.frac, off |-> 0]
  /\ UNCHANGED <<position, conf, arming, limit, firing>>

SetTxLimit ==
  /\ ~Working
  /\ \E l \in TxLimitSettings : d_tx_limit' = l /\ h_limit' = [set |-> l, from |-> Len(published)]
  /\ UNCHANGED <<position, conf, arming, known, firing>>

Setters ==
  \/ SetTriggerKey \/ SetArmingKey \/ SetTimeTagKey \/ SetMessage \/ SetHoldoff
  \/ SetSampRate \/ SetDelayTime \/ SetStartTime \/ SetTxLimit

-----------------------------------------------------------------------------
(* Commands of control_input that are no setters                           *)

(* set_armed, with an arming offset or from the current sample on.         *)
SetArmed ==
  /\ ~Working
  /\ \E o \in ArmingOffsets \cup {nitems_read} : Arm(o)
  /\ UNCHANGED <<position, conf, limit, known, firing>>

(* trigger_now, with a message or without: always untimed, armed or not,   *)
(* whatever the holdoff and the limit.                                     *)
TriggerNow ==
  /\ ~Working
  /\ \E m \in MessageSettings \cup {conf.d_message} :
       published' = Append(published, [TagEntry(nitems_read) EXCEPT
                                         !.by = "command", !.msg = m, !.timed = FALSE])
  /\ d_last_trigger_offset' = nitems_read
  /\ UNCHANGED <<position, conf, arming, limit, known>>

-----------------------------------------------------------------------------
(* The constructor does not initialise d_disarm_offset.                    *)
Init ==
  /\ tags \in InitTags
  /\ nitems_read = 0 /\ a_end = 0 /\ next_tag = 1
  /\ conf \in InitConfs
  /\ d_fire_at_will = (conf.d_arming_key = NIL)
  /\ d_armed = FALSE
  /\ d_disarm_offset \in Uninitialised
  /\ d_last_trigger_offset = 0
  /\ d_tx_limit = Unlimited
  /\ known = TimeTag(0)
  /\ published = <<>>
  /\ h_arm = [num |-> 0, off |-> 0, holdoff |-> 0]
  /\ h_limit = [set |-> Unlimited, from |-> 0]

Work == WorkBegin \/ ArmingTag \/ TriggerTag \/ TimeOrOtherTag \/ WorkEnd

Next == Work \/ Setters \/ SetArmed \/ TriggerNow

Spec == Init /\ [][Next]_vars

-----------------------------------------------------------------------------
(* Properties                                                              *)

Armings == [num : Nat, off : Nat, holdoff : Nat]

Entries == [by : {"tag", "command"}, off : Nat, msg : Messages, timed : BOOLEAN,
            time : Times, delay : Times, holdoff : Nat, at_will : BOOLEAN, arm : Armings]

(* Every variable has its type, and the transmit limit never counts down   *)
(* below zero, where it would wrap around.                                 *)
TypeOK ==
  /\ tags \in InitTags
  /\ nitems_read \in 0..StreamLength
  /\ a_end \in nitems_read..StreamLength
  /\ next_tag \in 1..(Len(tags) + 1)
  /\ conf \in Confs
  /\ d_fire_at_will \in BOOLEAN
  /\ d_armed \in BOOLEAN
  /\ d_disarm_offset \in Nat
  /\ d_last_trigger_offset \in Nat
  /\ d_tx_limit \in TxLimits
  /\ known \in KnownTimes
  /\ published \in Seq(Entries)
  /\ h_arm \in Armings
  /\ h_limit \in [set : TxLimits, from : Nat]

(* Nothing fires closer than the holdoff behind an earlier trigger: a tag  *)
(* is at least the holdoff in force away from everything published before  *)
(* it, by a tag or by a command (lib/tag_message_trigger_impl.h:38-40,     *)
(* "minimum interval in samples between trigger events"; README, "Usage of *)
(* the Arming and Re-trigger Holdoff").  The code holds off a little more: *)
(* a tag at exactly the holdoff, and one in the first samples.             *)
HoldoffRespected ==
  \A j \in 1..Len(published) :
    LET e == published[j]
    IN  e.by = "tag" => \A i \in 1..(j - 1) : e.off >= published[i].off + e.holdoff

(* Unless the block fires at will, a tag only fires after an arming tag or *)
(* command, within the holdoff of that arming, and an arming fires once:   *)
(* the uninitialised disarm offset is never relied on.                     *)
OneShotPerArming ==
  \A j \in 1..Len(published) :
    LET e == published[j]
    IN  e.by = "tag" /\ ~e.at_will =>
          /\ e.arm.num > 0
          /\ e.holdoff # 0 => e.off < e.arm.off + e.arm.holdoff
          /\ \A i \in 1..(j - 1) :
               published[i].by = "tag" => published[i].arm.num < e.arm.num

FiredSince(from) ==
  Cardinality({i \in (from + 1)..Len(published) : published[i].by = "tag"})

(* After set_tx_limit(l) at most l tags fire until the next set_tx_limit,  *)
(* whatever commands and armings come in between, and d_tx_limit says how  *)
(* many are left (README, "Transmission Limit").                           *)
TxLimitHonoured ==
  h_limit.set # Unlimited => /\ d_tx_limit \in 0..h_limit.set
                             /\ FiredSince(h_limit.from) = h_limit.set - d_tx_limit

(* The tx_time of a triggered message is the true time of its tag plus the *)
(* delay, in timed PDU mode and with the true start time and rate.         *)
TxTimeExact ==
  \A i \in 1..Len(published) :
    LET e == published[i]
    IN  e.timed => Ticks(e.time) = TrueTime(e.off) + Ticks(e.delay)

(* "If the arming key is set to PMT_NIL, the block is always armed"        *)
(* (README.md): a trigger tag outside the holdoff, with transmissions      *)
(* left, fires when the arming key is PMT_NIL.                             *)
AlwaysArmedWhenNil ==
  [][TriggerTag /\ conf.d_arming_key = NIL /\ d_tx_limit # 0
       /\ FiringHoldoffOk(tags[next_tag].offset) => published' # published]_vars
=============================================================================
