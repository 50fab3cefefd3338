----------------------------- MODULE PduBlocks -----------------------------
(***************************************************************************)
(* The blocks that have a module of their own and no neighbour in the      *)
(* models: a behaviour runs one of them, the variables of the others stay  *)
(* at Off, and the flow controllers idle.  So the states of a run are the  *)
(* sum of those of the blocks, and a property of a block is one of the     *)
(* behaviours that run it.                                                 *)
(***************************************************************************)
EXTENDS Integers, PduFlowCtrl

CONSTANTS
  Blocks,           \* the blocks considered
  Off,              \* the value of a variable of another block
  None,             \* no value
  \* take_skip_to_pdu
  StreamLength, InitTakes, InitSkips, TakeSettings, SkipSettings,
  \* pdu_preamble
  SetterThreads, Words, Interps, Pads, PreambleData, MaxCalls,
  \* pdu_burst_combiner
  Indices, MaxParts,
  \* pdu_logger
  Types, PdusPerFile, MaxLogged, MaxRuns,
  \* pdu_delay
  Pdus, Delays, Unusable, MaxTime,
  \* message routing
  Callers, Port, NumOutputs, KeepSettings, MaxMessages,
  \* pdu_slice
  Notations, SliceLengths, Blank, Absent, NoNumber, Malformed, MaxSteps,
  \* pdu_head_tail
  HistItems, DataLengths, LengthSettings, HistSettings, MaxHeadTail,
  \* pdu_align
  Configs, AlignLengths,
  \* bit vectors
  BitData, Orders, Factors,
  \* pdu_set_m
  Block, Apps, InitPairs, Metas, Commands, Free, MaxInbox

VARIABLES
  block,
  \* take_skip_to_pdu
  nitems_read, d_take, d_skip, d_next, d_triggered, d_vector, ts_pdu, plan, planned,
  \* pdu_preamble
  d_word, d_word_interp, d_interp, d_nrz, d_zero_pad, call, pdu, asked, overlapped, calls,
  \* pdu_burst_combiner
  d_data, d_burst0_metadata, d_burst_count, received, sent, stopped,
  \* pdu_logger
  files, d_pdus_per_file, d_burstnum, d_filenum, run, logged,
  \* pdu_delay
  now, delay, debug, timers, published, arrived,
  \* message routing
  d_n_msgs, emitting, emit_calls, n_published, h_overlap, at_gate, d_enabled, d_n_passed,
  d_n_blocked, at_keep, d_n, d_ctr_keep, at_rr, d_counter, delivered, handled, d_ctr,
  counting, h_since, h_torn,
  \* pdu_slice
  d_slice, d_start_index, d_stop_index, d_stride_size, d_blank_start, d_blank_stop,
  sl_at, arg, in_len, out, steps, sl_asked, h_pdu_overlap, h_set_overlap,
  \* pdu_head_tail
  d_length, d_maxhistsize, d_histsize, d_head, d_tail, pdus,
  \* pdu_align
  conf, data, bit_idx, found, current_best, start_idx, look_ahead, outcome,
  \* bit vectors
  bv_data, order, factor, repeat, coding, link, swapped, bv_received, stage,
  \* pdu_set_m
  d_setlock, d_k, d_v, d_kv_merge, d_v_overwrite, sm_inbox, setting, sm_received,
  metadata, sm_asked

-----------------------------------------------------------------------------
(* The instances                                                           *)

TS == INSTANCE TakeSkipToPdu WITH pdu <- ts_pdu
PP == INSTANCE PduPreamble WITH Threads <- SetterThreads, Data <- PreambleData
BC == INSTANCE PduBurstCombiner WITH MaxPdus <- MaxParts
PL == INSTANCE PduLogger WITH MaxPdus <- MaxLogged
PD == INSTANCE PduDelay
MR == INSTANCE MessageRouting WITH calls <- emit_calls
SL == INSTANCE PduSlice WITH Lengths <- SliceLengths, at <- sl_at, asked <- sl_asked
HT == INSTANCE PduHeadTail WITH Items <- HistItems, MaxPdus <- MaxHeadTail
AL == INSTANCE PduAlign WITH Lengths <- AlignLengths
BV == INSTANCE BitVectors WITH Data <- BitData, data <- bv_data, received <- bv_received
SM == INSTANCE PduSetM WITH inbox <- sm_inbox, received <- sm_received, asked <- sm_asked

ASSUME BlockAssumptions ==
  /\ TS!TakeSkipAssumption /\ WiringAssumption /\ PP!PreambleAssumption /\ BC!IndicesAssumption
  /\ PL!LoggerAssumption /\ PD!DelayAssumption /\ MR!RoutingAssumption
  /\ SL!SliceAssumption /\ HT!HeadTailAssumption /\ AL!AlignAssumption /\ BV!BitsAssumption
  /\ SM!SetMAssumption

-----------------------------------------------------------------------------
(* The variables of a block, and their values in the behaviours of others  *)

TSvars == <<nitems_read, d_take, d_skip, d_next, d_triggered, d_vector, ts_pdu,
           plan, planned>>
PPvars == <<d_word, d_word_interp, d_interp, d_nrz, d_zero_pad, call, pdu,
           asked, overlapped, calls>>
BCvars == <<d_data, d_burst0_metadata, d_burst_count, received, sent, stopped>>
PLvars == <<files, d_pdus_per_file, d_burstnum, d_filenum, run, logged>>
PDvars == <<now, delay, debug, timers, published, arrived>>
MRvars == <<d_n_msgs, emitting, emit_calls, n_published, h_overlap, at_gate,
           d_enabled, d_n_passed, d_n_blocked, at_keep, d_n, d_ctr_keep,
           at_rr, d_counter, delivered, handled, d_ctr, counting, h_since,
           h_torn>>
SLvars == <<d_slice, d_start_index, d_stop_index, d_stride_size, d_blank_start,
           d_blank_stop, sl_at, arg, in_len, out, steps, sl_asked, h_pdu_overlap,
           h_set_overlap>>
HTvars == <<d_length, d_maxhistsize, d_histsize, d_head, d_tail, pdus>>
ALvars == <<conf, data, bit_idx, found, current_best, start_idx, look_ahead,
           outcome>>
BVvars == <<bv_data, order, factor, repeat, coding, link, swapped, bv_received,
           stage>>
SMvars == <<d_setlock, d_k, d_v, d_kv_merge, d_v_overwrite, sm_inbox, setting,
           sm_received, metadata, sm_asked>>

TSoff ==
  /\ nitems_read = Off /\ d_take = Off /\ d_skip = Off /\ d_next = Off
  /\ d_triggered = Off /\ d_vector = Off /\ ts_pdu = Off /\ plan = Off
  /\ planned = Off
PPoff ==
  /\ d_word = Off /\ d_word_interp = Off /\ d_interp = Off /\ d_nrz = Off
  /\ d_zero_pad = Off /\ call = Off /\ pdu = Off /\ asked = Off
  /\ overlapped = Off /\ calls = Off
BCoff ==
  /\ d_data = Off /\ d_burst0_metadata = Off /\ d_burst_count = Off
  /\ received = Off /\ sent = Off /\ stopped = Off
PLoff ==
  /\ files = Off /\ d_pdus_per_file = Off /\ d_burstnum = Off
  /\ d_filenum = Off /\ run = Off /\ logged = Off
PDoff ==
  /\ now = Off /\ delay = Off /\ debug = Off /\ timers = Off
  /\ published = Off /\ arrived = Off
MRoff ==
  /\ d_n_msgs = Off /\ emitting = Off /\ emit_calls = Off
  /\ n_published = Off /\ h_overlap = Off /\ at_gate = Off
  /\ d_enabled = Off /\ d_n_passed = Off /\ d_n_blocked = Off
  /\ at_keep = Off /\ d_n = Off /\ d_ctr_keep = Off /\ at_rr = Off
  /\ d_counter = Off /\ delivered = Off /\ handled = Off /\ d_ctr = Off
  /\ counting = Off /\ h_since = Off /\ h_torn = Off
SLoff ==
  /\ d_slice = Off /\ d_start_index = Off /\ d_stop_index = Off
  /\ d_stride_size = Off /\ d_blank_start = Off /\ d_blank_stop = Off
  /\ sl_at = Off /\ arg = Off /\ in_len = Off /\ out = Off /\ steps = Off
  /\ sl_asked = Off /\ h_pdu_overlap = Off /\ h_set_overlap = Off
HToff ==
  /\ d_length = Off /\ d_maxhistsize = Off /\ d_histsize = Off
  /\ d_head = Off /\ d_tail = Off /\ pdus = Off
ALoff ==
  /\ conf = Off /\ data = Off /\ bit_idx = Off /\ found = Off
  /\ current_best = Off /\ start_idx = Off /\ look_ahead = Off
  /\ outcome = Off
BVoff ==
  /\ bv_data = Off /\ order = Off /\ factor = Off /\ repeat = Off
  /\ coding = Off /\ link = Off /\ swapped = Off /\ bv_received = Off
  /\ stage = Off
SMoff ==
  /\ d_setlock = Off /\ d_k = Off /\ d_v = Off /\ d_kv_merge = Off
  /\ d_v_overwrite = Off /\ sm_inbox = Off /\ setting = Off
  /\ sm_received = Off /\ metadata = Off /\ sm_asked = Off

(* Only the block of this behaviour begins, and takes steps.               *)
BlocksInit ==
  /\ block \in Blocks
  /\ IF block = "take_skip_to_pdu" THEN TS!Init ELSE TSoff
  /\ Init
  /\ IF block = "pdu_preamble" THEN PP!Init ELSE PPoff
  /\ IF block = "pdu_burst_combiner" THEN BC!Init ELSE BCoff
  /\ IF block = "pdu_logger" THEN PL!Init ELSE PLoff
  /\ IF block = "pdu_delay" THEN PD!Init ELSE PDoff
  /\ IF block = "message_routing" THEN MR!Init ELSE MRoff
  /\ IF block = "pdu_slice" THEN SL!Init ELSE SLoff
  /\ IF block = "pdu_head_tail" THEN HT!Init ELSE HToff
  /\ IF block = "pdu_align" THEN AL!Init ELSE ALoff
  /\ IF block = "bit_vectors" THEN BV!Init ELSE BVoff
  /\ IF block = "pdu_set_m" THEN SM!Init ELSE SMoff

(* The other blocks are not there.                                         *)
OthersIdle ==
  /\ UNCHANGED block
  /\ IF block = "take_skip_to_pdu" THEN TRUE ELSE UNCHANGED TSvars
  /\ IF block = "pdu_flow_ctrl" THEN TRUE ELSE UNCHANGED vars
  /\ IF block = "pdu_preamble" THEN TRUE ELSE UNCHANGED PPvars
  /\ IF block = "pdu_burst_combiner" THEN TRUE ELSE UNCHANGED BCvars
  /\ IF block = "pdu_logger" THEN TRUE ELSE UNCHANGED PLvars
  /\ IF block = "pdu_delay" THEN TRUE ELSE UNCHANGED PDvars
  /\ IF block = "message_routing" THEN TRUE ELSE UNCHANGED MRvars
  /\ IF block = "pdu_slice" THEN TRUE ELSE UNCHANGED SLvars
  /\ IF block = "pdu_head_tail" THEN TRUE ELSE UNCHANGED HTvars
  /\ IF block = "pdu_align" THEN TRUE ELSE UNCHANGED ALvars
  /\ IF block = "bit_vectors" THEN TRUE ELSE UNCHANGED BVvars
  /\ IF block = "pdu_set_m" THEN TRUE ELSE UNCHANGED SMvars

BlocksNext ==
  \/ block = "take_skip_to_pdu" /\ TS!Next /\ OthersIdle
  \/ block = "pdu_flow_ctrl" /\ Next /\ OthersIdle
  \/ block = "pdu_preamble" /\ PP!Next /\ OthersIdle
  \/ block = "pdu_burst_combiner" /\ BC!Next /\ OthersIdle
  \/ block = "pdu_logger" /\ PL!Next /\ OthersIdle
  \/ block = "pdu_delay" /\ PD!Next /\ OthersIdle
  \/ block = "message_routing" /\ MR!Next /\ OthersIdle
  \/ block = "pdu_slice" /\ SL!Next /\ OthersIdle
  \/ block = "pdu_head_tail" /\ HT!Next /\ OthersIdle
  \/ block = "pdu_align" /\ AL!Next /\ OthersIdle
  \/ block = "bit_vectors" /\ BV!Next /\ OthersIdle
  \/ block = "pdu_set_m" /\ SM!Next /\ OthersIdle

allvars == <<block, vars, TSvars, PPvars, BCvars, PLvars, PDvars, MRvars, SLvars, HTvars,
             ALvars, BVvars, SMvars>>

BlocksSpec == BlocksInit /\ [][BlocksNext]_allvars

(* The scheduler calls work() of take_skip_to_pdu while there is input.    *)
BlocksFairSpec ==
  BlocksSpec /\ WF_allvars(block = "take_skip_to_pdu" /\ TS!Work /\ OthersIdle)

-----------------------------------------------------------------------------
(* The properties of the blocks; that of pdu_flow_ctrl is QueueBounded     *)

(* take_skip_to_pdu publishes the runs of items that the take and the skip *)
(* in force when they began call for, and never stalls.                    *)
PduAsPlanned == block = "take_skip_to_pdu" => TS!PduAsPlanned
StreamConsumed == block = "take_skip_to_pdu" => TS!StreamConsumed

(* pdu_preamble makes PDUs of one set of parameters when no setter runs,   *)
(* and loses a preamble only to a setter that overlaps.                    *)
QuietPdusCoherent == block = "pdu_preamble" => PP!QuietPdusCoherent
OnlyOverlapLosesWords == block = "pdu_preamble" => PP!OnlyOverlapLosesWords

(* pdu_burst_combiner joins every whole burst, and only runs of PDUs.      *)
WholeBurstJoined == block = "pdu_burst_combiner" => BC!WholeBurstJoined
JoinsRuns == block = "pdu_burst_combiner" => BC!JoinsRuns

(* pdu_logger loses none of the PDUs of a run, and mixes runs only where   *)
(* another type began the file number.                                     *)
PdusFiled == block = "pdu_logger" => PL!PdusFiled
StaleOnlyWhenMixed == block = "pdu_logger" => PL!StaleOnlyWhenMixed

(* pdu_delay publishes each PDU once, and after its delay.                 *)
DelayHonoured == block = "pdu_delay" => PD!DelayHonoured

(* The counter is exact but for a reset within an increment, the emitter   *)
(* but for calls that overlap.                                             *)
CounterExact == block = "message_routing" => MR!CounterExact
EmitterCountsCalls == block = "message_routing" => MR!EmitterCountsCalls

(* pdu_slice slices like Python the PDUs that no set_slice overlaps, but   *)
(* for a stale stride and for indices outside of the data with a negative  *)
(* one.                                                                    *)
SlicesLikePython == [][block = "pdu_slice" => SL!SlicedLikePython]_SLvars

(* pdu_head_tail publishes the heads and tails of the latest PDUs.         *)
HistoryIsLatest == block = "pdu_head_tail" => HT!HistoryIsLatest

(* pdu_align cuts at a match if there is one, at the best one nearby.      *)
CutAtMatch == block = "pdu_align" => AL!CutAtMatch
BestNearby == block = "pdu_align" => AL!BestNearby

(* What pack_unpack, pdu_binary_tools, upsample and pdu_downsample do at   *)
(* a sender they undo at the receiver.                                     *)
RoundTrip == block = "bit_vectors" => BV!RoundTrip

(* pdu_set_m adds pairs of a key and a value set together.                 *)
PairsTogether == block = "pdu_set_m" => SM!PairsTogether
=============================================================================
