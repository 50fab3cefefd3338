# Formal models of gr-pdu_utils

gr-pdu_utils is a GNU Radio out-of-tree module: signal processing blocks that
work on PDUs (a pair of a metadata dictionary and a vector) instead of sample
streams, and the blocks that lead from streams to PDUs and back. This directory
holds TLA+ models of its blocks, the TLC runs that check them on small
instances, and TLAPS proofs of their main properties for every instance.

## 1. Inventory

### How blocks run

A block has stream ports and message ports. The GNU Radio scheduler runs each
block in a thread of its own, which alternates between message handlers and
`work()`; `work()` is offered any number of items and says how many it consumed
or produced. So *handlers and `work()` of one block never overlap, and the split
of a stream into calls is arbitrary*. Setters (`set_...`) are called by the
application from other threads. They usually take the block's mutex `d_setlock`;
whether `work()` takes it too differs from block to block. A published message
is put in the queue of every subscriber; queues are FIFO per port.

```
 samples+tags --> tags_to_pdu ----------+                      +--> pdu_to_bursts --> samples+tags
 samples      --> take_skip_to_pdu -----+--> message blocks ---+
 bits         --> access_code_to_pdu ---+    (one PDU in,      +--> loggers, other blocks
 samples+tags --> tag_message_trigger --+     zero or one out)
```

### Components

| component | state | operations | what is hard | what makes it correct |
|---|---|---|---|---|
| `tags_to_pdu` | burst being built, SOB offset, counters, known time, EOB alignment | `work`, `publish_message`, `handle_ctrl_msg`, 11 setters | tags at any place of any call; wrap-around of unsigned sizes; `work()` without lock | PDUs are the runs of samples between the tags, whatever the chunking; exact burst times |
| `pdu_to_bursts` | queue of PDUs, data being written, pending SOB and time | `store_pdu`, `queue_data`, `work`, `set_max_queue_size` | arrivals between the calls of one burst; full queue; merging | every accepted item once, in order, in a framed burst with its own time |
| `tag_message_trigger` | arming, last trigger, transmit limit, known time | `work`, `control_input`, 9 setters | the same rules across tags, calls and commands; key setters without lock | holdoff, one shot per arming, transmit limit, exact `tx_time` |
| `access_code_to_pdu` | shift register, lock, pending bursts, one output buffer | `work`, `check_access_code`, `check_tail_sync`, `publish_message` | overlapping bursts that share the buffer; three read modes | exactly the windows the mode selects are published |
| `take_skip_to_pdu` | next switch, items taken | `work`, `set_take`, `set_skip` | new values in the middle of a take or a skip | PDUs of the take in force when they began, the skip in force apart |
| `pdu_flow_ctrl` | queues of the watched blocks, drop counter | `pdu_handler`, `max_nmsgs` | reads the queues, then publishes | queues exceed the limit only by the PDUs of other sources |
| message routing: emitter, gate, keep-1-in-n, round robin, counter | a counter or a flag each | one handler, setters, `reset` | increments and resets without lock | counters add up, outputs are even |
| `msg_drop_random`, `pdu_split` | - | handler | - | - |
| `pdu_set_m` | key, value, modes | handler, control handler, setters | the control handler takes a non-recursive lock twice | pairs are never mixed; every command is answered |
| `pdu_preamble` | preamble and tail, plain and interpolated | handler, setters | setters that write without the lock, then rebuild two vectors | a PDU is made of one set of parameters |
| `pdu_burst_combiner` | parts so far, metadata of the first | handler | missing, repeated or garbled parts | a whole burst always comes out |
| `pdu_logger` | file number, PDUs in the file; the files | handler; restart | rotation with one count for all types; files of earlier runs | no PDU of the run is lost |
| `pdu_head_tail`, `pdu_slice`, `pdu_align` | history buffers; parsed slice; search for syncwords | handler, setters | index arithmetic; state that outlives a PDU | the items published are the ones asked for |
| `pack_unpack`, `pdu_binary_tools`, `upsample`, `pdu_downsample` | a mode | handler | bit order, lengths that are no multiple | they undo each other |
| `pdu_range_filter`, `pdu_length_filter`, `extract_metadata` | parameters | handler | - | - |
| `pdu_delay` | one timer thread per PDU | handler, `on_timer`, setters | timers overtake each other; settings change meanwhile | every PDU once, after its delay |
| DSP blocks (clock recovery, FIR, PFB, GMSK, demodulation, rotation, ...) | parameters | handler | floating point | not in reach |
| Qt source, bindings, GRC files, constants | - | - | - | no behaviour of interest |

`PROJECT.json` lists the hazards of this code, each at its line, with the
properties that cover it, or why none does.

## 2. Modules

| module | models | checked by |
|---|---|---|
| `SampleClock` | times in ticks, known times, the conversion of doubles to seconds and fraction | (extended by the next two) |
| `TagsToPdu`, `MCTagsToPdu` | `tags_to_pdu` | `t2p_extract`, `t2p_reconf`, `t2p_time` |
| `PduToBursts`, `MCPduToBursts` | `pdu_to_bursts` | `p2b_stream`, `p2b_repeat`, `p2b_drop`, `p2b_append` |
| `TagMessageTrigger`, `MCTagMessageTrigger` | `tag_message_trigger` | `trigger_fire`, `trigger_nil` |
| `AccessCode` | the comparisons and the data of a PDU, as operators on words of bits | (extended by the next two) |
| `AccessCodeToPdu`, `MCAccessCodeToPdu` | `access_code_to_pdu` | `ac_bursts` |
| `BurstWindows` | the promise of `access_code_to_pdu`, on the stream alone | `ac_bursts` (refinement, also proved) |
| `TakeSkipToPdu` | `take_skip_to_pdu` | `pdu_blocks` |
| `PduFlowCtrl` | `pdu_flow_ctrl` and its helper, several of them | `pdu_blocks` |
| `MessageRouting` | emitter, gate, keep-1-in-n, round robin and counters in a chain | `pdu_blocks` |
| `PduSetM`, `MCPduSetM` | `pdu_set_m` | `pdu_blocks`, `set_m_deadlock` |
| `PduPreamble`, `PduBurstCombiner`, `PduLogger`, `PduDelay`, `PduHeadTail`, `PduSlice`, `PduAlign` | the block of that name | `pdu_blocks` |
| `BitVectors` | `pack_unpack`, `pdu_binary_tools`, `upsample`, `pdu_downsample` | `pdu_blocks` |
| `PduBlocks`, `MCPduBlocks` | the twelve modules above side by side, and their small instances | `pdu_blocks` |
| `SampleClockProofs`, `TagsToPduProofs`, `TagMessageTriggerProofs`, `PduToBurstsProofs`, `AccessCodeToPduProofs`, `PduFlowCtrlProofs`, `PduBlocksProofs` | theorems and proofs | TLAPS |
| `Induction` | least elements and induction for sets of numbers, proved | TLAPS |

Abstractions common to all: an item is known by its place (stream offset, or PDU
and index), so that loss, repetition and reordering are visible whatever the
values are. Times are integers, counted in ticks of which every sample rate
divides a second: the rounding of doubles is left out, the split into seconds
and fraction and its carries are not. Formatting, logging and metadata that no
decision depends on are left out.

### SampleClock

`TimeTag(o)` is the value of `set_known_time_offset` for an `rx_time` tag: the
upstream radio stamps sample `o` with its true time, `ClockAtZero + o *
Period(TrueRate)`. `Truncated` is the conversion `(int)delta`, towards zero.

### TagsToPdu

The stream is fixed in the initial state as a sequence of samples, each the
sequence of its tag keys; `nitems_read` is the position. One `Work` step is one
call of `work()` over the samples from `nitems_read` on, with its whole effect:

- `WorkToMark(o)`: the first SOB or EOB tag met is on sample `o`. Its five
  disjuncts are the code's branches: the burst is full before the tag (`Fill`),
  EOB in a burst (`EndBurst`), second SOB (`DropBurst`), SOB outside a burst
  (`StartBurst`), EOB outside a burst (`Skip`).
- `WorkNoMark(last)`: no such tag up to `last`, the last sample offered.
- `ScanTimeTags` is the side effect of the scan in every call;
  `PublishMessage` is `publish_message()`, called at the end of a burst.

A call that meets a mark does the same whatever lies behind the mark, so a
step is named by the mark and not by the number of samples offered.

`conf` holds what setters change. `work()` takes no lock; a setter is modelled
between two calls, and `set_start_time` as three steps, because its three writes
can be separated by a call. A setter in the middle of one call is a C++ data race on
that member and is not modelled. `h_pre`, and `sob`, `pre`, `pads` in a message,
are for the properties only.

### PduToBursts

`StorePdu`, `Work` (with `queue_data` inside, as in the code) and
`SetMaxQueueSize`. `Work` offers room for 1 to `MaxChunk` items. `DropEarly` is the
bitwise condition of the code as it is, and `Erased` its `noutput_items - 1`.
`d_tag_sob` starts with either value, as the constructor leaves it uninitialised.
`d_drop_ctr`, only logged, is left out. Calls of `work()` with nothing to do change
nothing and are stuttering steps.

### TagMessageTrigger

`work()` is split: `WorkBegin` takes the lock, `ArmingTag`, `TriggerTag` or
`TimeOrOtherTag` handles one tag, `WorkEnd` releases the lock. Setters that take
the lock, and commands, whose handler runs in the thread of the block, need
`~Working`; the three key setters do not and can fall between two tags.
`d_disarm_offset` starts with any value of `Uninitialised`. A `published` entry
records what the decision depended on (`holdoff`, `at_will`, the arming) for the
properties.

### AccessCodeToPdu and BurstWindows

A step is one turn of the loop of `work()`: search for a code in the register,
shift the new bit in, let the pending bursts grow, end the oldest one. `Found`,
`Dumped` and the `Opened...` operators are the search, in the code's order, before
the bit is shifted; `ReadIdle`, `ReadBurst`, `PublishBurst` and `RejectBurst` are
the ways the turn can end. The block has no setter and keeps everything in
members, so the split into calls makes no difference and is left out. The
register has `RegLen` bits (64 in the code).

`BurstWindows` says which windows of `burst_len` bits are published, in terms of
the stream only: permissive mode takes every window behind a code, reset mode
those whose code is not followed by another within the burst, strict mode those at
the candidate. `RefinesWindows` is the refinement: the lock, the bit count and the
list of pending bursts map to the candidate.

### The blocks that take PDUs

- `PduFlowCtrl`: several controllers, each in its own thread. A handler reads one
  queue per step (`ReadNmsgs`), so that others publish and the watched blocks take
  messages between the readings and before `Publish` or `DropPdu`.
- `TakeSkipToPdu`: a step is a call with some number of items. `plan` and
  `planned` are history: where the PDU should start and how long it should be by the
  settings in force when the block switched.
- `PduPreamble`: a setter is several steps. `set_interp` and `set_nrz` write without the
  lock (`SetInterp`, `SetNrz`), copy preamble and tail without it (`CopyWord`),
  and lock to store and render them (`LockWord`, `RenderBit`, `Unlock`). The
  handler is one step under the lock; the loop in which it reads `d_nrz` and
  `d_interp` is not split.
- `PduSetM`: the lock is a variable, and the control handler keeps it while it waits for
  it. Text around the braces of a template is left out.
- `PduBurstCombiner`: any PDU may follow any other, since the blocks in front drop
  PDUs. Both outcomes of the malformed log message (see below) are there.
- `PduLogger`: files outlive the block. `Restart` ends the run, `Crash` ends it between
  `fopen`, which may truncate, and the write.
- `PduDelay`: a set of timers, which fire at any moment from their due time on.
- `MessageRouting`: `d_n_msgs++` and `d_ctr++` are a read and a write where no lock
  is held against the other writer.
- `PduSlice`: the notation is a record of its fields; the members keep what was parsed
  and what `slice_vector` adapted to the last PDU. Neither the handler nor `set_slice`
  takes a lock, so each is several steps: the notation is stored (`SetSlice`,
  `StoreAgain`), its fields are parsed one after the other (`ParseStart`,
  `ParseOneColon`, `ParseTwoColons`), and the handler then adapts the members (`Adapt`)
  and walks the data (`LoopEnds`, `LoopsForEver`). A notation is refused where the code
  throws, and what was stored before stays. One application thread calls `set_slice`.
  `PduHeadTail`: the two buffers
  with their shift. `PduAlign`: a step is one bit of the PDU, the syncwords compared in
  turn (a recursive function).
- `BitVectors`: each block is an operator; the specification sends data through a
  block, perhaps a byte swap, and the block that undoes it.

A behaviour of `PduBlocks` runs one of these blocks: `block` names it, and the
variables of the others stay at `Off`; the flow controllers, whose module it
extends, stay idle in their initial state. They have no neighbour in the models,
so the states of the run are the sum and not the product of theirs.

## 3. Runs

All runs finish in two minutes at most on two cores.

| run | question | bounds and why they are enough | result |
|---|---|---|---|
| `t2p_extract` | Is what is extracted a function of the stream alone, announced, timed, aligned, bounded, and is the stream consumed? | all 6^6 streams of 6 samples over: no tag, SOB, EOB, time, time then SOB, EOB then SOB; every split into calls. At most 5 items per PDU, one of them prepended, alignment 3 with offset 3 and tail 2: a burst has 2, 3 or 4 items when it ends, which wraps the unsigned difference, is aligned, or is one past the alignment and gets two pads, the second beyond the maximum; others fill up, are too short to publish or are dropped, with two bursts in a stream | holds |
| `t2p_reconf` | Do PDUs stay unbroken and disjoint when parameters change? | streams of 4 samples; any two of the eleven parameters changed, or one and the start time, at any point (`FewChanges`): a maximum below the length of the burst, a prepend above the maximum, swapped SOB and EOB keys are all reached | holds |
| `t2p_time` | Is the fraction of a burst time in [0, 1)? | 4 samples | **violated** |
| `p2b_stream` | Are accepted PDUs written whole, in order, framed, timed, and all of them? | 3 messages of 7 kinds (1 to 3 items untimed, timed, malformed time, empty, invalid), queue of 1 or 3, room for 1 to 3 items, both modes: PDUs arrive before, between and after the calls of a burst and at a full queue | holds |
| `p2b_repeat` | Is each item written once? | as above | **violated** |
| `p2b_drop` | Does drop mode drop? | drop mode | **violated** |
| `p2b_append` | Does append mode append? | append mode | **violated** |
| `trigger_fire` | Holdoff, one shot per arming, transmit limit, exact time | streams of 4 samples, 3 tags in all places (two on one sample included), a block with an arming key in timed mode and one that fires at will; one command or changed parameter (`OneChange`) plus a further one in the last step: three tags are what it takes to arm, fire and try again | holds |
| `trigger_nil` | Is the block always armed once the arming key is PMT_NIL? | one tag | **violated** |
| `ac_bursts` | Are exactly the promised windows published, and is the shared buffer right all the time? | every stream of 12 bits; a code of 3 that overlaps itself in bursts of 5, and codes of 2 in bursts of 6 and 7, of which up to four are pending at once in permissive mode, with and without a tail, threshold 0 and 1, every read mode and sync mode; a threshold above the length of the tail, a burst of tail only, a burst that is all code; a register of 4 bits, the longest code | holds |
| `pdu_blocks` | Does each block keep its promise? | see below | holds |
| `set_m_deadlock` | Is every command handled? | one application thread and the block's, two messages | **violated** |

`MaxOut` in `PduToBursts` bounds calls that write an item without removing it
(room for one item, see below); `MaxPdus` bounds the messages. `NotDone` stops
`trigger_fire` after the last sample. Deadlock is not checked: in every instance
the stream ends or the last message was received.

In `pdu_blocks`:

| block | instance | properties |
|---|---|---|
| `take_skip_to_pdu` | 6 items, takes 0 to 3 and skips 0 to 2, settings at any time | `PduAsPlanned`, `StreamConsumed` |
| `pdu_flow_ctrl` | two controllers share a port, one has a second; limit 2, two PDUs each: both commit to the last place | `QueueBounded` |
| `pdu_preamble` | two threads, three setter calls, preamble and tail empty or one zero bit, interpolation 1 or 2 | `QuietPdusCoherent`, `OnlyOverlapLosesWords` |
| `pdu_burst_combiner` | five PDUs of bursts of two and three, single ones, and a tuple 3 of 2 | `WholeBurstJoined`, `JoinsRuns` |
| `pdu_logger` | two types, three PDUs in each of two runs, two PDUs per file or all in one | `PdusFiled`, `StaleOnlyWhenMixed` |
| `pdu_delay` | two PDUs, delays 0 and 2 of block or metadata, time up to 3 | `DelayHonoured` |
| message routing | a caller and the port, three messages, two outputs, n of 1 or 2 | `CounterExact`, `EmitterCountsCalls` |
| `pdu_slice` | 15 notations: indices inside, at the end of and outside the data, strides 2 and -2, and three that are refused: without brackets, at the stop index, and for a stride of 0; lengths 0, 1, 3 and 4; three calls of `set_slice` or PDUs, their steps interleaved: a stride or a refused notation goes stale, a notation set during a PDU is lost or mixed with another, the loop never ends | `SlicesLikePython` |
| `pdu_head_tail` | PDUs of 0 to 3 items, lengths and histories of 1 and 2, three PDUs: the history shifts, PDUs are shorter and longer | `HistoryIsLatest` |
| `pdu_align` | every PDU of 3 and of 7 bits; one or two syncwords, threshold 0 and 1, both match modes, offsets 0, -1 and -2, all modes | `CutAtMatch`, `BestNearby` |
| bit vectors | data of 3, 8 and 9 bits, both orders, factors 1 to 3 | `RoundTrip` |
| `pdu_set_m` | one thread, two pairs, two messages (no set command, which would end the run) | `PairsTogether` |

`OnPlan`, `CommitmentsBounded`, `OutputsBalanced` and the types of the controllers,
of the round robin and of `take_skip_to_pdu` are not checked in a run: they are
proved (section 4).

Several properties hold with an exception that is part of them, because the code has it:
`h_torn`, `h_overlap`, `overlapped`, `h_pdu_overlap`, `h_set_overlap`, `StrideStale`,
`BackwardsFromOutside`, `SobBehindEob`. The exception says when, and the property that it
happens at no other time.

### What the violated properties say

- `BurstTimeNormalised`: `publish_message` carries a fraction of 1 or more, but a
  time tag that lies behind the SOB gives a negative difference, and the fraction
  stays negative. `BurstTimeExact` shows that seconds plus fraction is
  still the true time, so a reader that adds them is right and one that
  expects a UHD time tuple (README.md:70) is not.
- `NoItemRepeated`: `d_data.erase(begin, begin + noutput_items - 1)` leaves the
  last written item in `d_data`. `NothingLostOrReordered` shows that this
  is all that goes wrong: without immediate repetitions the output is exact. A
  call with room for one item makes no progress at all.
- `EarlyBurstsDropped`: `d_drop_early_bursts & (size | size)` is a bitwise *and* with
  1, so drop mode looks at the lowest bit of the two sizes.
- `UntimedAppended`: merging happens when a burst is fetched; an untimed PDU that
  arrives while the burst is written gets a burst of its own.
- `AlwaysArmedWhenNil`: only the constructor sets `d_fire_at_will`.
- `EveryCommandHandled`: `handle_ctrl_msg` of `pdu_set_m` holds `d_setlock` and calls
  `set_val` or `set_key`, which lock it again (lib/pdu_set_m_impl.cc:78, :81). The
  thread of the block waits for itself and nothing is handled any more.

Four more sentences of the repository's README are not what the code does, seen while
modelling. *Detection Emissions* promises a message "every time a SOB tag is detected";
the scan stops at the first SOB or EOB tag and consumes its sample
(lib/tags_to_pdu_impl.cc:222-229), so a SOB behind an EOB on the same sample is never
looked at: it is neither announced nor starts a burst. `LeadingSobsDetected` says so, by
the exception `SobBehindEob`. The *Holdoff* is described as "the shortest interval", with
a trigger "less than holdoff samples from the previous" one refused; the comparison is
strict (lib/tag_message_trigger_impl.cc:192-193) and `d_last_trigger_offset` starts at 0,
so a trigger at exactly `holdoff` samples is refused too, and one among the first
`holdoff` samples of the stream although nothing was triggered yet. `HoldoffRespected` is
the documented minimum, which the code keeps. *Tail Size* does not add items after the EOB
tag: it is a length that a burst must exceed to be published (`PublishMessage`). *EOB
Alignment* does not refuse EOB tags at other places: the burst ends there and is padded
with zeros (`EobPads`, property `AlignedAndBounded`). And `handle_ctrl_msg` ignores a
dictionary, the form its comments ask for, since it replaces it by its first pair; only a
bare pair has an effect (`HandleCtrlMsg`).

Seen while modelling the other blocks, and part of the models as they are:

- `access_code_to_pdu`, SYNC_FIX: for an inverted burst the replaced sync word is
  `(word >> i) ^ 1`, not masked to a bit (`FixedWord`). A burst length equal to the length
  of the code never completes, and the buffer grows for ever.
- `pdu_slice`: a notation with one colon and a blank stop keeps the stride of an
  earlier one (`StrideStale`); with a negative stride an index outside the data is not
  clamped as in Python (`BackwardsFromOutside`), though pdu_slice.h:23-25 promises
  its notation. `set_slice` stores a notation before it looks at it
  (lib/pdu_slice_impl.cc:149), so one that it refuses stays, and the handler, which
  parses `d_slice` again, throws at every later PDU. A stride of 0 is stored (line 243)
  before it is refused: after `[::0]` and then `[1:]`, which keeps that stride, the
  loop of line 81 makes no way and appends until memory is exhausted (`LoopsForEver`).
  A notation set while a PDU is handled is overwritten if the handler stores its copy
  back afterwards, and otherwise mixes with the one being parsed or walked, down to
  indices outside the data; `SlicesLikePython` shows that only the overlapped PDU and
  the notation set in that moment are affected.
- `pdu_align`: the look-ahead of the best match mode counts from the match plus the
  offset, so a negative offset ends the search before a better match. Nothing keeps
  the start, the match plus the offset, within the data: in front of it the block
  reads outside its buffer, and behind it `data_len - start_idx`, which is unsigned,
  wraps around (lib/pdu_align_impl.cc:204, :214, :230). That is undefined and not modelled:
  the run has offsets 0, -1 and -2, with syncwords as long or longer, whose starts are
  inside, and the theorems say at which index the data is cut, whether it is inside or not.
- `pdu_flow_ctrl` drops when a queue has *at least* `max_nmsgs` messages, its
  documentation says more than that.
- `pdu_set_m`: a PDU whose key may not be overwritten is dropped, not passed on; with
  merging, a value without braces is not added (`ParseVal`).
- `pdu_burst_combiner`: the message logged for `x > y` has a format that ends
  in a lone `%`, for which `boost::format` throws before the state is reset
  (`AbandonThrows`). `d_burst_count` is not compared with the tuples, so parts of
  different bursts can be joined.
- `pdu_logger`: one count for all types; only the first PDU of a file number
  truncates, and only its own file, so another type's file may begin with data of
  an earlier run (`StaleOnlyWhenMixed`).
- Narrowing and initial values: `set_holdoff` of `tag_message_trigger` by command cuts a
  64-bit number to 32 bits, so a holdoff of 2^32 is none (settings are small
  numbers in the model); `d_drop_ctr` of `pdu_to_bursts` is incremented before it was set
  when the first PDU is refused (only logged); `upsample` reads 64-bit signed vectors with
  the accessor of unsigned ones, which throws (items are of one kind here).
- `pdu_delay` reads `debug` when a PDU comes and again when its timer fires.
- `pdu_head_tail` accepts a history of 0 and then writes in front of its buffers;
  `HeadTailAssumption` excludes it.

### Fairness

- `TagsToPdu!FairSpec`: weak fairness of `Work`. The scheduler calls `work()` as
  long as samples are buffered. Which split it chooses stays free. In a burst a
  call that is offered one sample consumes none, so `StreamConsumed` also
  rests on calls being offered all that is buffered in the end: the step that
  consumes nothing changes no variable, and fairness of `Work` asks for a step that
  changes something.
- `PduToBursts!FairSpec`: weak fairness of a call with room for at least two items.
  The output buffer of a GNU Radio block holds thousands of items, and the
  scheduler offers all free space. With room for one item only, the block would
  repeat that item for ever (`p2b_repeat`), so the assumption is needed.
- `TakeSkipToPdu!FairSpec`: weak fairness of `Work`, as above. A take and a skip of 0, which
  the setters accept, make a call consume nothing; `StreamConsumed` excepts that.
- `PduSetM!FairSpec`: strong fairness of the block's thread, as application threads may
  hold the lock now and then; weak fairness of a setter that has begun. The
  deadlock needs no unfair scheduling.
- No fairness on setters, commands or arrivals.

## 4. Theorems

All of the invariants that the passing runs check are theorems, and so are the action
property `SlicesLikePython` and the refinement; they hold for every value of the
constants, subject to the named assumptions and, where a property is about settings that
stay as they are, for behaviours in which these stay (said at each theorem):

| assumption | says |
|---|---|
| `ClockAssumption`, `ConstAssumption`, `StreamAssumption`, `NilAssumption` | what the constants of the stream blocks are |
| `SettingsAssumption` (`TagsToPdu`) | excludes an EOB alignment of 0, a division by zero that the setter does not prevent |
| `WiringAssumption`, `RoutingAssumption` | controllers, callers and outputs are finite, ports are wired to what exists |
| `TakeSkipAssumption`, `DelayAssumption`, `IndicesAssumption`, `LoggerAssumption`, `PreambleAssumption`, `SetMAssumption`, `AlignAssumption` | types of parameters and PDUs; what the constructors refuse |
| `SliceAssumption` | a field of a notation is blank, no number, or a number; an absent field is neither of the last two. Notations that `set_slice` refuses are included |
| `BitsAssumption` | data are bits, and no factor is 0, which `upsample` refuses |
| `HeadTailAssumption` | types, and excludes a history of 0, with which the code writes in front of its buffers |

### Lemmas on data

`SampleClockProofs` (`TimeTagTrue`): seconds and fraction of a time tag add up to the
true time of its sample. The proofs about times rest on it.

The induction theorems of the library take an operator as a parameter, which the
provers cannot instantiate. `Induction` proves from the well-foundedness of < on
numbers that a set of numbers has a least element (`LeastNat`) and that a set
closed under + 1 contains all that follow (`UpTo`); with the set written out these do
for what is defined by recursion over numbers (`RefAfter`, `Compared`, `Expected`, the
search for a first match).

### Stream blocks

**TagsToPdu.** `TypeCorrect` and `PublishedRuns` follow from the inductive
invariant `IInv`: `TypeOK`, `PdusAreDisjointRuns`, and `BurstInv`, which
says what the properties do not: inside a burst `d_vector` is a run from
`d_sob_tag_offset` that ends exactly at `nitems_read`, outside one it is empty,
and the last PDU ended before the open burst began. `NextBurst` clearing the
vector and `Fill` and `EndBurst` extending the run are the steps that matter;
the lemmas `ExtendRun`, `PadRun` and `TruncateRun` say what they do to `IsRun`. Setters
are covered: the proof needs no constancy of `conf`. On top of it:

- `BurstTimesExact` adds `TimeInv` (the known time is a true time, the rate the true
  one) and holds where the application sets neither start time nor sample rate.
- `SobsDetected` (`LeadingSobsDetected`) holds while the tag keys stay and the port is
  enabled, whatever else is reconfigured: the step lemmas say that a call consumes no
  SOB but the one it announces and those behind an EOB of their own sample
  (`MarksDetected`, `LeadingSob`).
- `PdusAligned` (`AlignedAndBounded`): the property compares PDUs with the sizes in
  force, so these are constant here, all else may change. It needs `SizesFit`: room
  for a sample behind the prepended items, and no burst shorter than the alignment's
  offset. *Without it the theorem is false*, since `d_vector.size() - d_eob_offset` wraps
  around to 2^64 (unless the alignment divides that), and so does the size that is left.
- `Chunking` (`ChunkingIndependent`), for every stream and every constant configuration:
  `RefInv` relates the state to the reference that goes sample by sample
  (`RefAfter[nitems_read]`); lemmas say what the reference does over the samples of a call
  without marks. It needs `prepend_len + 1 < d_max_pdu_size`: a burst that the prepended
  items and the SOB already fill is published by the *next* call, one sample late.

**TagMessageTrigger.** `TypeCorrect`, `HoldoffAlwaysRespected` and
`ArmingFiresOnce` follow from `IInv`: `TypeOK`, the properties themselves, and
three facts. `PositionInv`: tags not yet handled lie at or behind `nitems_read` and
`d_last_trigger_offset`, as the buffer is ordered. `LastInv`: nothing was published
behind `d_last_trigger_offset`. `ArmingInv`: `d_armed` means that the last
arming has not been used, and `d_disarm_offset` is its offset plus its holdoff, so the
uninitialised value is never decisive. The proof has one lemma per action.
`TxTimesExact` adds `TimeInv`, for applications that only set the true
rate and the true start time. `LimitHonoured` (`TxLimitHonoured`) counts what tags
fired since the limit was set: a message published adds one to the count or nothing.

**PduToBursts.** The inductive invariant says how the queue, the burst in progress and
the stream hang together. `QueueInv`: the queue holds the PDUs accepted last.
`FetchedInv`: only PDUs that left it are in the stream or in `d_data`. `DataInv`: between
two calls no tag is pending, and what is left of a burst ends where a PDU ends, has no
timed PDU behind its first item, and begins with the item written last, which the
`erase` of one item too few left there. `TagsInv`: a burst starts at the first item and
behind every EOB, nowhere else. `TimedInv`, `TimesInv`: times and their PDUs. `TypeCorrect`,
`Framed` and `TimesRight` follow from it. `NothingLost` adds `StreamInv`: the stream with
what is still to come *expands* what was accepted, that is, it is that sequence with
some items written twice at once; as no two neighbours of what was accepted are alike,
collapsing the repetitions gives it back. The initial value of `d_tag_sob` is either.

**AccessCodeToPdu.** `StrictlyLocked` and `BuffersBounded`, for every set of constructible
configurations and every register as long as its codes. The inductive invariant is `Typed`
(the types, without bounds on the counts), `Shaped` (the counts decrease from the oldest
burst on, and the buffer is as long as the first), `Incomplete` (no count has reached the
burst length) and `Locked`; lemmas say what opening, growing and popping bursts do to the
shape. `OldestBurstKept` (`OutputIsOldestBurst`), `PublishesWindows` (`RefinesWindows`)
and `TypeCorrect` (no count and no `d_nread` beyond the bits read) need `RInv` in
addition, which relates the state to the stream: the register holds its last bits, the
pending bursts are the windows whose code has ended and that the mode still selects, each
with its count and its inversion and no window missing, the buffer holds the bits of the
first, and `d_nread` lags behind the stream in strict mode only. `StepRefines` then shows
every step to be one of `BurstWindows` or a stutter, `PublishBurst` being the step that
publishes the window the abstract specification selects.

### Blocks that take PDUs

`PduFlowCtrlProofs`, for any number of controllers and ports: `QueueBounded` is not
inductive, as a handler that has read a queue may still add to it.
`CommitmentsAlwaysBounded` counts the handlers that will: the queue and its
commitments stay within the limit plus the other sources. Reading makes a
commitment only where there is room, publishing turns it into a message.

`PduBlocksProofs` has the other blocks. A behaviour of `PduBlocks` begins with one block
and takes its steps (`BlockBegins`, `BlockSteps`), so each block has an invariant of
its own, under `block = ...`:

| theorem | property | invariant |
|---|---|---|
| `PdusAsPlanned` | `PduAsPlanned` | `OnPlan`: the switch is where the plan says, and what was taken is the beginning of the planned PDU |
| `DelaysHonoured` | `DelayHonoured` | every timer belongs to a PDU that arrived, is due no earlier than its delay, and its PDU is not yet published |
| `Counted` | `CounterExact` | unless torn by a reset, counter and PDUs since the reset agree, and an increment under way has read the counter as it is |
| `CallsCounted` | `EmitterCountsCalls` | the count, and what a call about to write has read, plus the calls about to write, never exceed the calls; they are equal without overlap |
| `OutputsAlwaysBalanced` | - | outputs before `d_counter` are one message ahead of the others |
| `BurstsJoined`, `RunsJoined` | `WholeBurstJoined`, `JoinsRuns` | while a burst is in progress its parts are the run of PDUs received since its first, each but the last of its burst; and when the PDUs received last are the beginning of a whole burst behind the end of another, that burst is the one in progress |
| `PdusFiledRight`, `StaleExplained` | `PdusFiled`, `StaleOnlyWhenMixed` | the PDUs of the run number `d_filenum * d_pdus_per_file + d_burstnum`; the files above `d_filenum`, and that one until a PDU is counted for it, have no PDU of the run |
| `PairsStayTogether` | `PairsTogether` | a setter under way holds the lock and has a pair that was asked for to write, or only its value when the key is written |
| `WordsLostToOverlap` | `OnlyOverlapLosesWords` | a copy that a setter holds is of the part as it is, or the overlap is on record |
| `QuietPdusAlwaysCoherent` | `QuietPdusCoherent` | every part is either still to be stored by some setter, or being rendered with the progress that the parameters *as they are now* call for, or rendered with them; at most one thread renders. A setter that changes a parameter still has both parts before it, which is why writing without the lock does no lasting harm |
| `HistoryAlwaysLatest` | `HistoryIsLatest` | slot by slot, the buffers hold the heads and tails of the latest PDUs |
| `AlwaysCutAtMatch`, `AlwaysBestNearby` | `CutAtMatch`, `BestNearby` | the match held is better than every earlier one and no worse than any compared so far; in first match mode the search ends with it |
| `SlicedRight` | `SlicesLikePython` | `SliceInv`: the notation is the one set last unless that call overlapped a PDU; while none overlaps the PDU being handled, no `set_slice` is under way, and each step of the handler finds the members as its step before left them for this notation (`Undisturbed`). At `Adapt` the indices become Python's: forwards each is; backwards from inside the data the start is, and where the stop is not both slices are empty |
| `AlwaysRoundTrip` | `RoundTrip` | `LinkInv`: what is under way is what the sender's block makes of the data. Lemmas say that each block undoes the other, for data of any length and every factor; for `pack_unpack`, that shifting in eight bits gives their sum by weight (`ShiftedIn`), whose digits are the bits (`BitsBack`) |
| `FlowQueuesBounded` | `QueueBounded` | from `PduFlowCtrlProofs` |

### Only model-checked

- Liveness (`StreamConsumed`, `EverythingSent`, `EveryCommandHandled`): fairness and
  ENABLED are outside the prover.

## 5. Not modelled, and what is left

- The DSP blocks (clock recovery, FIR, PFB, GMSK, demodulation, rotation, noise):
  floating-point transformations of one vector. `update_time_metadata` of `pdu_align`
  for the same reason.
- `pdu_range_filter`, `pdu_length_filter`, `extract_metadata`, `msg_drop_random`,
  `pdu_split`: no state. A model would restate the one condition it is made from.
- `set_msg` of `message_emitter`: messages are numbers. `emit()` reads `d_msg` without
  the lock; the race on that pointer is not modelled.
- `set_key` and `set_val` of `pdu_set_m` called by the application: `set_kv`, which writes
  both, stands for them.
- Setters in the middle of a call of `tags_to_pdu`'s `work()`: a data race.
- The Qt source, constants, bindings, GRC and build files: no behaviour.

Worth doing next: a composition of `TagMessageTrigger` in timed mode with
`PduToBursts`, as in the transceiver of the repository's README, where a triggered PDU
leaves as a burst of its own with the time of its trigger.
