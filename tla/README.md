# A TLA+ verification of FlyBy

FlyBy is a Rust framework that takes frames from a source (a NIC, a file, a simulator), decodes,
preprocesses and places them, and hands the resulting messages to consumers through lock-free rings
in shared memory; a simulator drives virtual sources through a virtual ring. This directory models
the framework and the simulator in TLA+, checks the models with TLC on small instances, and proves
their safety (of the ring, the sink, the pipeline, its driver, the worker pool, the network, file and
virtual storage sources, the simulator and its dashboard) for every instance with TLAPS.

`PROJECT.json` lists the components, the runs with their properties, for every property a mutation
of the code that breaks it, the source lines each definition stands for, the findings, the hazards
and the theorems. Paths below are relative to the repository; every module is translated from the
source, not from its documentation.

## 1. Inventory

| Component | State | Operations | Where |
|---|---|---|---|
| SPSC ring and region | counters `head`, `tail` (wrapping u64, on separate cache lines), slots in mapped memory | `try_push`/`commit_push`, `try_pop`/`commit_pop`, `len`; `Region::push`/`pop` with a closure on the slot | `flyby-memory/src/ring.rs`, `region.rs` |
| Shared-memory sink | a region, the count `written` | `init` (empties the ring), `write`, `pop`, `shutdown` | `flyby-memory/src/lib.rs`, `slot.rs` |
| SimplePipeline | pending batch and its cursor, counters, round-robin position, sinks by id | `register_sink`, `init`, `step_outcome`, `shutdown` | `flyby/src/pipeline.rs` |
| Runtime driver | phase, shared shutdown flag, the pipeline | `validate`, `initialize`, `run`, `shutdown_pipeline`, `cleanup`, `request_shutdown` | `flyby/src/runtime/driver.rs` |
| Worker pool | shared shutdown flag, mutex-protected list of errors, threads | `run_factory`, `request_shutdown` | `flyby/src/runtime/scheduler.rs` |
| File source | open file, read buffer, offsets and indices, end-of-file state | `init`, `poll_batch`, `shutdown` with four framers and three policies | `flyby-storage/src/file.rs`, `framing.rs` |
| Simulator scheduler | clock, tick counters, timeline position, pause and breakpoints, virtual ring, consumers | `run`, `step`, `finish_run`, `pause`, `resume`, `edu_mut` | `simulator/src/scheduler.rs`, `ring.rs`, `consumer.rs`, `clock.rs`, `timeline.rs` |
| Virtual NIC, traffic, faults | pacer, counters, fault policy | `init`, `poll_batch`, `set_traffic`, `set_fault`, `shutdown` | `simulator/src/nic.rs`, `traffic.rs`, `fault.rs` |
| Capture source, replay | cursor, replay controller, counters | the same, plus the replay modes | `simulator/src/pcap.rs`, `replay.rs` |
| Simulated network source | configuration, sequence number, counters; the batch of its caller | `try_new`, `init`, `set_batch_size`, `poll_batch`, `poll` | `flyby-net/src/sim.rs`, `batch.rs` |
| Replay engine | anchor of timestamps, burst counters, armed flag | `poll`, `advance` | `flyby-storage/src/replay.rs` |
| Virtual storage | a file source, a scratch batch, faults, counters | `init`, `poll_batch`, `shutdown`, `take_spike_ns` | `simulator/src/storage.rs` |
| Capture file | bytes of a classic pcap | `parse_pcap`, `load_pcap`, `write_pcap_bytes_ex` | `simulator/src/pcap.rs` |
| Scenarios and scripts | none: documents become plans | parsing, compilation, script calls | `simulator/src/dsl/`, `scenarios.rs`, `main.rs` |
| Dashboard | mode, speed, event cursor, log, samples; the scheduler | keys, frames, restart | `simulator/src/tui/app.rs`, `events.rs` |
| Builder, telemetry, affinity, core traits | none that others read | assembly, names, interfaces | `flyby/src/builder.rs`, `runtime/telemetry.rs`, `flyby-core` |
| Kernel-bypass back ends | none: they answer with an error | | `af_xdp.rs`, `dpdk.rs`, `io_uring.rs`, `spdk.rs` |

**How they interact.** `Runtime::run` calls `step_outcome` of its pipeline until the source is
exhausted or the flag is set. A step of the pipeline polls the source (for files through
`StorageBatchSource`, which owns the record batch), and writes each message into the ring of one
sink; another thread or process pops it. The worker pool runs one pipeline per thread and shares
one flag among them. The simulator scheduler is a second driver: in each tick it polls its virtual
sources into one batch, pushes the batch into a virtual ring and lets virtual consumers drain it.
It is built from a plan, which a scenario document with its script, a built-in scenario or a capture
is compiled to, and it is owned either by a command that runs it to its end or by the dashboard,
which steps it and reads the events it emits. A virtual storage source wraps a file source; what it
delivers is paced by a replay engine.

**What is hard, and what correctness means.**

- *Ring.* Two threads without locks decide on loads that may be stale, and full is told from empty
  by wrapping differences. It is correct when no slot is ever used by both threads, nothing is lost,
  damaged, duplicated or reordered, and every message arrives.
- *Pipeline.* A step may stop at any frame because a stage fails or a sink is full, and consumers
  make room at any moment, also between the write to the target and the one to the overflow sink.
  Every frame must have exactly one fate, the order per sink must hold, no frame may be dropped or
  diverted for a sink that had room all along, and the counters must tell the truth.
- *Runtime.* The flag is set from another thread at any time, the owner calls the methods in any
  order, and each stage may fail. Draining must mean that all is done, Shutdown that the pipeline is
  released, and a run must end.
- *Worker pool.* Threads fail, panic, or cannot be spawned. `Ok` must mean complete work, no thread
  may outlive the call, and one failure must stop the rest.
- *File source.* Reads are cut anywhere and may fail, the file grows, and loops must neither lose
  records nor spin. What comes out must not depend on how the file was read.
- *Simulator.* A tick is a sequence of stages over sources whose settings the timeline changes,
  while spikes make the clock jump; runs can be paused, broken off and begun again. Packets,
  order, rates and timeline must be exact, and calls must return.
- *Network source.* A packet is lost by rate or by a full batch. Every packet must be handed over
  or counted, and the sequence numbers, which wrap, must show exactly the losses.
- *Virtual storage, replay.* Three batches follow one another (file, scratch, caller), and time
  passes between polls. Records must balance, none may come out early, and all must come out.
- *Capture file.* `run_pcap` loads it three times, and somebody may append to it meanwhile. What is
  replayed must be what was complete when the source was loaded, in either byte order and resolution,
  and the duration and the slots must fit it.
- *Slots.* A slot is used again for a shorter message, sizes are rounded and may overflow. Each
  unread slot must decode to what was written.
- *Dashboard.* Any key at any time; a cursor into a list that is cut off behind it; restarts. No
  event may be missed or shown twice, samples must add up, finishing must stop the sources.

## 2. Modules

| Module | Models | Composes |
|---|---|---|
| `BoundedFifo` | what a ring promises | abstract: two histories |
| `SpscRing` | ring and region | implements `BoundedFifo` (`ImplementsFifo`) |
| `SharedMemorySink` | what a sink promises | abstract: the sink as a value |
| `SlotRegion` | slot layout, region memory, the whole sink | implements `SharedMemorySink` (`SinkAsPromised`) |
| `SimplePipeline` | the pipeline and its consumers | `SharedMemorySink` |
| `RuntimeDriver` | Runtime | `SimplePipeline` |
| `WorkerPool` | `run_factory` and its threads | a pipeline is seen through its results |
| `PacketLedger` | what a packet source promises | abstract: made, taken, refused |
| `NetSource` | simulated network source, `RawBatch`, its two adapters | implements `PacketLedger` (`ImplementsLedger`) |
| `Framing` | the framers | pure operators |
| `FileSource` | file source, record batch and `StorageBatchSource` | `Framing` |
| `ReplayEngine` | pacing by timestamps, bursts, single steps | pure operators |
| `VirtualStorage` | virtual storage and a caller who replays its records | `FileSource`, `Faults`, `ReplayEngine` |
| `CaptureFile` | the pcap format: loading, writing | pure operators |
| `Faults`, `TrafficPacer`, `SimReplay` | fates of a packet, pacing of a NIC, of a capture | pure operators |
| `VirtualSource` | VirtualNic and PcapSource | the three above |
| `FlyScenario` | documents, scripts, built-in scenarios: what they compile to | `VirtualSource`, `CaptureFile` |
| `SimScheduler` | scheduler, virtual ring, consumers, timeline, clock, the commands that run it | `FlyScenario` |
| `Dashboard` | the interactive session | `SimScheduler` |
| `MC...` | | constants for TLC |
| `ModularArithmetic` | | lemmas about `%`, and induction over the naturals |
| `SpscRingProofs`, `SlotRegionProofs`, `WorkerPoolProofs`, `NetSourceProofs` | | theorems about the module of the name |
| `RuntimeProofs` | | theorems about `SimplePipeline` and `RuntimeDriver` |
| `StorageProofs` | | theorems about `FileSource`, `ReplayEngine` and `VirtualStorage` |
| `SimulatorProofs` | | theorems about `TrafficPacer`, `VirtualSource`, `SimScheduler` and `Dashboard` |

Definitions whose comment begins with "Mutant:" are the plausible bugs that show that a property
can fail; the specifications do not use them.

### SpscRing

`head`, `tail` and `slots` are the mapped memory; `pPc`, `msg`, `tailSeen` belong to the producer
thread and `cPc`, `val`, `headSeen` to the consumer; `sent` and `got` are history. `TryPush` loads
`tail` and claims a slot, `Fill` and `FillFails` are the outcomes of the closure, `CommitPush`
publishes; the consumer is symmetric. Each action touches at most one location that the other
thread writes. An Acquire load returns any value between the last one this thread saw and the
current one, which is what coherence allows; the Release/Acquire pairs order the slot accesses. A
slot that is being filled is `Torn`. `Region::push` and `pop` take `&mut self`; the two threads are
those of the concurrent test of `ring.rs` and of two processes that map one region.

### SimplePipeline and RuntimeDriver

`step_outcome` is split at each attempt to write, because that is where it looks at state a
consumer changes: the write to the target (`WriteAttempt`) and the one to the overflow sink, which
`TryOverflow` asks for and `OverflowAttempt` makes. `Accept`, `Drop`, `GiveUp` and `Retry` are the
branches of `write_with_backpressure`. `RefillPending` is a poll, `ProcessFrame` decodes and routes one frame. What stages make of a frame is
its *kind*. `register_sink`, `init`, `shutdown` may come at any time between steps and may fail.
`RuntimeDriver` adds the phases and splits `run` at every look at the flag; `RequestShutdown` is
always enabled.

### WorkerPool

`run_factory` spawns (`Spawn`, `SpawnFails`), joins in order (`Join`) and collects the first error
(`Collect`). A worker runs the factory, `init`, steps until it stops, `shutdown`, and on failure
pushes its error (`Record`) and then sets the flag (`SetFlag`): two steps, as in the code.
`Panics` ends a thread wherever it is.

### FileSource

One `poll_batch` is split at every read of the file. `FillBuf` takes any prefix of what was asked
for, `FillBufFails` leaves the zeros in the buffer that the code leaves there, `FileGrows` appends to
the file at any time, and the `Eof...` actions are the branches of `handle_eof`. `Complete` and `BytesAt`
are the record the framer finds at an offset of the whole file; `RecordsOf` follows them from the start
to the end and is the reference the records are compared with.

### SlotRegion

`memory` is the region cell by cell: its header, the counters and the slots, and a field of a slot
header is a cell. `Init` is `new`, which computes the geometry with the code's checks for overflow (`slot_size` rounds up
to cache lines), `Write` encodes into the slot of `head` and leaves what lies behind a shorter
message as it was, `Pop` decodes. Every method takes `&mut self`, so that a call is a step.
`SinkAsPromised` says that each step, seen through the decoded unread slots, is the call of
`SharedMemorySink` it stands for: this is what entitles the pipeline to work with the abstract sink.

### NetSource and PacketLedger

`poll_batch` is a step per packet, through the adapter of the pipeline (one batch that is kept) or
through `Source::poll` (a batch of one slot for each call). The ledger forgets batches, capacities and
restarts: a packet is handed over in order or refused and counted.

### VirtualStorage and ReplayEngine

The file source keeps its own actions; its batch is the scratch batch, and `ResetsBatch` says
whether its caller resets it, as the adapter of the pipeline does and the virtual storage does not.
`FilterRecord` takes one record through the faults into the caller's batch. The caller asks the
engine about the oldest record it holds (`Ask`) and calls `advance`; time passes in between.

### CaptureFile

`ParsePcap` and `WritePcap` work on sequences of cells: a word of a header, or a byte of data, is one.
A word has two digits, so that both byte orders are told apart, and a file may end behind any cell.
The loader does not tell a file that ends within a word of a header from one that ends behind it.

### FlyScenario

Pure operators from a document (what the TOML parser returns) to the plan the scheduler is built
from: defaults, conversions of durations with their rounding, refusals, the calls of a script as
timeline actions, and the stable sort that merges the two. A `Result` is a set with at most one
element.
`PcapPlan` is `run_pcap` with its three loads: the source, the time of its last packet, the largest
packet. The recorder is external: `Found` is what a load finds of the file, up to an end of its own.

### SimScheduler and Dashboard

`pc` goes through the stages of `step`: end and breakpoint checks (`StepOver`, `StepBreaks`,
`StepBegin`), the second reading of the clock (`StepPolls`), the polls packet by packet
(`PollBegins`, `NicPacket`, `PcapPacket`, `NicDone`, `PcapFull`, `PcapWaits`), `PushRing`,
`DrainConsumers` and `StepEnd`. `RunCall`, `StepCall`, `FinishRun` and `SetEdu` are the owner's
calls. In real time the clock moves between any two of these (`RealTimePasses`). Which packets a
fault hits is left open, which covers every seed.

The dashboard replaces the free owner: its keys make the calls, a frame of automatic ticks is
a sequence of `step_once`, and each ends with `ingest_tick_samples` and `refresh_events`. Events are
their number and their class.

## 3. Runs

| Run | What it checks | Bounds |
|---|---|---|
| `ring` | `NoSlotRace`, `LenWithinCapacity`, `UnreadIntact`, the inductive invariant `RingInv`, refinement of `BoundedFifo` (`ImplementsFifo`), `EveryMessageDelivered` | 2 slots, counters modulo 4, 5 messages of 2 values |
| `pipeline` | the inductive invariant `PipelineInv` (types, counters, rings, order of the batch, one fate), `FramesAccountedFor`, `PerSinkOrder`, `RefusedOnlyWhenFull` (a drop or a diversion needs sinks that had been filled) under all strategies, placements and failures | 3 frames of 4 kinds, 2 sinks of 1 slot, batches of 2 |
| `driver` | `DriverInv` (types, a stopped Runtime has released its pipeline, a step happens inside `run`), `DrainingMeansDone`, `BudgetHeedsShutdown`, `RunCompletes` | the pipeline above, one `run` |
| `pool` | the inductive invariant `PoolInv` (types, workers, caller and flag), `OkMeansComplete`, `FailureStopsPool` | 3 workers, 2 calls |
| `file` | `FileInv` (the buffer is a window of the file; records join and come out once), `RecordsAreThoseOfTheFile` (and complete passes), `EveryRecordComesOut`, `PollReturns` | every file of up to 4 bytes over 3 values, chunks of 3, 5 framers, 3 policies, 2 rewinds, 2 starts, 1 I/O error |
| `net` | the inductive invariant `NetInv` (types, totals of the batch, reported drops, sequence numbers), `SequencesShowGaps`, refinement of `PacketLedger` (`ImplementsLedger`) | batch of 2, sequence numbers modulo 4, 3 polls, 2 starts |
| `slots` | the inductive invariant `SlotInv` (types, unread slots decode to what was written), `SinkAsPromised` | up to 2 slots, 6 payload limits, 5 messages, 5 writes |
| `storage` | `StorageInv` (types, records balance), `ReplayPaced`, `EveryRecordEmitted` | files of up to 3 records, scratch of 3, caller's batch of 2, every replay mode |
| `storage_scratch` | `RecordsAreThoseOfTheFile` fails on the second poll | the same |
| `sim` | `SimInv` (types, ring and counters balance), `PacketsAccountedFor`, `ReadInOrder`, `TimelineObserved` (settings are those of the timeline, and frames stay whole under it), `RatesExact`, `CaptureReplayed` (a capture that is being recorded is replayed as far as it was complete, in time and to its end), `CallsReturn` | 49 commands (files, refused files, built-in scenarios, captures), 3 ticks (8 for a capture), 2 runs, rings of 1 to 3, 2 consumers, timeline and script, breakpoints and pause; a recording of 2 packets in 4 formats, which ends in each of its parts and grows between the loads |
| `sim_two_nics` | `PacketsAccountedFor` fails with two NICs | 2 NICs |
| `session` | `SessionInv` (types, a finished session has stopped its sources), `NoticesShown`, `SamplesAddUp`, `AutoEnds` | 6 commands, any keys, log, sink and histories of 3, speeds up to 4, 2 runs |

The invariants whose name ends in `Inv` are conjunctions of the type invariant of the module and of the
named parts beside it.

**Why the bounds are enough for the cases that matter.** *ring*: counters modulo 4 are the smallest
word a ring of two allows, so that both counters wrap within five messages and every relation of
head, tail and the two views occurs. *pipeline*, *driver*: sinks of one slot make the third frame
meet back-pressure under any placement; two sinks are needed for overflow and re-routing; the retry
counter wraps at 3 in place of 2^32. *pool*: three workers are one that fails, one that is joined
before it and one after; the second call meets the flag the first has left. *file*: with chunks of three and files of four bytes every record, header
and delimiter is cut in every way, and a record longer than a slot occurs. *sim*: ticks of 2 with a
packet every 3 make a carry necessary; a spike of 3 skips over timeline actions; the ring of two
overflows in one tick; the second run begins with packets left from the first; table and script
have actions at the same time. *net*: three polls of a batch of two wrap the sequence numbers,
and a poll may intend more packets than the batch holds. *storage*: the caller's batch is smaller than
the scratch, so that records are refused; two polls are needed to meet a stale scratch. *session*:
a tick emits more events than the sink keeps, so that the cursor is beyond what is left. The
recording has a packet below a second and one above it, and the loads find the file cut in its header, in
the header or the data of either packet, and behind each of them, with and without growth between the
loads. *slots*: two slots and five writes use a slot again after a longer
message, and the largest payload limits overflow the size.

Bounds in guards: `MaxSent`, `MaxRuns`, `MaxFile`, `MaxLoops`, `MaxStarts`, `MaxIoErrors`,
`MaxPolls`, `MaxAdvances`, `MaxClock`, `MaxWrites`, `MaxTicks` (ticks in real time,
where a tick may take no time) and `MaxDrops`. `MaxDrops` is also
an assumption: the generator behind the faults is a full-period congruential one, so below a drop
rate of one it does not drop for ever. Deadlock is checked in `ring`, `pipeline`, `driver`, `pool`
and `slots`; the others may really stop: a source that was shut down, a session the user has left, a
command that has returned.

**Fairness.** *ring*: the consumer's thread runs (weak fairness), and a counter that is loaded again and
again is not read equally stale for ever (strong fairness of `FreshPop`: stores become visible in
finite time). *driver*: only the thread inside `run` is fair. That consumers read and that the
source delivers and ends is an explicit premise, `GoodSurroundings`, of `RunCompletes`;
`BudgetHeedsShutdown` holds without it. *pool*: every thread is scheduled, and no
source need ever end. *file*: a poll that has begun goes on, the caller polls again, the follow
interval elapses. *storage*: in addition the caller asks the engine again, calls `advance`, and time passes.
*sim*: a call that has begun goes on, and real time passes. *session*: the event loop goes on
and time passes; the user need never press a key.

## 4. Proofs

Every theorem below is about the specification the runs check, for every value of its constants
that satisfies the named assumption; the bounds of the runs are constants like any other. The
assumptions are evaluated by TLC in the runs.

| Module | Theorems | Assumption and provisos |
|---|---|---|
| `SpscRingProofs` | `RingInvariant` (`RingInv`), `TypeCorrect`, `SlotExclusion` (`NoSlotRace`), `LenBounded` (`LenWithinCapacity`), `UnreadMessagesIntact` (`UnreadIntact`), `RingImplementsFifo` (`ImplementsFifo`) | `RingAssumption` |
| `SlotRegionProofs` | `SlotInvHolds` (`SlotInv`), `SinkAsPromisedHolds` (`SinkAsPromised`) | `SlotRegionAssumption` |
| `RuntimeProofs` | `TypesHold` (`TypeOK`) | `PipelineAssumption` |
| | `PipelineInvHolds` (`PipelineInv`), `PerSinkOrderHolds` (`PerSinkOrder`), `RefusedOnlyWhenFullHolds` (`RefusedOnlyWhenFull`) | and `~FailedReinit` |
| | `NoneForgottenHolds` (`NoneForgotten`) | and `PollsFit` |
| | `FramesAccountedForHolds` (`FramesAccountedFor`) | and both |
| | `DriverRunsPipeline`, `DriverInvHolds` (`DriverInv`) | `DriverAssumption` |
| | `DrainingMeansDoneHolds` (`DrainingMeansDone`) | and `PollsFit` |
| | `DriverKeepsFrames` (`FramesAccountedFor`, `PerSinkOrder`) | and both |
| `WorkerPoolProofs` | `PoolInvHolds` (`PoolInv`), `OkMeansCompleteHolds` (`OkMeansComplete`) | `WorkersAssumption` |
| `NetSourceProofs` | `NetInvHolds` (`NetInv`), `SequencesShowGapsHolds` (`SequencesShowGaps`), `Implementation` (`ImplementsLedger`) | `NetAssumption` |
| `StorageProofs` | `FileInvHolds` (`FileInv`), `EndIsRealHolds` (`EndIsReal`), `RecordsAreThoseOfTheFileHolds` (`RecordsAreThoseOfTheFile`), `ExhaustedAfterAllHolds` (`ExhaustedAfterAll`) | `FileAssumption` and `CarefulCaller` |
| | `StorageInvHolds` (`StorageInv`), `ReplayPacedHolds` (`ReplayPaced`) | `FileAssumption`, `VirtualAssumption`, `ModesAssumption` and `~PollAfterReadError` |
| `SimulatorProofs` | `SimInvHolds` (`SimInv`), `RatesExactHolds` (`RatesExact`), `ReadInOrderHolds` (`ReadInOrder`) | `SimAssumption` and `PlansAssumption` |
| | `PacketsAccountedForHolds` (`PacketsAccountedFor`) | and `OneSourceEach` |
| | `SessionInvHolds` (`SessionInv`), `SamplesAddUpHolds` (`SamplesAddUp`), `NoticesShownHolds` (`NoticesShown`) | and `DashAssumption` in place of `OneSourceEach` |

### Ring

*Assumption.* The capacity is positive, at most half of the word's range, and
divides it. `SpscRing::new` requires a power of two up to half of the range, which implies this.
(`& mask` is `% Capacity` for powers of two.)

*The invariant and why it is needed.* `NoSlotRace` says nothing about how stale a view may be, so it
is not inductive. `RingInv` adds that the counters are the numbers of commits modulo the word
(`CountersInv`), that the views lie between the counters (`ProducerViewInv`: head is ahead of the
producer's view of tail by what it is ahead of tail plus what tail is ahead of the view, and never
by more than the ring; `ConsumerViewInv` likewise), what each thread carries from step to step
(`CarriedInv`), that unread slots hold what was committed there (`UnreadIntact`) and that the
consumer has got a prefix of what was sent (`GotInv`).

*The argument.* `ModularArithmetic` has the facts about `%` that the SMT solver does not find.
`WrappingSubLinear` and `WrappingAddLinear` turn the wrapping operators into linear cases,
`Distance` says that the wrapping difference is the true one as long as it fits the ring, and
`ClaimedSlotIsFree` that the slot of `head` is none of the unread ones. `ProducerInv` and
`ConsumerInv` preserve the invariant action by action.

### Slots

*Assumption.* The header of a slot has its five cells, sizes are natural numbers, and a power of
two that fits the u32 header field is smaller than the range of the counters (2^64) and divides it.
Nothing is assumed of the geometry: that a slot has room for its header and the largest payload is
proved from the rounding of `slot_size` and the checks of `validate_params` (`GeometryValidated`).

*The argument.* `SlotInv` is inductive as it stands. `SlotsApart` and `SlotInside` say that slots
share no cells and end with the region, `SlotFilled` that `push` therefore changes one slot only,
`EncodeFits` and `DecodeOfEncoded` that `decode` gives back the message whatever lies behind it in
the slot, `NextSlotIsFree` that the slot of `head` is none of the unread ones also when a counter
has wrapped, and `SlotsAfterPop` that the others keep their places. `ViewIsUnread` then turns every
call into the one of `SharedMemorySink`. With this the pipeline's abstract sink rests on
proofs down to the cells, and the two threads of the ring on those of `SpscRingProofs`.

### Pipeline and driver

*Assumptions and provisos.* The sinks are finite and the placement has at least one; the rest are
types. `~FailedReinit`: no `init` fails on a pipeline that is initialized. The proviso
is needed, because such an `init` resets some sinks and not the counters (`pipeline.rs:467`, section
5). `run`, the worker threads and the builder call `init` once; an owner can only meet it with a second
`initialize` that fails. `PollsFit`: a poll returns no more frames than the batch
holds; otherwise the rest is cut off (`pipeline.rs:334`, finding 3), and a frame is forgotten.

*The invariant.* `FramesAccountedFor` counts and is not inductive. `PipelineInv` says without counting
that the waiting frames are increasing and behind every frame that has a fate (`BatchInOrder`) and
that no frame has two fates (`OneFate`); the counters are cardinalities of the histories
(`CountersAgree`), and each ring is the end of what its sink accepted (`RingHoldsLatest`).
`NoneForgotten` is the other half. The count is one because each of the four parts of `Fates` is at most one
(`OneFate`) and one of them is not zero (`NoneForgotten`).

*The argument.* A step of the pipeline does one of a few things to the frames (`FrameStep`: begin anew, end, take a poll,
accept, drop, skip, or leave them alone), and each part of the invariant is preserved once for each of
these instead of once for each of the actions. `RingsByElements` replaces the ring as a
subsequence by its elements.

*Refusals.* `RefusedOnlyWhenFull` says of a dropped or diverted frame that each sink that refused it
had, since `init`, accepted a whole ring of earlier frames. Whether a sink is full now says nothing of this
once its consumer goes on, so `WritesRouted` carries it from one write to the next: while a frame is
written, the target is a sink the placement routes it to, and at the overflow sink the target had been
filled. That a full ring means a filled sink is `RingHoldsLatest`: what is in a ring was accepted since
`init`, and before the current frame (`BatchInOrder`). Hence the proviso: after an `init` that failed, rings
and histories disagree.

*The driver* implements the pipeline's specification (`DriverRunsPipeline`), so that every theorem
about the pipeline holds of the driven one. `DrainingMeansDone` needs in addition that a step only runs inside `run`
(`StepInsideRun`) and that a source that has said it is exhausted has delivered all its frames.

### Worker pool

*Assumption.* Workers are numbered `1 .. NumWorkers`, at least one. *The invariant.* `OkMeansComplete`
relates the result to threads that ended long before, so `PoolInv` keeps account of each worker
(`WorkerAccount`: how its loop ended, what its thread has left when it is gone), of the caller
(`CallerAccount`: which threads cannot exist yet, which are gone) and of the flag (`FlagExplained`: who has
set it). The order of `Record` before `SetFlag` in the code is what makes `FlagExplained` inductive: a
worker stopped by the flag of a failed one finds the error in the list when the caller collects.

### Network source

*Assumption.* The width of the sequence numbers is positive; batches and limits are natural numbers.
*The invariant.* `NetInv` says that the totals of a batch are those of the present poll
(`BatchTotals`), that every loss is in a report or in the batch (`DropsReported`) and that each
packet's sequence number follows from those made before it (`SequenceFollows`), modulo the width.
`Implementation` maps the source to `PacketLedger`: each step is a packet handed over, a packet refused,
or a stutter; `SequencesShowGaps` follows from the invariant.

### File source

*Assumption and proviso.* The parameters of a framer are those its constructor accepts; reads, slots
and the batch have positive sizes. `CarefulCaller`: the batch is reset before every poll, as
`source.rs` demands and the adapter of the pipeline does, and no poll follows a failed read. Without the
first, records come out again (finding 2); without the second, the zeros a failed read leaves in the buffer
are framed (finding 7).

*The invariant.* That the records are those of the file is not inductive: it says nothing of the bytes
that wait in the buffer. `FileInv` adds that the buffer is the file between `buf_file_offset` and the
position, or empty after a seek that failed behind the last record (`BufferIsWindow`), and that a
poll reads only after the framer has asked for more (`InPoll`). Of the records it says that each is
what the framer finds in the whole file at its offset, that each begins where the one before has ended, or at
0 when Loop has used up the file, and that `records_since_rewind` is zero exactly at the
start of a pass (`RecordsAreCut`); and that every index is that of one record, which comes out once and in
order or is lost with its poll (`EachIndexOnce`).

*The argument.* `FramerStable`: bytes that follow do not move the end of a record a framer has found,
for each of the four strategies. So what it says of the buffer it says of the file from there on
(`ConsumedIsNext`), and of the file when it has grown (`CompleteStays`); and when it needs more at the end of the
file, no record is left there (`NothingLeft`), so that Loop does not rewind and Stop does not end too
early (`EndIsReal`).

*That the records are those of the file.* `RecordsOf` is a recursive function over the file; it is
the sequence these cuts make from offset 0, for every file (`RecordsAreFramed`), and the records of a
file that has grown begin with the old ones (`RecordsStay`). Both are inductions over the offset.
The library states induction with an operator as a parameter, which the provers cannot
instantiate; `Induction` in `ModularArithmetic` says it of a set, and a proof defines the set of
the numbers for which its claim holds. `AtItsPlace` makes the property inductive: the source stands at the end of
as many records of this pass as it has counted, the passes before were complete, and every record
made has the bytes, offset and index that `Expected` gives it. `ExhaustedAfterAll` follows with
`NothingLeft`; it is the safety half of `EveryRecordComesOut`.

### Virtual storage and replay

*Assumptions and proviso.* Batches have positive sizes, a time factor is a fraction with a positive
denominator, counts and gaps are natural numbers. The source is not polled after a failed
read (finding 7). That the scratch batch is reset is not assumed: what is proved here holds of the
code as it is.

*The invariants.* `Accounted` has the buffer, the offset and the contents of the inner source (each
record in a batch is one of the file, `Genuine`), the types of wrapper and caller, and the
books: what was read is what was passed on and what was dropped, and the corrupted ones are
counted. It is needed because `StorageInv` says nothing of records that wait in the scratch batch.
`Paced` has a part for each mode: `TimedInv` (the anchor is the first record that came out),
`BurstInv` (a burst began where the count says, and the gap is armed from its end), `StepInv`
(records and permissions against the calls of `advance`).

*The argument.* `StepBelow` turns each step of the wrapper into one of the inner source or
none. `EngineTimeScaled`, `EngineBurst` and `EngineSingleStep` say what a question does to the engine,
`QuotientBound` that rounding down costs less than one unit of the denominator.

### Simulator

*Assumptions.* `SimAssumption` bounds the constants. `PlansAssumption` says that what the compiler
hands over has the types of the structs it fills (sources as their constructors make them, a
positive batch size, ring and drain limit, which the compiler checks or clamps). TLC evaluates it on every
command of the runs. `OneSourceEach` is needed for `PacketsAccountedFor` only: with two NICs it fails
(finding 1).

*The invariants.* `SimTyped` has the types, what holds at each place of a step, and that every packet in the
batch, in the ring and among those read was made by its source (`Made`); without the last, nothing
would say that a new packet comes after the old ones. `GoodSource` includes `Rated`: the time of all
polls is that of the packets paced plus the carry, and the carry is below the time of a packet, so
`RatesExact` is a division with rest. `SimOrdered` says that those read, those in the ring and those in the batch follow one
another. `SimAccounted` says where the packets of the only source are at each stage of a tick.

*The argument.* `PushRing`, `DrainConsumers`, `apply_timeline` and the totals are folds over
sequences of any length. `FoldExists` and `FoldUnfolds` show by induction over the length what
`FoldLeft` is, for the operations named in `Apply`, and `PushFold`, `DrainFold`, `SumFold` that a fold of
the model is one of them. From there each fold is an induction with its own claim: the ring grows by at most
the batch and keeps its order (`PushOrdered`), consumers take a prefix (`DrainedSplits`),
the sources keep their counters whatever the timeline sets (`ActOnSources`).

### Dashboard

*Assumption.* The limits of histories, log, sink and speed are positive. *The invariants.*
`SessionTyped` is `SimTyped`, the types of the dashboard and what each of its places knows of the
scheduler (`DashPlaces`: in particular `step_once` never has to begin a run, and in the loop the
scheduler runs exactly when the session is not finished). `SamplesSum` relates the samples, the count they
were taken from and the sources; `TicksKnown` the history of ticks, the counter and the tick events
that were not read yet. `EventsLogged` says that the sink has the last events that were emitted, in order and
without a gap (`Numbered`), and that the log has told all notices up to the
cursor (`LogOf`); in the loop the cursor is at the end of the sink, or one before it when the session is finished.

*The argument.* Every action of the scheduler emits known kinds of events (`StepsEmit`: a tick
at the end of a step and nowhere else), and every action of the dashboard either appends to the sink,
or reads all of it and cuts it (`EventsAppended`, `EventsRead`, `NumbersCut`), or leaves it
alone. Reading is a fold over the new events (`LogFold`), cutting keeps the end (`LastOfIs`, `LogCut`): a
line that falls out of the log is older than all that stay.

### What is only model-checked

- Liveness: `EveryMessageDelivered`, `BudgetHeedsShutdown`, `RunCompletes`, `FailureStopsPool`,
  `EveryRecordComesOut` (but for `ExhaustedAfterAll`), `PollReturns`, `EveryRecordEmitted`, `CallsReturn`,
  `AutoEnds`. TLAPS does not reason about fairness.
- `TimelineObserved`: it compares the settings with the document, so it rests on what
  `FlyScenario` computes from one, the stable sort and the sizes of frames among it. That
  would be a proof about the compiler; the other theorems take from it no more than the types of its results
  (`PlansAssumption`).
- `CaptureReplayed`: it rests on what `CaptureFile` computes from a file, and on the numbers of packets in
  a tick.

## 5. Findings

Two have runs of their own; `PROJECT.json` quotes the lines that disagree.

1. `sim_two_nics`: the sources of a tick share one batch, which each poll resets; only the last NIC's
   packets reach the ring.
2. `storage_scratch`: a virtual storage source does not reset its scratch batch, and delivers the
   records of its first poll again in place of the later ones.

These are excluded by the bounds of a passing run, or by a premise of its property. To see
them, change the configuration as said:

3. Frames beyond `batch_size` vanish without being counted (`flyby/src/pipeline.rs:334`; "FlyBy never
   silently drops", `flyby-net/src/source.rs:27`): `FramesAccountedFor` in `MCSimplePipeline.cfg` with
   `Configs <- SmallBatch`.
4. Without a retry budget `run` does not heed a shutdown request while nobody reads the sink
   (`pipeline.rs:361`; "until success, retry budget, or shutdown", `runtime/backpressure.rs:12`):
   `ShutdownHeeded` in `MCRuntimeDriver.cfg` with `Configs <- Endless`.
5. A second `run` works on a pipeline that is not initialized, because the phase CleanedUp is greater
   than Initialized (`runtime/driver.rs:166`; "validate → init → run", `docs/src/runtime.md:31`):
   `RunStartsInitialized` in `MCRuntimeDriver.cfg` with `MaxRuns = 2`.
6. After a failed spawn, worker threads outlive `run_factory` (`runtime/scheduler.rs:173`; "joins
   internally", `:107-108`): `NoThreadOutlivesCall` in `MCWorkerPool.cfg`.
7. After a failed read, zeros that are not in the file become records (`flyby-storage/src/file.rs:146`):
   `RecordsAreThoseOfTheFile` in `MCFileSource.cfg` with `PollAfterReadError = TRUE`.
8. A capture that is cut inside the header of a packet is loaded without an error
   (`simulator/src/pcap.rs:105`; "Returns `ErrorKind::Decode` when the header is not a recognised classic
   pcap magic, or the file is truncated", `:63-64`): `LoadedOnlyWhole` in `MCSimScheduler.cfg`.
   `CaptureReplayed` says nothing of the load of such a file.
9. A breakpoint fires again on every step: `step` checks it before the tick, and neither clock nor
   ticks have moved (`simulator/src/scheduler.rs:374`; "Clear pause so step can run past breakpoint
   guards", `tui/app.rs:193`): `SteppingPassesBreakpoints` in `MCDashboard.cfg` with
   `Commands <- OnlyBreakpoint`.

Behaviour met on the way that no run refutes, because no text promises otherwise or because it is
outside the model:

- A frame under back-pressure is routed again on each step, so round robin may send it elsewhere
  (`flyby/src/pipeline.rs:131`, `:350`); `PerSinkOrder` holds nevertheless.
- An `init` that fails on an initialized pipeline leaves it usable although parts of it were reset
  (`pipeline.rs:467`).
- A shutdown request discards the pending frames (`driver.rs:190`), and an error in a step leaves
  the phase at Running (`driver.rs:194`).
- A worker whose loop fails skips the pipeline's `shutdown` (`runtime/scheduler.rs:162`). The flag
  is never cleared: a second `run_factory` answers `Ok` without doing anything (`:170`), which
  `OkMeansComplete` excepts (`stale`).
- `AdaptiveBatching` is documented as a block "with a single retry" (`runtime/backpressure.rs:24-25`) and takes the configured number of retries.
- A record rejected in the middle of a batch makes the poll fail, and the good ones before it are
  lost to the caller (`file.rs:314`).
- `run_demo` of the builder drives a pipeline with the default strategy, `Block` without a retry
  limit, into a sink of 256 slots that nobody can read: by finding 4 the step that writes the 257th message
  does not return (`flyby/src/builder.rs:186`).
- A retry budget of `u32::MAX` is never used up, because the counter wraps to zero first
  (`pipeline.rs:421`); `BudgetHeedsShutdown` excepts it.
- In the simulator: `init` of a NIC does not restart its fault generator, and a second run keeps
  what the timeline has set, so two runs of one scheduler may differ (`fault.rs:17-18`).
  `ring_overflows` counts oversized packets too. A `step` after the end begins a new run and
  clears the counters. The re-anchoring of a looped capture has no effect,
  because the replay compares with the absolute clock. A looped capture at full speed with a
  drop rate of one keeps its poll spinning.
- In scenario files: a duration `"-5ms"` is read as 5 ms, because the sign is skipped
  (`dsl/duration.rs`); a NIC without a `[nic.traffic]` table is refused, because the default pattern
  is the empty name; a timeline action for an unknown NIC is ignored. The script calls `set_fixed` and
  `set_burst` replace the whole traffic, so that frames may be cut to a batch slot sized for the
  traffic before; captures are cut to a slot sized for the default traffic (`scheduler.rs:394-397`).
- `run` of a capture sends at most a batch per tick until a millisecond after the last timestamp: a
  capture with more packets than that is broken off, which `CaptureReplayed` excepts. A later load
  that fails leaves it a millisecond, or slots of the default size (`main.rs:252-277`). The last
  timestamp is counted from zero (`:263`), which is decades for a capture with absolute times.
- The event SimulatorStopped never reaches the log of the dashboard: `finish_run` comes after
  the last `refresh_events` (`tui/app.rs:203`), although the comment at `:256` means to "keep
  faults + lifecycle"; `NoticesShown` excepts it.

## 6. What is not modelled

- Telemetry, metrics, logging, status lines and drawing: written and never read by the program.
- The builder, whose `run_demo` is a loop over the pipeline's steps; affinity (a documented no-op);
  core traits (interfaces; what they require is stated of their implementations); the back ends that answer with an error.
- mmap and its errors; the bytes of payloads and frames, of which only length, sequence number and
  order matter to other parts; the generators behind faults and Gaussian samples, whose outcomes are
  left open.
- The syntax of TOML, Rhai and the command line; `[[storage]]` tables, which are counted and not
  used; `pause`, `resume` and `advance` of the simulator's replay, which nobody can call through the
  scheduler.
- Memory orderings weaker than the ones the code uses: the model assumes the Acquire/Release pairs.

## 7. Plan

Built, in this order: ring and its abstract specification with proofs; sink, pipeline, driver;
worker pool; file source; simulator; network source with its ledger; virtual storage and replay;
scenario files, scripts and commands; dashboard; capture files; slots and region.

Proved, in this order: ring, worker pool, network source, pipeline, driver, slots, file source,
virtual storage and replay, simulator, dashboard.

What could come next:

1. What `FlyScenario` compiles: the stable sort of the timeline for every document, and from it the first half
   of `TimelineObserved`.
2. An abstract specification of the pipeline (every frame gets one fate) for `SimplePipeline` to
   implement.
