# fh4-automation: TLA+ models, checks and proofs

This directory models the capture and dataset parts of `src/fh4_agent` in TLA+.
TLC checks the models on small instances, and TLAPS proves their safety
properties for every instance. `PROJECT.json` lists the components, the runs,
the mutants that show each property can fail, the source lines behind every
definition, the hazards, the findings and the theorems.

## The system

A capture session records three sources (screen, controller, telemetry) into
one directory; the dataset tools then check such directories, align the streams
and write shards for training.

| Component (`src/fh4_agent/`) | State | Operations | Interacts with | What is hard |
|---|---|---|---|---|
| Capture coordinator (`capture/coordinator.py`) | three bounded queues, `_stop`, `_fault`, threads | `start`, `run`, `stop`, `join`, `_drain`, three workers | takes from the sources, calls the recorder from one thread, counts drops from all | interleaving, overload, join timeout, interrupts, shutdown |
| Session recorder (`capture/recording.py`, `capture/telemetry.py`) | five files, hashes, health counters, `_closed` | appends, health events, `finalize`, `close`, `recover_session`, `replay_session`, `validate_manifest` | called by the coordinator; files read by the dataset tools | crash between two writes, partial failure, recovery of a torn tail |
| Camera (`capture/camera.py`) | device, owner thread, pending encodings, `_stop_requested`, `_closed` | `frames`, `close` | called by the camera worker, the main thread and the command line | thread affinity of the device, pipeline order, an erased stop |
| UDP receiver (`telemetry/receiver.py`) | `_socket` | `receive_once`, `records`, `close` | telemetry worker and main thread | close during a receive, socket opened again |
| Controller source (`input/xinput.py`) | slot, DLL, function, `_closed` | `samples`, `close`, `resolve_xinput_slot`; the start gate of `cli.py` | controller worker, main thread, command line | the library forgotten under the thread that loads it, plugging during the scan |
| Timestamp continuity (`telemetry/continuity.py`) | baseline, counters | `update`, `reset` | used per race segment by the dataset adapter | uint32 wrap, reordering |
| Packet decoder (`telemetry/decoder.py`) | none | `decode_packet` | receiver, adapter | fixed layout |
| Session clock, alignment, bounded queue (`sync/`) | origin; a queue | `stamp`, `align_nearest`, `put`, `get` | all sources | boundaries |
| Session lifecycle (`capture/session.py`) | `state`, frame count, deadline, a lock | `start`, `append_frame`, `finalize`, `abort`, `close` | wraps the recorder; called by any thread | the lock is taken by two of the five methods |
| Safety supervisor, dry-run backend (`safety/`, `controls/`) | arming state, last action | `arm`, `disarm`, `fault`, `submit`, `close` | each other | an exception between two steps of a disarming |
| Dataset adapter (`dataset/session.py`) | cursors, segments, statistics | `validate`, `aligned_frames` | reads the recorder's files, uses continuity and laps | segment boundaries, streaming with one record of look-ahead |
| Lap machine (`dataset/laps.py`) | lap in progress | `update`, `reset` | adapter | resets, skips, wraps |
| Dataset builder (`dataset/builder.py`) | output directory, open shard | `build_dataset`, `assign_session_splits` | adapter, reports | two builds at once, a build that dies, rounding |
| Contracts, configuration, reports, command line | immutable values | validation, printing | all | none of these |

The packages `models`, `training`, `runtime`, `planning`, `perception` and
`evaluation` hold docstrings only.

## The modules

**`CaptureSession`** is the abstract specification of a session: items are
admitted and stored one by one, a stream may refuse an item and then admits no
other, a lossy stream may skip but not reorder, and a published session is sealed
and holds everything its lossless streams admitted.

**`CaptureCoordinator`** has one process for the thread in `run()` and one for
each worker. A step is one access to something shared: a queue operation, the
stop event, the fault, and the separate read and write of a health counter.
`_put_drop_oldest` is five steps (put, evict, read the counter, write it with the
line, put again), because main can empty the queue and the other worker can count
in between; the line may fail with the recorder open, and then waits in the
buffer of the health file (`unflushed`) while its item is never put
(`abandoned`). The handlers of the workers judge an exception (`Judge`) and note
a fault (`RaiseFault`) in separate steps. `run()` goes through the labels
`start`, `loop`, `drain`, `alive`, `stop`, `close`, `join`, `final`, `decide`,
`closing`; `_drain` takes an item and writes it in two steps, with the item in
`hand` between them. The source calls may yield, end or raise at any time. A
`KeyboardInterrupt` may arrive at any label of main, also inside the `finally`
block and between the two steps of the drain: the item in hand is then lost, and
the session is not published. It implements `CaptureSession`; the refinement
mapping is `Session` at the end of the module.

**`CaptureSources`** looks inside the source calls that `CaptureCoordinator`
leaves open. It composes three modules, each with its own thread and its own
part of the closing main thread. In all three the handler of the worker tests the
stop event in one step and notes the fault in the next (`Note`), so a fault judged
before a stop may be noted while the sources are being closed; a join that gives
up is a fault as well:

* **`DXcamCamera`** (which it extends): the device, its owner, the encoder
  pipeline (encoders finish in any order) and the calls of `close()`;
* **`XInputController`**: the DLL and its function, loaded by the polling thread
  on first use and forgotten by `close()` one attribute after the other;
* **`UdpTelemetryReceiver`**: every unlocked access to `_socket` is a step.

The three share the stop event, the fault, the join and the round of closing:
an exception of one thread ends the others; `stop()` closes camera, controller
and receiver in this order, `join` has one deadline for all, and the command
closes them once more in the opposite order. The variables of that protocol
(`stop`, `fault`, `joined`, `round`) are declared by each of the three modules;
`CaptureSources` conjoins the modules' own actions on them (`Begin`, `Closing`,
`Join`). `UdpTelemetryReceiver` has one more action, `Elsewhere`, for what the
rest of the session may do to them, so it can be proved about on its own.

**`SessionRecorder`** has the five files of a session as so many readable
records and a clean, short or garbage tail. It contains the appends with their
partial failures, `finalize()` step by step (close, sync, hash, temporary file,
rename), `close()`, the health counter that two workers read and write without a
lock (`ReadCounter`, `HealthEvent`), a kill of the process, a power loss, and `recover_session()`,
which may itself be interrupted. What survives a power loss is chosen
nondeterministically: at least what was synced. `Valid` is `validate_manifest`.

**`CaptureFile`** is one telemetry file in more detail than the recorder needs:
the buffer between `write` and `flush`, a flush that fails half-way and is
retried in front of the next record, the limits on records and bytes, reopening,
the strict reader, and the recovery of the tail after a kill or a power loss.

**`SessionLifecycle`** has threads that call the methods of `CaptureSession`
(the class in `capture/session.py`) together. `start` and `append_frame` hold
the lock through their labels; the steps of `finalize`, `abort` and `close` fall
between those of any call, and go down to the closing, hashing and publishing of
the recorder. A frame is written into Python's buffer and flushed; either may
fail, which leaves the session recording, a record that no one counted in the
buffer (`buffered`), or a part of one in the file (`torn`), behind which no frame
can be read.

**`SessionReplay`** is `replay_session`: `heapq.merge` with one record of
look-ahead per stream, over streams that may be damaged or out of order.

**`ControllerSelection`** is the scan of the four XInput slots, the choice among
those that answered and the hold-and-release gate of the command line, with
controllers plugged and the button moved between any two reads.

**`SafetySupervisor`** is the arming state over the dry-run backend. Building a
state and sending an action may raise, and what a call that raises leaves behind
is modelled as the order of its statements makes it.

**`TimestampContinuity`** has a sender with a clock that does not wrap, a network
that loses, repeats and reorders, and the tracker with its clock modulo
`Modulus`. The history variables let the properties compare the tracker's
counters with what the sender did. **`LapStateMachine`** is fed arbitrary packets
and keeps them, so its candidates can be compared with a definition of a whole
lap over the packet sequence.

**`StreamingSessionAdapter`** reads and checks the streams of a session (a record
may be damaged, a stream may be empty), finds the race segments and makes the
alignment pass of `validate()` down to its verdict. Packets, samples and frames
are kept as times and flags. The cursors with one record of look-ahead are
compared with the closest record of the whole sequence.

**`DatasetBuilder`** has several processes that build into one directory and may
die at any step, and the split arithmetic of `assign_session_splits`.

`MCCaptureCoordinator` and `MCDatasetBuilder` define instances for TLC.
`MCComponents` checks the seven modules whose parts meet no other while they work
(`TimestampContinuity`, `SafetySupervisor`, `CaptureFile`, `SessionLifecycle`,
`SessionReplay`, `ControllerSelection`, `LapStateMachine`) in one state graph: a
behaviour is one of the part that `which` names, so the graph is the disjoint
union of the seven.

## The runs

| Run | Question | Bounds and why they are enough |
|---|---|---|
| `CoordDrops` | Does drop-oldest lose only the oldest, and nothing unseen? Has every eviction its line? Can the second put fail? Does a session that is stopping end? | Three frames for a camera queue of two: the queue overflows while it is drained, its oldest differs from its newest, and it is refilled and evicted during the final drain; any health line may fail and wait in front of the next; a limit of one frame is met with frames still queued. One thread evicts here: what two do to the counter they share is `CoordUndercount`, and the four invariants are proved for any number of items in both queues |
| `CoordTelemetry` | What is published, whatever fails? Does the coordinator implement `CaptureSession`? | Three datagrams for a queue of two: overload, a health line that fails, a partial pass of a drain, one interrupt anywhere. The lossy sources yield nothing here but may end, raise or disconnect; what they store is the subject of `CoordDrops`, whose `OldestDropped` is the part of `CaptureSession` that concerns them |
| `Sources` | Is the device released once, by its owner? Is there ever a second bound socket? Is anything left open, or taken for a fault because of the closing? | Three frames in a pipeline of two with two encoders: the pipeline fills, overtakes and drains; the two threads beside it load, poll and meet the closing at every step, and a fault of any of the three ends the others |
| `RecorderCrash` | Does a manifest ever lie? Does a kill lose anything acknowledged? Does the health counter account for the lines? | Four appends or events, two workers in the counter at a time, one failed operation, two crashes: a failure and a crash in the recording and another in the recovery |
| `Components` | Continuity: are wraps and loss those of the sender? Supervisor: is anything held while not armed? Capture file: is an acknowledged datagram lost, doubled or moved, or a limit passed? Lifecycle: does the frame limit hold, and the manifest stay true? Replay: is it the merge of the streams, or refused? Selection: is the choice, and the start, justified? Laps: are the candidates exactly the whole laps? | A clock of 32 values wraps within six ticks of four, and five received packets allow a loss, a repetition and a reordering. Three records and four units of bytes for four appends of one or two units: each limit is the first to be met in some behaviour. Three threads with a limit of two frames: two appends compete for the last place while a third thread finalizes or aborts, and one write or flush fails; the threads are symmetric. Two records per stream at two times: ties within and between streams, and damage behind good records. Five packets hold a whole lap between two partial ones with an exit or a fall of the clock, two laps in a row, or a lap in which the clock wraps, which it does after four steps; race times 0 and 1 tell a lap that takes time from one that takes none. The supervisor and the selection are finite without bounds |
| `Alignment` | Are matches the closest ones? Are frames and gaps counted for the right segment? Does a damaged record ever pass? | Four packets make two segments with a pause between, two frames and two samples compare the cursors at two positions, times 0 to 3 with an allowance of 1 |
| `Builds` | Do two builds share a directory? Is a readable manifest complete? Do splits leak? | Seven session directories in every subset for each of two builders: one to four accepted sessions, an equal identifier, a second configuration, a rejected one; shards of two samples meet sessions of one to three |
| `CoordUndercount`, `CoordOverload`, `RecorderRecovery`, `SupervisorFault`, `AlignmentTransients` | The findings below | those of the passing runs or smaller; `CoordUndercount` has two frames and two samples for queues of one, `CoordOverload` two datagrams for a queue of one, `AlignmentTransients` one controller sample |

The deadlock check is on in every run but `Components`: packets are the input of
`TimestampContinuity` and `LapStateMachine`, calls that of `CaptureFile`, and all
are bounded; a session of `SessionLifecycle` ends for good. These models stop
where the bound ends the input. In the others the only steps after the end are in
`Terminated`.

Fairness is stated in `CaptureCoordinator` alone (`FairSpec`, the specification of
`CoordDrops`): weak fairness of main, of the controller and the telemetry thread,
of the camera thread outside its source (`CameraWorks`), and of the deadline. The
operating system schedules every thread and the monotonic clock advances; a
receive times out and the controller is polled. `camera.frames()` loops while no
frame arrives (camera.py:223-229) and looks only at `_stop_requested`, which
line 206 may have erased, so nothing is assumed of a camera thread that waits
there: `StopEndsSession` claims the end of `run()`, whose join has a deadline, and
of every thread but such a one. Nothing is assumed of interrupts, of the network,
or of what a source returns. The other modules make safety claims only.

## Findings

The runs that end in a violation each state what the repository says and show a
behaviour of the code that differs.

1. `CoordUndercount`: `record_drop` increments a counter without a lock
   (recording.py:399); two drops at the same time can be counted as one.
2. `CoordOverload`: the class promises that overload of the telemetry queue faults
   the session (coordinator.py:64). If the health line of the overload cannot be
   written, the fault behind it is never noted (201-203), and a handler that finds
   the session stopping returns in silence (206-207): the datagram is lost and the
   session may be published. `TelemetryLossless` and `CaptureSession` state what is
   left: such a datagram is the last one taken, and everything before it is there.
3. `RecorderRecovery`: `recover_session` promises every stream; a damaged (not
   merely short) frame file makes it raise before it reaches the others.
4. `AlignmentTransients`: a frame just before a substantial segment can enter the
   dataset with a packet of an excluded transient.
5. `SupervisorFault`: `fault` and `disarm` build the new arming state before they
   neutralize the outputs (supervisor.py:43). For a blank reason the validation of
   that object raises, the last action stays at the backend and the supervisor
   stays armed. `NeutralUnlessArmed` is not violated by this: nothing is held
   while not armed, but the fault had no effect.

Smaller remarks that have no run:

* A drop is recorded although main emptied the queue between the failed put and
  the get (coordinator.py:128-132), so the count is neither a lower nor an upper
  bound of the evictions.
* After an I/O error past the controller file `close()` of the recorder raises on
  a file it has closed already, at every call, and `_closed` stays false
  (`CloseTwice` in `SessionRecorder`).
* The docstring continuity.py:36-37 gives the half-range rule for a backward
  value the wrong way round; `TimestampContinuity` follows the code.
* A record whose flush failed is not counted, yet it stays in the buffer and is
  written by the next flush: the telemetry file can hold more than `max_records`
  records, by the number of failed flushes. The limit on bytes is checked against
  the position in the file and does hold (`BytesRespected`).
* A crash while the header of a telemetry file is written leaves a file that
  neither the reader nor the recovery accepts, so the path cannot be used again.
* `abort()` after `finalize()` leaves the session "aborted" with a manifest on
  disk. The manifest stays true (`ManifestKept`), so a reader of the directory
  cannot tell.
* `append_frame` of `SessionLifecycle` does not count a frame whose flush failed
  (session.py:78-79), and goes on; the frame waits in the buffer and enters the file
  with the next one, past `max_frames` (session.py:71). `FramesBounded` states what
  is left: one frame more with each write or flush that failed.
* A session of `SessionLifecycle` whose frame file was torn by a failed write is
  finalized all the same: the manifest has the hash of a file whose frames behind
  the tear cannot be read, those acknowledged after it included. In
  `SessionRecorder` the coordinator makes a failed append a fault.

## The proofs

Fifty-three theorems in eight modules, each for every value of the constants that
the named assumptions allow. They state every safety invariant and every action
property that a passing run checks, and the refinement of `CaptureSession`. Each
inductive invariant named below was first checked by TLC on the small instance.

**Coordinator** (`CaptureCoordinatorProofs`), for any queue capacities, source
lengths, frame limit and number of interrupts:

* `TypeCorrect`: `TypeOK`, split into `FlagsOK` (Booleans) and `DataOK`.
* `PublicationCorrect`: `PublishedClean`. The property speaks of the moment of
  publication; it is not inductive, because nothing in it says why the queues are
  empty then. `PublicationInv` adds what main knows at each label: behind `join`
  every thread is dead or a fault is set, behind the final drain every queue
  whose turn is over is empty in this pass unless an item was seen, an item in hand
  is of the queue whose turn it is, and a thread that is dead does not come back.
* `LosslessCorrect`: `TelemetryLossless`. `LosslessInv` says that the log, the item
  in hand and the queue together are the numbers of the datagrams put, unless there
  is a fault. `AbandonInv` says why a datagram may be given up without one: a
  thread leaves its handler in silence only when the stop event is set, and no
  step takes it back.
* `RequeueFindsRoom`: `RequeueHasRoom`. `RoomInv`: behind the get of
  the drop-oldest policy the queue has room until the same thread puts again,
  because no other thread puts into it.
* `OldestAlwaysDropped` and `NothingLostUnseen`: `OldestDropped`, `Conserved`.
  `OpenInv` says that the recorder is open until main is done, and that no thread
  lives behind that unless there is a fault; `CoordInv` joins it with
  `PublicationInv`, `RoomInv` and `AbandonInv`. What is logged and what is in hand
  are proved about as one sequence, so that the two steps of a drain leave it as it
  is or add to its end. `StreamStep` says that a step of any process touches at most
  one stream, by the stream's own thread or by a drain, so that each of these
  proofs has a case per effect on a stream and not one per label.
* `EvictionsAlwaysRecorded`: `EvictionsRecorded`, from `EvictionsInv`: the lines
  written, those waiting in the buffer and the one each worker has in hand cover
  the evictions; `finalize` flushes the buffer.
* `SessionImplemented`: `ImplementsSession`. Every step of every thread is a step
  of the abstract session or a stutter. `AscendingInv` (log, queue and item in
  hand are in ascending order) gives the abstract "skip but never reorder".

**Recorder** (`SessionRecorderProofs`), for any number of appends, failures and
crashes, from one inductive invariant `RecorderInv`. Its parts: `BufferInv` (what
is only in the process, and in which phase it can be), `AckedInv` (every
file is readable at least to what was acknowledged, and the two telemetry files
are at most one datagram apart),
`FinalizeInv` (what is closed, synced and hashed at each step of `finalize`),
`SealInv` (a manifest on the disk fixes the files it names), `CounterInv` (the
health counter and what each worker has read of it are not ahead of the lines
written or waiting, and equal to them while no two workers met) and `RecoveryInv`
(how far a recovery has come, over which files). The theorems are
`RecorderInvariance`, `ManifestAlwaysTrue`, `StreamsAlwaysAgree`,
`KillNeverLoses`, `SidecarNeverAhead` and `RecoveryAlwaysReadable`.

**Sources** (`CaptureSourcesProofs`):

* `ReceiverTypeCorrect` and `SocketsCorrect`, for the receiver alone and any
  behaviour of the rest of the session. `SocketInv` says where a bound socket can
  be: in the attribute, in the local variable of the thread that has just made
  it, or in that of the close that has taken it; the thread makes a new one only
  after the attribute was found empty.
* `SessionImplementsReceiver`: every step of camera, controller, receiver, stop,
  close and join is a step of `UdpTelemetryReceiver` or leaves its variables
  alone. `OneSocketInSession` follows from it.
* `DeviceReleasedByOwner`, `FramesAlwaysDelivered` and `StopAlwaysPrompt` from
  `CameraInv`: `DeviceInv` says who may hold the device at each label of the
  owner, `PipelineInv` that what was delivered, what is encoded and what waits are
  together the frames captured in order, and `StopInv` bounds the frames captured
  since a stop by what is still in the pipeline.
* `NothingStaysOpen`: `NothingLeftOpen`, for the command that saw the threads end.
  `ControllerInv` says what the polling thread may load again under the closing.
* `ClosingNeverFaults`: the action property `ClosingIsNoFault`. A thread takes an
  exception for a fault only before the stop; what is noted later was judged then,
  or is an error of the device's release, or the join that gives up.

**Capture file** (`CaptureFileProofs`), for any limits and number of appends:
`CaptureFileCorrect` (`AckedRecovered` and `TornNeverExtended`) from `FileInv`,
which says where a torn record can be (at the end of a file whose writer holds
the rest of it in its buffer, or of a file without a writer), and `OrderInv`,
which says that file and buffer *together* are in the order of the calls, which a
flush, whole or partial, does not change. `ClosedFileReadable` from `TimesInv`:
the times that a reader checks do not go back as long as everything was
acknowledged. `FileWithinBytes`: the bytes of file and buffer together stay within
`max_bytes`; it needs that the sum over a sequence of records is that of its
parts, because a flush, a crash and a retry take them apart.

**Parts of `MCComponents`** (`ComponentsProofs`). Each part's steps are its own
module's steps, and every other part's steps leave its variables alone, so each
theorem is proved for the part and carried over:

* supervisor: `NeutralAlways`, `NeutralInParts`; the strengthening is that a
  closed backend holds nothing;
* file: `AckedAlwaysRecovered`, `TornAlwaysLast`, `ClosedAlwaysReadable`,
  `BytesAlwaysRespected`;
* lifecycle: `LifecycleCorrect`, `FramesAlwaysBounded`, `ManifestAlwaysKept`, for
  any number of threads. `LockInv` has one thread in the locked labels, `CountInv`
  relates the frames in the file and its buffer to those counted, with the one in
  between and one for each failure, and says that a closed file has an empty
  buffer; `SealInv` says that a thread about to hash or publish has the frame file
  closed;
* selection: `StartAlwaysJustified`. `ScanInv` says what the slots read so far
  still tell of a world that changes between two reads, `GateInv` which of hold
  and release the gate has seen;
* continuity: `ContinuityInvariance`, `WrapsAlwaysCounted`,
  `LossAlwaysEstimated`, for any even modulus, interval, jitter and number of
  packets. `ContinuityInv` says that the baseline is the newest packet received, and how
  far the sender's clock is from its ticks (`SendingInv`); the step uses the
  lemmas on the modular distance, the rounding of an interval to a count of
  packets, and that the number of lost packets grows by the ones skipped;
* replay: `ReplayAlwaysFaithful`, for any streams. `ReadInv` says what of each
  stream is given out, held as the record of look-ahead or not read yet,
  `OrderInv` that what was given out is not after any record held.

**Laps** (`LapStateMachineProofs`): `LapsWhole`, for any packets, carried over to
the composition by `LapsAlwaysWhole` of `ComponentsProofs`. `ProgressInv` says which packet the lap in progress began with, and that nothing
since then ends a lap or breaks it.

**Alignment** (`StreamingSessionAdapterProofs`), for files of any length and any
bounds: `AdapterInvariance` (`AdapterInv`), and from it `MatchesAlwaysClosest`,
`RaceFramesAlwaysKept`, `TailsAlwaysExcluded` and `DamageAlwaysFound`. `RunsInv`
and `SegmentsInv` relate the segment being read to the packets read,
`CursorsInv` says that a cursor has read nothing later than the last frame, and `FrameInv` what a frame already matched owes to the whole files.
`RaceGapsCounted` (`GapsOfRaceOnly`) has an invariant of its own, `GapsInv`: the
gap count of each segment is that of its packets.

**Builder** (`DatasetBuilderProofs`), for any builders, directories and sessions:

* `OneWriterCorrect` and `OneConfigurationCorrect` from `WritersOK`: a builder
  about to make the directory has validated its sessions, the set of writers is
  empty until the directory exists and a single builder from then on.
* `DatasetAlwaysComplete` and `NeverLeaks` from `BuildInv`: the shards of the
  splits written so far and the open one, joined, are the samples of the sessions
  of these splits up to the one in hand. The lemmas behind it say what joining
  sequences, cutting a shard and splitting the sorted list of sessions do.
* `TrainingNeverEmpty`: for every number of sessions from three on, the two
  shares held out leave a training session. This justifies leaving the corrective
  loop of `assign_session_splits` out of `HeldOut`.

**Induction over data.** The induction theorems of the library take an operator
as a parameter, which the provers cannot instantiate. The proofs use lemmas
`SmallestExists` instead: a set of natural numbers that is not empty has a least
element, so a claim about all lengths is proved by looking at the shortest
sequence that would refute it. What a recursive function yields (`FlattenSeq`,
`Size`, `Gaps`) is obtained by showing that a table of its partial results exists
and that it is the function. The models were written for this where they can be:
`Size` and `Gaps` are recursive functions, `Contents` and `Slice` are ranges of
indices, `Ids` is defined by rank, guards that overlapped in a `CASE` are an
`IF`, and `ReplayFaithful` and `CandidatesAreWholeLaps` state each of their
directions as a part of its own.

**Only model-checked**: `StopEndsSession`, because the prover has no rule for
fairness or ENABLED; and the five violations, which are single behaviours.

## Not modelled

* The packet decoder, the formats (JSON, JPEG, tar), the reports and their
  percentiles, the capture health, argument parsing and printing: pure functions
  of one value, without a state of their own.
* `sync/`: `stamp` subtracts a constant from a monotonic clock, and no other part
  uses `align_nearest` or the bounded queue. What `align_nearest` computes is
  the reference in `NearestIsClosest`.
* Time is modelled where it decides something: deadlines are events, timestamps
  are small integers. The pace of the controller polling with its bursts after a
  stall, and a drain that outlasts `max_seconds`, are not expressible.
* In `StreamingSessionAdapter`: the second pass `aligned_frames`, which repeats
  the condition of `validate()`, the limit on lap candidates, statistics and
  warnings.
* In `ControllerSelection`: errors of the scan other than a missing controller,
  which end the command.
* `FakeCamera` and `FakeController`, sources for tests.
* In `CaptureFile` and `SessionRecorder` a file keeps its name once created: the
  code does not sync the directory of the telemetry file, and a loss of power
  that takes the name away is outside the model.
* In `SessionRecorder` a worker that outlives a failed join, and still writes
  health lines into a recorder being closed: its session has a fault and is never
  published. What it does to the coordinator is in `CaptureCoordinator`.
* That the process ends although a camera thread waits for a frame for ever.
* Writes by other programs into the session directory.

## Plan

Done: the coordinator with its abstract session, the three sources and their
composition, the recorder, the telemetry file, the lifecycle, the replay, the
selection of a controller, the supervisor, continuity, laps, alignment, the
builder; the proofs of every safety property.

Next, in this order:

1. An abstract append-only log that `CaptureFile` and the files of
   `SessionRecorder` implement, so that acknowledgement and recovery are stated
   once, with the refinement proved.
2. `SessionReplay` over what `SessionRecorder` leaves behind, in one module.
3. The second pass `aligned_frames` and the limit on lap candidates.
