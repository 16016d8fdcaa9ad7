# Verification of v4l2-stream

v4l2-stream serves the video of a Linux camera over HTTP. Frames go from the
camera through a chain of V4L2 devices (on a Raspberry Pi an ISP and a JPEG
encoder) and are written to clients straight out of the last device's buffers.
This directory holds TLA+ models of the program, the TLC configurations that
check them, and proofs for TLAPS. Paths are relative to `src/`; line numbers are
those of the commit the models were written from. `PROJECT.json` maps every
definition to its lines, and lists the runs, the mutants that show that each
property can fail, the hazards of the code and what covers them.

## 1. The system

| Part | State | Operations | Talks to |
| --- | --- | --- | --- |
| `Bridge` (`libs/v4l/src/v4l_bridge.cpp`) | DMA fds of the buffers, two gauges | `Start`, `ProcessRead`, `ProcessWrite`, `Stop` | capture queue of one device, output queue of the next |
| `MMapStream`, `MMapFrame` (`v4l_stream.cpp`) | mapped buffers, `started_` | `Start`, `Next`, `Stop`, a frame's destructor | a capture queue; called from two threads |
| `PipelineImpl` (`libs/pipeline/src/pipeline.cpp`) | bridges, controls, sink | `Prepare`, `Start` (poll loop), `Next` | all of the above |
| `PipelineControl` (`feedback.cpp`) | statistics stream, algorithms | `Start`, `ProcessStats`, `Stop` | callbacks of the poll loop |
| `RpiAgc` and the other algorithms | own gains | `Prepare`, `ProcessStats` | controls of the camera |
| `PipelineLoader` (`loader.cpp`) | weak pointer to the only `PipelineImpl` | `Load` | opens devices |
| `Device` (`v4l_device.cpp`) | fd, list of `IntControl` | formats, controls, selections | the kernel |
| handlers (`v4l2-stream/src/stream.cpp`, `snapshot.cpp`, `ctrls.cpp`, `selection.cpp`) | pipeline, thread, stop source | coroutine `Handle`, destructor | `Pipeline`, HTTP server |
| `MJpegEncoder` (`libs/encoder`) | the frame being sent | `EncodeFrame` | frames, HTTP server |
| metrics (`libs/metrics`, `v4l2-stream/src/metrics.cpp`) | atomic counters, a map and a vector of them | `GetCounter`, `Increment`, `Decrement`, `Report`, GET `/metrics` | bridges, streams, a timer thread per report |

**Threads.** `main` runs one `io_context` thread. Handlers are coroutines of it:
a session runs until it yields a part of its response, and blocks all others
while it waits in `Next`, sleeps or joins. Each `/stream` or `/snapshot` session
starts a pipeline thread that runs `PipelineImpl::Start`. `LoadPipeline` gives
all open sessions the same `PipelineImpl`, with no lock anywhere. GET `/metrics` starts
a detached thread per report, which sleeps a second and then resumes the coroutine
itself.

**What is hard.** Buffers change owners between user space and two drivers, and
any ioctl on the way may fail. An exception of the poll loop skips every `Stop`,
after which the same object is started again. Clients go away at any yield. A
frame's destructor makes an ioctl. The thread of one session stops a sink that
another one uses. Formats are negotiated on the io thread while other threads
allocate buffers for them. Exposure control and white balance act on old pictures and
share the controls with clients. Reports walk the counters on one thread while another
registers them.

**What makes the parts correct.** No buffer has two owners and none is lost; the
DMA fds outlive their use; memory of a frame is mapped, unchanged and its own; a
poll loop only runs over a pipeline that streams as a whole, never blocks in a
callback, and ends when told to; sessions keep the discipline that the sink
relies on, and come to their end; buffers are only allocated for a chain whose
formats agree; a node is open once; the picture settles between dark and bright, and
its balance where the scene asks for it; clients are told the right length and get all
counters.

## 2. Modules

| Module | Models | Uses |
| --- | --- | --- |
| `V4L2Queue` | a videobuf2 queue, as the code uses it (external) | |
| `CountedQueue` | the same queue with its buffers only counted (external) | |
| `BufferRing` | abstract: the cycle every buffer of a bridge goes through | |
| `Relay` | abstract: what a poll loop relies on of a bridge, in counts | `CountedQueue` |
| `Supply` | abstract: what the users of a stream rely on, in counts | `CountedQueue` |
| `Bridge` | one bridge, buffer by buffer, over several runs | `V4L2Queue`; implements `BufferRing` and `Relay` |
| `MMapStream` | the stream, its frames and the discipline of its callers | `V4L2Queue`; implements `Supply` |
| `Sessions` | the two session handlers, io thread and pipeline threads | extends `MMapStream`; implements its specification (`FollowsDiscipline`) while one session is open at a time |
| `Pipeline` | the poll loop over bridges, controls and sink, with one client | `CountedQueue`; a `Relay` for each bridge, a `Supply` for each stream |
| `Formats` | `Prepare` against devices and allocating threads | |
| `Parts` | what the encoder and the handler send out of the sink's buffers | |
| `Feedback` | exposure control, white balance, `/ctrls` and a camera | |
| `Loader` | `LoadPipeline`, shared among requests | |
| `Metrics` | counters, their registration and reports | |
| `*Proofs` | inductive invariants and theorems | |
| `MC*` | constants and configurations for TLC | |

**Bridge.** `pc` follows `Start`, the loop and `Stop` from ioctl to ioctl. `cap` and `out` are the
two kernel queues, `held` the buffer between a `DQBUF` and the `QBUF` that follows, `fds` the number
of buffers whose fds are open, `stale` the buffers of the output device whose fds were closed under
it. `ProcessRead` is `ReadDequeue` then `ReadQueue`, `ProcessWrite` is `WriteDequeue` then
`WriteQueue`. `Throw` is an exception anywhere: what the failing function had done stays.
`mapBuffers` is one `ExportBuffer` per buffer, and `Export` the assignment to `buffers_`, which
closes the fds of an earlier run; `open` counts all fds the process has, also those of a half-made
vector that nothing refers to. The drivers may grant different numbers of buffers. With `Place` as
refinement mapping the module implements `BufferRing`, with `Counted` as mapping `Relay`: a callback
is one step of `Relay`, taken at its second ioctl, so that a buffer in the thread's hands still
counts as done; if that ioctl fails the buffer is lost.

**MMapStream.** Each thread has its place in a call (`at`), so `Next` and `Stop` of two threads
interleave between ioctls. `fault` records what ends the program: a null dereference (`"null"`), or
an exception in the destructor of a frame, because the kernel must refuse the buffer (`"terminate"`)
or because the device fails at that ioctl (`"device"`, `ReleaseFails`). The last cannot be helped by
any discipline, and `OnlyDeviceKills` says that it is the only one. `Spec` is the stream under its
discipline (one call at a time; `Stop` only when all frames are back), which the code nowhere states
and `Sessions` has to keep. Under it the module implements `Supply`: a buffer is lent from its
`DQBUF` until the destructor of its frame queues it.

**Sessions.** `place` is where each coroutine is; `io` names the one that runs. It
extends `MMapStream` with the discipline left out; `limit` says how many sessions clients
have open at once. `Disconnect` may hit any yield;
the server then destroys the coroutine, and with it frame and generator, before
the `Handler` whose destructor stops and joins. `crashed` is an exception in the
thread of `/stream`, which nothing catches (`stream.cpp:30`).

**Pipeline.** Queues are counts (queued, done, streaming). What justifies them are `Relay` and
`Supply`: each bridge is used as `Relay` allows and each stream as `Supply` allows
(`UsesAsImplemented`), which is what `Bridge` and `MMapStream` implement buffer by buffer. A poll
returns a set of ready events that are served later, one callback per step, in any order, as the fds
come from an `unordered_set`. An exception leaves the loop and everything on; a next run starts from
there. The client is the io thread's side of one session. A `Next` whose start of the sink throws
leaves buffers queued in a sink that is off and not marked, which no `Stop` touches, so `DoneIsOff`
says of the sink that it does not stream, not that it is empty.

**Formats.** One action per ioctl of `Prepare`. Each queue keeps to the formats it takes, so a
device may put another size, another codec or both in place of what it is asked for; it
refuses a format while its queue has buffers, and may (`setting.resets`) choose a new
capture format when its output format changes. Threads allocate and free
meanwhile.

**Parts.** The contents of buffers: what the device puts in (`memory`, `used`), what
`planes_` of the mapping says, and the part of the frame each client is sent.

**Feedback.** For each buffer of statistics `ProcessStats` runs the exposure control, as an update
and a copy of each `IntControl` and one ioctl, then the white balance (`Balance`). A histogram is
reduced to its level; the camera's brightness follows gain and exposure; the sums of the colours are
the scene's. A picture is taken with the controls of that moment (`TakePicture`), waits in one of
the `FrameBufs` buffers of the bridge to the ISP (20, `v4l_bridge.cpp:62`), is measured when the ISP
comes to it (`Measure`), and its measurement waits in one of the `StatBufs` buffers of the
statistics stream. `medianOfHistogram` is the code's loop. Clients' requests (`SetIoctl`,
`GetIoctl`, `StoreCurrent`) come between any two steps, since `IntControl::curr` in the shared
`Device` is written by both threads without a lock. Values of 32-bit controls go through the 64-bit
field as the code has it (`Value64`): a negative one is told as a large one. Quotients without
pixels are `Inf` and `NaN` and compare as floats do. A request names controls one after another:
each is written before the next is looked up, so one that the device lacks throws after the others
were set. `setting` chooses algorithms, devices with their controls, scenes and requests.

**Metrics.** `GetCounter` is `Find`, or `Register` and `Emplace`; the vector is only named by the
number of counters of each name. A report on the io thread is one step; on a timer
thread it has a beginning (`Fire`) and an end (`EndReport`), and if the vector changed between
them it may miss counters or end the program. `event` and its thread are `set` and
`timers`. Sessions of the other routes take the io thread (`SessionWaits`) and need not give it back
(`SessionGoesOn`).

**Loader.** Nodes are opened in the order of the configuration, failures close what
was open, the last user closes everything. Dereferencing an empty optional
(`loader.cpp:54`) ends the program (`Crash`) or goes on with a device that is not
one, since the check afterwards always finds a value.

## 3. What the runs check

All runs finish, apart from the three that look for a violation. The types of `MMapStream` are
checked with those of `Sessions` (`SessTypeOK`), those of `Metrics` are proved only.

| Run | Shows | Bounds |
| --- | --- | --- |
| `bridge` | ownership, conservation, gauges, fds, the ring and the relay, over failures and restarts; fds are lost only by a half-made export | 3 buffers, 3 runs |
| `stream` | nothing but a device that fails under a frame's destructor ends the program; one owner for each buffer, and the supply of frames, under the discipline | 3 buffers, 2 threads, 2 frames |
| `sessions` | each session gives back its frame before it stops the sink, and joins its thread; one after another they keep the discipline; waits, snapshots and joins end | 2 sessions, one at a time and two at once, 2 buffers, 1 discard, with bridges and without |
| `todo_lock` | **violation**: a session stops the sink under another one's frame | 2 at once, nothing fails |
| `pipeline` | callbacks never block; a loop that comes about after failures is whole and has all buffers; an orderly end leaves nothing on; bridges and streams are used only as they are implemented; a waiting client gets a frame through two bridges; a stopped thread ends | 2 bridges, 1 control, 3 and 2 buffers, 2 runs |
| `formats` | a chain with buffers agrees, whatever Prepare failed before or runs meanwhile | 2 bridges, 2 sizes, 2 codecs, queues that take all formats, one size, one codec or one size of each, 3 prepares; sessions overlap on devices that keep formats, and follow one another on devices that reset them |
| `parts` | a picture does not change while it is sent, and the promised length is its own | 3 buffers, 2 clients, 2 pictures, 2 lengths, single-planar |
| `parts_planes` | **violation**: with planes it is that of the picture before | the same, multi-planar |
| `feedback` | steps do not overshoot; picture and balance settle; a value told to a client can be sent back | 20 bins, unit 2, 2 buffers each in bridge and statistics stream, words of 7 bits; exposure alone (4 scenes, 1 request), balance alone (scenes that drift by the tolerance, or lack light or a colour; 2 changes, 1 request), both (1 change), signed control (3 requests, one with a value wider than a word) |
| `loader` | one handle per node; users keep their devices | 4 nodes, 5 configurations, 2 loads, 2 users |
| `loader_checks` | **violation**: a bridge without its devices is built | the same |
| `metrics` | one counter per name; timer threads find their event; only early reports go wrong; reports go on unless a session blocks the io thread | 2 names, 2 clients, any number of loads and reports |

*Why the bounds are enough.* Two buffers are the fewest that tell a swap from a
loss, three let one be with each device and one in the thread's hands. Two
bridges make an inner device, which has a capture and an output side. Two runs are
a failed one and one over its remains; a third, in `bridge`, is one over the remains
of that, and the proofs cover any number. In `pipeline` a run over the remains of a failed one ends
at the control, whose stream refuses to start before any bridge is tried; bridges that restart are
those of `bridge`, and the proofs hold for pipelines without controls too. Two
sessions are all that can be in each other's way: the io thread runs one at a
time. `metrics` needs two names for a load that throws between them. Settings of `feedback`
keep apart what does not interact: the two algorithms set different controls, so one setting
with both is enough to show that neither holds up the other. The numbers 20 and 5 in the code
are constants here. In `Feedback` a step of 5
is 2.5 bins, narrower than the dead band, as on hardware with 128 bins. A step is decided on a
picture that may be as many steps old as pictures can wait, in the bridge to the ISP and in the
statistics stream together. What those steps add up to must not exceed the dead band of 11 bins:
that is the real condition on `StepsNeverOvershoot`, the hypothesis
`5 * (StatBufs + FrameBufs) <= 11 * Unit` of `NeverOvershoots`. The run is just inside it, with 2 + 2
buffers and unit 2; with a fifth buffer in either place TLC finds the overshoot, and with 3 in the
bridge and 2 in the stream also that the picture never settles. For the 20 and 5 buffers of the
code the condition reads `Unit` >= 12: twelve units of gain or exposure, or more, must be what
brightens the picture by one of the 128 bins. The code does not ensure that; it depends on sensor
and scene. On a camera that reacts more strongly, and an ISP that lets its bridge fill
up, the exposure can swing without end.

*Deadlock* is checked where the modelled part can always go on (`bridge`, `parts`). Elsewhere a
behaviour may stop for good reason: the bound on runs or requests is used up, a thread threw, the
program ended (in `stream` by a device that fails under a frame's destructor).

### Fairness

The io thread and the pipeline threads are scheduled (WF of their steps); the camera and the devices
go on with buffers they have; a write to a client succeeds or fails, so a suspended coroutine is
resumed or destroyed. Nothing that fails by choice is fair: only an ioctl that the kernel is bound
to refuse (a stopped stream, a device in use) is certain to throw. In a plain pipeline
(`conf/uvc.json`) the camera fills the sink by itself; in a bridged one frames need a running
pipeline thread, and one that threw leaves `Next`, and with it the io thread, waiting for ever
(`snapshot.cpp:31`). `Abandoned` in `Sessions` and `FrameArrives` in `Pipeline` name that case; in
every other a wait ends.

In `Metrics` a client whose part was written is served although loads and sessions keep the io
thread busy: completions are queued, hence strong fairness of its next step, since a load in between
disables it. Strong fairness promises something only of an io thread that becomes idle again and
again. A session may keep it for ever in `Next` (`snapshot.cpp:31`, `stream.cpp:40`):
`SessionGoesOn` is not fair, and `ReportsGoOn` names that case as `IoBlocked`. Timer threads and the
end of a load are weakly fair. In `Feedback` the camera goes on taking pictures, the ISP measuring
them, and the pipeline thread is scheduled; requests, failures and changes of scene are bounded and
not fair.

## 4. What is proved

The theorems hold for every number of buffers, bridges, controls, threads, sessions, clients
and runs; assumptions are that constants have their types, one on the drivers (`Formats`), and
how much waiting pictures are worth in one theorem of `Feedback`. Each module has
an inductive invariant, checked by TLC before it was proved, one lemma per action
or group of actions, and a last temporal step.

* `BridgeProofs`: type correctness, `OneOwner` (`Exclusive` and `Conserved`), `NoStaleImport`,
  `GaugesTrack` (`GaugesCoverQueues` and `GaugesExactInFirstRun`), `FdsFollowBuffers`
  (`ClosesIdleBuffers` and `LosesOnlyHalfExports`), `ImplementsRing` and `ImplementsRelay`. The
  invariant adds `Phases`, what each place of `Start` and `Stop` knows of the two queues; without it
  a restart could find a streaming output queue in the loop. Gauges need cardinalities of the
  kernel's sets, and exactness a second invariant that is only inductive within the first run.
  Refinement: every step moves at most one buffer one stage on, or takes buffers out of the ring.
  For `Relay` a second strengthening, `Calm`, says that nothing is done in a capture queue that is
  off and that neither queue is turned on before its turn in `Start`: a start that fails leaves what
  `Relay` calls prepared, and one that succeeds finds nothing of an earlier run in the output queue.
* `PipelineProofs`: `TypeOK`, `CallbacksNeverBlock`, `WholeOrOff` (`LoopRunsWhole` and `DoneIsOff`),
  `UsesAsImplemented`. `Bounded` counts each bridge's buffers over both queues; `Progress` says that
  while starting, every bridge and control before index `k` streams, has all its buffers, and
  `Regress` the mirror image while stopping. What an earlier run left on matters because a device
  that still runs refuses to be started. For `UsesAsImplemented` every step of the thread, the
  client and the devices is one step, or none, of each `Relay(b)` and each `Supply`: a callback
  finds its source streaming, a sink is stopped only when its client is gone, and frames are lent
  only of a sink that streams.
* `PartsProofs`: `TypeOK`, `PictureStays`, and `LengthIsPictures` for a device without planes. The
  invariant says that a frame owns its buffer.
* `SessionsProofs`, first part: `TypeOK`, `OnlyDeviceKills`, `OneOwner` (`LeasesExclusive` and
  `NothingLost`) and `ImplementsSupply`, for the stream under its discipline (`MMapStream` alone:
  nothing of `Sessions` is used). `OneCall` says that at most one thread is inside a call, `Shape`
  and `Phases` relate the mapping, the kernel's allocation and the place of that thread, including
  what a call that threw leaves behind. The counts are cardinalities, hence `CallersAssumption`:
  threads and holders are finitely many.
* `SessionsProofs`, second part: `SessTypeOK`, `StopsAfterOwnFrame` and `NoThreadOutlives` for any
  number of sessions open at once; `SerialSessions`: while clients have one session open at a time,
  every step of a session is a step of `MMapStream` under its discipline or changes nothing of the
  sink. The invariant ties the place of a coroutine to the call its thread is in and to the frame it
  holds. `SerialSessionsSafe` puts this together with the first part: with such sessions the stream
  ends the program only by a device that fails under a frame's destructor, frames are their own and
  no buffer is lost; `SerialSessionsSupply` says that they use the sink as `Supply` allows, as
  `Pipeline`'s client is proved to.
* `FormatsProofs`: `TypeOK`, `BuffersAgree` (`BridgesAgree` and `SinkIsPrepared`),
  `PreparedChainAgrees`. A chain that is complete stays as it is, for a later `Prepare` asks each
  queue for what it has, and buffers freeze the format of their queue. `DriversAssumption`: where
  setting an output format resets the capture format, sessions do not overlap (without it
  `SinkIsPrepared` is false, see §6).
* `LoaderProofs`: `TypeOK`, `OneHandlePerNode`, `UsersKeepDevices`. While a load runs the handles
  are those of the nodes it went past, whatever its configuration mentions twice.
* `MetricsProofs`: `TypeOK`, `OneCounterPerName`, `TimerHasEvent`, `LateReportsWhole`. A vector that
  has all names never grows again, so a report that saw it whole ends as it began.
* `FeedbackProofs`: `TypeOK`, `EchoKeeps`, `StepsNeverOvershoot`, and `MedianSplits`: for every
  histogram, the loop of `medianOfHistogram` returns from one of its bins, with at least half of the
  pixels up to it and less than half before it. Running sum and loop are recursive functions; what
  holds of it for every bin is shown by a least counterexample (`LeastOf`), which needs no induction
  scheme. For the steps, `Fresh` says that a copy of a control that no request wrote is what the
  device has, and `Lag` that a waiting picture, in the bridge or the stream, is at most as many
  steps old as there are pictures behind it, all in one direction. The first picture read may
  therefore be wrong by all that can wait, which is where the hypothesis on `StatBufs` and
  `FrameBufs` comes from. `EchoKeeps` is arithmetic on the words: a value that was told as a 64-bit
  number and sent back is cut to the word it came from.

Only model-checked: liveness (`SessionsEnd`, `NextIsAnswered`, `FrameArrives`, `StopEnds`, `Settles`,
`BalanceSettles`, `ReportsGoOn`). It rests on fairness, and so on ENABLED, which the provers do not
treat. Every invariant and every action property of the passing runs is stated by a theorem.

## 5. Disagreements found

1. `v4l_stream.cpp:124` says "todo lock" where the buffers are reset: the run `todo_lock` shows the
   session that meets the reset.
2. `loader.cpp:57` and `:72` test optionals that were dereferenced before; the errors
   they announce are never thrown (`loader_checks`).
3. `v4l_stream.cpp:173` takes the sizes of a multi-planar frame from the wrong array, so the
   `Content-Length` of `mjpeg_encoder.cpp:30` is that of an earlier picture (`parts_planes`).

The models also show behaviour that no text of the repository speaks against:

* Each export that fails halfway (`v4l_bridge.cpp:262`) loses the fds made so far for good;
  `LosesOnlyHalfExports` says that nothing else does.
* Gains whose ioctl failed are remembered and not tried again while the scene stays
  (`rpi-awb.cpp:39-43`). A gain that is not a number (no green and no red, or blue) compares
  equal to every other (`:25`) and is not replaced while the other gain stays within the
  threshold. `BalanceSettles` leaves these two cases out and names them.
* A device that fails at the `QBUF` of a frame's destructor (`v4l_stream.cpp:94`, `:142`), an
  unplugged camera for one, ends the program, since a destructor may not throw.
* With pictures waiting in up to 25 buffers the exposure control can swing without end, on cameras
  that react strongly (§3).
* A session that waits in `Next` for a pipeline thread that threw stops all routes, `/metrics`
  included.
* The first reports of `/metrics` may run beside the first load (`metrics.cpp:55`), without the
  mutex that `RegisterMetric` takes.
* While reading: `web/script.js:35` takes `control.current`, but `ToJson` calls it `curr`
  (`v4l_controls.cpp:62`); an unknown target in POST `/selection` is taken for crop
  (`selection.cpp:16`).

## 6. Assumptions, and what is not modelled

* The kernel's queues behave as videobuf2 does: `REQBUFS` fails while a queue streams
  or is in use by another handle, `STREAMOFF` returns all buffers, `S_FMT` is refused while buffers are
  allocated, `QBUF` writes the last payload back. Devices keep their capture format
  while they stream.
* The HTTP server destroys a coroutine before its handler, and resumes it only
  after a part was written. The server, `coro` and `asio` are outside the repository.
* `single_consumer_event::set` resumes a waiting coroutine on the thread that calls it, and
  writes complete on the io thread. The server notices that a client of `/metrics` went
  away when it writes to it.
* The ISP measures colours before they are balanced, and brightness after gain and exposure. Gain
  and exposure of a picture are those of the moment in which it enters the bridge to the ISP: what a
  sensor delays further would add to the lag. A picture goes unmeasured if no buffer of statistics is
  free.
* `StepsNeverOvershoot` and `Settles` assume that all the pictures that can wait are worth no
  more than the dead band (§3). Nothing in the code sees to that.
* Whoever shares the io thread gives it back, but for a session that waits in `Next`
  (`ReportsGoOn`).
* The stream's gauge is left out of `MMapStream`: it is counted as in `Bridge`.
* `Pipeline` has one session at a time and fixed counts of buffers, where `Relay` and `Supply` allow
  any that a driver grants; two poll loops over the same bridges are not composed yet. The
  refinements say that each bridge and each stream by itself is used within its specification. They
  do not compose the modules into one: that two bridges share a device is in `Pipeline` only
  (`Convert` moves a buffer of both).
* `SinkIsPrepared` with overlapping sessions holds on devices that keep their format.
  On devices that reset it, a second `Prepare` can reset a format just before the first
  session allocates for it; TLC finds this when `resets` and `overlap` are both TRUE.
* `StepsNeverOvershoot` is claimed while nobody uses `/ctrls`. With requests, the stale copy or a
  client's own value may carry the picture past the middle for a while; that it
  settles is checked with them.
* Denoise and sharpen make one ioctl when a control starts; its failure is that of the start in
  `Pipeline`. Selections are one stateless ioctl between parsing and formatting. Configuration
  text, server start, the browser interface and tests: see the notes in `PROJECT.json`. They
  keep no state that another part relies on, or no concurrency.
* The decoder of the statistics is reduced to what the algorithms read; `bcm2835-isp.h` is a
  header of the kernel's layout.
* The hazard `stream.cpp:30` (an exception in the thread of `/stream` ends the program) has no
  property: it follows from the lambda, and `crashed` in `Sessions` models it.

## 7. Plan

Done in this order: `Bridge` with `BufferRing`, `MMapStream`, `Sessions`, `Pipeline`,
`Formats`, exposure control, `Loader`, `Parts`, and the proofs of four of them; then half-made
exports in `Bridge`, sessions one at a time and two at once in one run with their proofs and
the composition with the stream, `Feedback` with white balance and the width of controls,
`Metrics`, and the proofs of `Formats`, `Loader` and `Metrics`; then the proofs of `Feedback`, and
the abstract specifications `Relay` and `Supply` with the proofs that `Bridge` and `MMapStream`
implement them and that `Pipeline` and single sessions stay within them. Left:

1. Two poll loops over the same bridges. The second thread is refused once a queue streams,
   but `/stream` yields before its first `Next`, so both may be in `Bridge::Start` before that.
2. An abstract specification of a session (asked, served, ended) and of the pipeline
   (frames in, frames out) with refinements.
