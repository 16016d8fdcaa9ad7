------------------------------- MODULE Bridge --------------------------------
(***************************************************************************)
(* v4s::Bridge (libs/v4l/src/v4l_bridge.cpp): the buffers of a capture     *)
(* queue, exported as DMA file descriptors and imported by an output queue *)
(* of another device.  One thread runs the bridge, one ioctl per step; the *)
(* two devices run beside it.                                              *)
(*                                                                         *)
(* Every ioctl may fail: the exception leaves the function where it is, so *)
(* Throw is possible at every point of a run and undoes nothing.  After    *)
(* that the same object may be started again (a second handler shares it)  *)
(* or be destroyed with its devices.                                       *)
(***************************************************************************)
EXTENDS V4L2Queue, FiniteSets

CONSTANTS
    MaxBufs,    \* the largest buffer count a driver grants (the code asks for 20)
    MaxRuns     \* bound: how often Start is called

ASSUME MaxBufsAssumption == MaxBufs \in Nat \ {0}
ASSUME MaxRunsAssumption == MaxRuns \in Nat

VARIABLES
    pc,         \* the next ioctl of the bridge's thread
    next,       \* loop index of mapBuffers, then of Start's QueueBuffer loop
    held,       \* the dequeued buffer ProcessRead or ProcessWrite works on
    fds,        \* number of buffers whose DMA fds buffers_ owns, 0: no buffers_
    open,       \* number of buffers whose DMA fds the process has open (history)
    cap,        \* kernel queue of the capture device
    out,        \* kernel queue of the output device
    stale,      \* output buffers imported from fds closed since (history)
    capCount,   \* cap_counter_, a gauge that lives as long as the process
    outCount,   \* out_counter_
    runs        \* number of Start calls so far

vars == <<pc, next, held, fds, open, cap, out, stale, capCount, outCount, runs>>
counters == <<capCount, outCount>>

Loop == {"poll", "forward", "recycle"}
Starting == {"plan", "export", "reqout", "queue", "capon"}
Stopping == {"capoff", "capfree", "outoff", "outfree"}
Places == {"idle", "thrown"} \cup Starting \cup Loop \cup Stopping

-----------------------------------------------------------------------------
Init ==
    /\ pc = "idle" /\ next = 0 /\ held = {} /\ fds = 0 /\ open = 0
    /\ cap = NewQueue /\ out = NewQueue /\ stale = {}
    /\ capCount = 0 /\ outCount = 0 /\ runs = 0

(***************************************************************************)
(* Bridge::Start                                                           *)
(***************************************************************************)
Start ==
    /\ pc \in {"idle", "thrown"} /\ runs < MaxRuns
    /\ runs' = runs + 1
    /\ pc' = "plan"
    /\ UNCHANGED <<next, held, fds, open, cap, out, stale, counters>>

\* BridgeBuffers asks the capture device for buffers and takes what it gets.
AllocCapture ==
    /\ pc = "plan" /\ CanReqBufs(cap)
    /\ \E granted \in 1 .. MaxBufs : cap' = ReqBufs(granted)
    /\ pc' = "export" /\ next' = 0
    /\ UNCHANGED <<held, fds, open, out, stale, counters, runs>>

\* mapBuffers exports buffer after buffer.
ExportBuffer ==
    /\ pc = "export" /\ next < cap.alloc
    /\ next' = next + 1 /\ open' = open + 1
    /\ UNCHANGED <<pc, held, fds, cap, out, stale, counters, runs>>

\* Mutant: the buffers_ of a failed run is let go without closing its fds.
ExportForgets ==
    /\ pc = "export" /\ next = cap.alloc
    /\ fds' = cap.alloc /\ stale' = KernelHolds(out)
    /\ pc' = "reqout"
    /\ UNCHANGED <<next, held, open, cap, out, counters, runs>>

\* The assignment to buffers_ destroys the BridgeBuffers of an earlier run that
\* failed, closing its fds.
Export ==
    /\ pc = "export" /\ next = cap.alloc
    /\ fds' = cap.alloc /\ open' = open - fds
    /\ stale' = KernelHolds(out)
    /\ pc' = "reqout"
    /\ UNCHANGED <<next, held, cap, out, counters, runs>>

\* Mutant: buffers left over by a failed run are taken to be good enough.
AllocOutputReuses ==
    /\ pc = "reqout"
    /\ \/ out.alloc = fds /\ UNCHANGED <<out, stale>>
       \/ out.alloc # fds /\ CanReqBufs(out) /\ out' = ReqBufs(fds) /\ stale' = {}
    /\ pc' = "queue" /\ next' = 0
    /\ UNCHANGED <<held, fds, open, cap, counters, runs>>

\* requestOutputDMABuffers gives up unless it gets exactly as many buffers.
AllocOutput ==
    /\ pc = "reqout" /\ CanReqBufs(out)
    /\ \E granted \in 1 .. MaxBufs :
        /\ out' = ReqBufs(granted)
        /\ pc' = IF granted = fds THEN "queue" ELSE "thrown"
    /\ stale' = {} /\ next' = 0
    /\ UNCHANGED <<held, fds, open, cap, counters, runs>>

\* Mutant: the gauge is not incremented.
QueueBufferUncounted(i) ==
    /\ CanQBuf(cap, i)
    /\ cap' = QBuf(cap, i)
    /\ UNCHANGED capCount

\* Bridge::QueueBuffer
QueueBuffer(i) ==
    /\ CanQBuf(cap, i)
    /\ cap' = QBuf(cap, i)
    /\ capCount' = capCount + 1

QueueCapture ==
    /\ pc = "queue" /\ next < fds
    /\ QueueBuffer(next)
    /\ next' = next + 1
    /\ UNCHANGED <<pc, held, fds, open, out, stale, outCount, runs>>

\* Mutant: the queueing loop stops one buffer early.
StreamOnOutputEarly ==
    /\ pc = "queue" /\ next + 1 = fds /\ CanStreamOn(out)
    /\ out' = StreamOn(out)
    /\ pc' = "capon" /\ next' = 0
    /\ UNCHANGED <<held, fds, open, cap, stale, counters, runs>>

StreamOnOutput ==
    /\ pc = "queue" /\ next = fds /\ CanStreamOn(out)
    /\ out' = StreamOn(out)
    /\ pc' = "capon" /\ next' = 0
    /\ UNCHANGED <<held, fds, open, cap, stale, counters, runs>>

StreamOnCapture ==
    /\ pc = "capon" /\ CanStreamOn(cap)
    /\ cap' = StreamOn(cap)
    /\ pc' = "poll"
    /\ UNCHANGED <<next, held, fds, open, out, stale, counters, runs>>

(***************************************************************************)
(* Bridge::ProcessRead: capture -> output, called on POLLIN                *)
(***************************************************************************)
ReadDequeue ==
    /\ pc = "poll"
    /\ \E i \in cap.done :
        /\ CanDQBuf(cap, i)
        /\ cap' = DQBuf(cap, i)
        /\ held' = {i}
    /\ capCount' = capCount - 1
    /\ pc' = "forward"
    /\ UNCHANGED <<next, fds, open, out, stale, outCount, runs>>

ReadQueue ==
    /\ pc = "forward"
    /\ \E i \in held : CanQBuf(out, i) /\ out' = QBuf(out, i)
    /\ held' = {}
    /\ outCount' = outCount + 1
    /\ pc' = "poll"
    /\ UNCHANGED <<next, fds, open, cap, stale, capCount, runs>>

(***************************************************************************)
(* Bridge::ProcessWrite: output -> capture, called on POLLOUT              *)
(***************************************************************************)
\* Mutant: the gauge is not decremented.
WriteDequeueUncounted ==
    /\ pc = "poll"
    /\ \E i \in out.done :
        /\ CanDQBuf(out, i)
        /\ out' = DQBuf(out, i)
        /\ held' = {i}
    /\ pc' = "recycle"
    /\ UNCHANGED <<next, fds, open, cap, stale, counters, runs>>

WriteDequeue ==
    /\ pc = "poll"
    /\ \E i \in out.done :
        /\ CanDQBuf(out, i)
        /\ out' = DQBuf(out, i)
        /\ held' = {i}
    /\ outCount' = outCount - 1
    /\ pc' = "recycle"
    /\ UNCHANGED <<next, fds, open, cap, stale, capCount, runs>>

\* Mutant: some buffer is refilled, not only the one just dequeued.
WriteQueueWhileDraining ==
    /\ pc = "recycle"
    /\ \E i \in out.queued \cup held : QueueBuffer(i)
    /\ held' = {}
    /\ pc' = "poll"
    /\ UNCHANGED <<next, fds, open, out, stale, outCount, runs>>

WriteQueue ==
    /\ pc = "recycle"
    /\ \E i \in held : QueueBuffer(i)
    /\ held' = {}
    /\ pc' = "poll"
    /\ UNCHANGED <<next, fds, open, out, stale, outCount, runs>>

(***************************************************************************)
(* Bridge::Stop                                                            *)
(***************************************************************************)
Stop ==
    /\ pc = "poll"
    /\ pc' = "capoff"
    /\ UNCHANGED <<next, held, fds, open, cap, out, stale, counters, runs>>

StopCapture ==
    /\ pc = "capoff"
    /\ cap' = StreamOff(cap)
    /\ pc' = "capfree"
    /\ UNCHANGED <<next, held, fds, open, out, stale, counters, runs>>

FreeCapture ==
    /\ pc = "capfree" /\ CanReqBufs(cap)
    /\ cap' = ReqBufs(0)
    /\ pc' = "outoff"
    /\ UNCHANGED <<next, held, fds, open, out, stale, counters, runs>>

StopOutput ==
    /\ pc = "outoff"
    /\ out' = StreamOff(out) /\ stale' = {}
    /\ pc' = "outfree"
    /\ UNCHANGED <<next, held, fds, open, cap, counters, runs>>

\* requestOutputDMABuffers(0), then buffers_ = nullptr closes the fds
FreeOutput ==
    /\ pc = "outfree" /\ CanReqBufs(out)
    /\ out' = ReqBufs(0)
    /\ fds' = 0 /\ open' = open - fds
    /\ pc' = "idle"
    /\ UNCHANGED <<next, held, cap, stale, counters, runs>>

(***************************************************************************)
(* An exception from any ioctl, or from another callback of the poll loop: *)
(* nothing is undone.  A dequeued buffer is forgotten, and so are the fds  *)
(* that mapBuffers, a local vector of integers, has opened so far.         *)
(***************************************************************************)
Throw ==
    /\ pc \in Starting \cup Loop \cup Stopping
    /\ pc' = "thrown" /\ held' = {} /\ next' = 0
    /\ UNCHANGED <<fds, open, cap, out, stale, counters, runs>>

\* ~Bridge closes the DMA fds, then the last reference to each Device goes and
\* closing the node frees its queue.  The counters are the process's.
Release ==
    /\ pc \in {"idle", "thrown"} /\ runs > 0
    /\ fds' = 0 /\ open' = open - fds /\ cap' = NewQueue /\ out' = NewQueue /\ stale' = {}
    /\ pc' = "idle"
    /\ UNCHANGED <<next, held, counters, runs>>

(***************************************************************************)
(* The two devices                                                         *)
(***************************************************************************)
CaptureFills(i) ==
    /\ CanComplete(cap, i)
    /\ cap' = Complete(cap, i)
    /\ UNCHANGED <<pc, next, held, fds, open, out, stale, counters, runs>>

OutputConsumes(i) ==
    /\ CanComplete(out, i)
    /\ out' = Complete(out, i)
    /\ UNCHANGED <<pc, next, held, fds, open, cap, stale, counters, runs>>

BridgeStep ==
    \/ Start \/ AllocCapture \/ ExportBuffer \/ Export \/ AllocOutput \/ QueueCapture
    \/ StreamOnOutput \/ StreamOnCapture
    \/ ReadDequeue \/ ReadQueue \/ WriteDequeue \/ WriteQueue
    \/ Stop \/ StopCapture \/ FreeCapture \/ StopOutput \/ FreeOutput
    \/ Throw \/ Release

DeviceStep ==
    \E i \in Indices(MaxBufs) : CaptureFills(i) \/ OutputConsumes(i)

Next == BridgeStep \/ DeviceStep

Spec == Init /\ [][Next]_vars

-----------------------------------------------------------------------------
(***************************************************************************)
(* Properties                                                              *)
(***************************************************************************)

\* Every variable has its type; the gauges, which metrics reports, are counts:
\* no path decrements one more often than it was incremented.
TypeOK ==
    /\ pc \in Places
    /\ next \in 0 .. MaxBufs
    /\ held \in SUBSET Indices(MaxBufs)
    /\ fds \in 0 .. MaxBufs
    /\ open \in Nat
    /\ cap \in Queues(MaxBufs)
    /\ out \in Queues(MaxBufs)
    /\ stale \in SUBSET Indices(MaxBufs)
    /\ capCount \in Nat
    /\ outCount \in Nat
    /\ runs \in 0 .. MaxRuns

\* No buffer has two owners: its memory is written by the capture device, read
\* by the output device or handled by the thread, never two of them at once,
\* failed and repeated runs included.
Exclusive ==
    /\ KernelHolds(cap) \cap KernelHolds(out) = {}
    /\ held \cap (KernelHolds(cap) \cup KernelHolds(out)) = {}

\* While the poll loop runs no buffer is lost: each one is with one of the
\* devices or with the thread, so the ring cannot run dry.
Conserved ==
    pc \in Loop => KernelHolds(cap) \cup KernelHolds(out) \cup held = Indices(fds)

\* Hence each buffer of a running loop has exactly one owner.
OneOwner == Exclusive /\ Conserved

\* A bridge restarted over a run that failed never reaches its loop while the
\* output device still reads buffers of the earlier run, whose fds are closed.
NoStaleImport == pc \in Loop => stale = {}

\* A gauge may drift upwards (STREAMOFF returns buffers without a decrement) but
\* never shows fewer buffers than the device holds...
GaugesCoverQueues ==
    /\ capCount >= Cardinality(KernelHolds(cap))
    /\ outCount >= Cardinality(KernelHolds(out))

\* ...and during the first run it is exact.
GaugesExactInFirstRun ==
    runs = 1 /\ pc \in Loop =>
        /\ capCount = Cardinality(KernelHolds(cap))
        /\ outCount = Cardinality(KernelHolds(out))

\* Drift over restarts is upwards only, and starts with the first restart.
GaugesTrack == GaugesCoverQueues /\ GaugesExactInFirstRun

\* Stop closes the DMA fds only after both devices have let go of the buffers.
ClosesIdleBuffers ==
    [][pc # "thrown" /\ fds > 0 /\ fds' = 0 =>
         KernelHolds(cap) = {} /\ KernelHolds(out) = {}]_vars

\* fds that neither buffers_ owns nor a running mapBuffers is collecting: nobody
\* will ever close them.
Lost == open - fds - (IF pc = "export" THEN next ELSE 0)

\* One path loses DMA fds, an EXPBUF that fails for a later buffer.  No other
\* failure, restart, Stop or destruction leaves one open or closes one twice.
LosesOnlyHalfExports ==
    [][Lost' # Lost => pc = "export" /\ pc' = "thrown" /\ Lost' = Lost + next]_vars

\* DMA fds are closed when their buffers are idle, and all of them but those.
FdsFollowBuffers == ClosesIdleBuffers /\ LosesOnlyHalfExports

(***************************************************************************)
(* Each buffer goes round the cycle of BufferRing.                         *)
(***************************************************************************)
Place(i) ==
    IF i \in cap.queued THEN "filling"
    ELSE IF i \in cap.done THEN "full"
    ELSE IF i \in held THEN (IF pc = "forward" THEN "forwarding" ELSE "recycling")
    ELSE IF i \in out.queued THEN "draining"
    ELSE IF i \in out.done THEN "spent"
    ELSE "idle"

Ring == INSTANCE BufferRing WITH
            Buffers <- Indices(MaxBufs),
            place   <- [i \in Indices(MaxBufs) |-> Place(i)]

\* The bridge implements the ring: no step skips or reverses a stage.
ImplementsRing == Ring!Spec

(***************************************************************************)
(* Counted, its buffers and steps are those of Relay, with which Pipeline  *)
(* works.  A buffer in the thread's hands counts for the queue it was      *)
(* taken from until it is queued again.                                    *)
(***************************************************************************)
Counted(q, taken) ==
    [on     |-> q.streaming,
     queued |-> Cardinality(q.queued),
     done   |-> Cardinality(q.done) + (IF taken THEN 1 ELSE 0)]

Loops == INSTANCE Relay WITH
            Bufs    <- MaxBufs,
            cap     <- Counted(cap, pc = "forward"),
            out     <- Counted(out, pc = "recycle"),
            running <- pc \in Loop \cup {"capoff"}

\* Seen from the poll loop each call of the bridge is one step, failures included: a
\* start leaves the queues as they were, prepared or whole, a callback moves one buffer or
\* loses it, and a run over the remains of another begins with empty queues.
ImplementsRelay == Loops!Spec

=============================================================================
