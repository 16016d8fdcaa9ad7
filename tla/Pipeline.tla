------------------------------ MODULE Pipeline -------------------------------
(***************************************************************************)
(* PipelineImpl::Start (libs/pipeline/src/pipeline.cpp): the thread that   *)
(* starts the controls and the bridges, serves their file descriptors from *)
(* one poll loop and stops everything again, between the devices and the   *)
(* client that takes frames from the sink.                                 *)
(*                                                                         *)
(* Bridge b joins device b to device b+1; device 1 is the camera, the last *)
(* one (device Bridges+1) feeds the sink, and each device in between turns *)
(* a buffer of its output queue into one of its capture queue.  Which      *)
(* buffer of a queue is which is Bridge's and MMapStream's matter: here a  *)
(* queue is the number of buffers in each state.                           *)
(*                                                                         *)
(* One session uses the pipeline at a time (Sessions): its client stops    *)
(* the pipeline only when it holds no frame and waits for none.            *)
(***************************************************************************)
EXTENDS CountedQueue

CONSTANTS
    Bridges,    \* number of bridges
    Controls,   \* number of PipelineControls, each with a statistics stream
    Bufs,       \* buffers of a bridge (20 in the code)
    SinkBufs,   \* buffers of the sink and of a statistics stream (5)
    MaxRuns,    \* bound: how often Start is called
    Fails       \* may ioctls, algorithms and poll fail?

ASSUME CountsAssumption ==
    /\ Bridges \in Nat /\ Controls \in Nat
    /\ Bufs \in Nat \ {0} /\ SinkBufs \in Nat \ {0} /\ MaxRuns \in Nat

VARIABLES
    pc,         \* where PipelineImpl::Start is
    k,          \* loop index: the control or bridge being started or stopped
    ready,      \* revents of the last poll that have not been served yet
    cap,        \* capture queue of each bridge
    out,        \* output queue of each bridge
    stats,      \* queue of each control's stream
    sink,       \* queue of the sink
    marked,     \* Stream::started_ of the sink
    client,     \* the io thread's side: Next, the frame
    stop,       \* the stop token
    runs        \* number of Start calls so far

devices == <<cap, out, stats, sink, marked>>
vars == <<pc, k, ready, devices, client, stop, runs>>

B == 1 .. Bridges
C == 1 .. Controls

\* The callbacks: ProcessRead and ProcessWrite of a bridge, ProcessStats.
Events == ({"read", "write"} \X B) \cup ({"stats"} \X C)

\* The queue a callback dequeues from, with a blocking ioctl.
Source(e) ==
    IF e[1] = "read" THEN cap[e[2]]
    ELSE IF e[1] = "write" THEN out[e[2]] ELSE stats[e[2]]

Pending == {e \in Events : Source(e).done > 0}

Starting == {"controls", "bridges"}
Loop == {"check", "poll", "dispatch"}
Stopping == {"stopsink", "stopbridges", "stopcontrols"}

-----------------------------------------------------------------------------
Init ==
    /\ pc = "idle" /\ k = 1 /\ ready = {} /\ runs = 0
    /\ cap = [b \in B |-> Off] /\ out = [b \in B |-> Off]
    /\ stats = [c \in C |-> Off] /\ sink = Off /\ marked = FALSE
    /\ client = "gone" /\ stop = FALSE

(***************************************************************************)
(* A session begins: a thread for Start, a client for Next.                *)
(***************************************************************************)
Begin ==
    /\ pc \in {"idle", "done", "threw"} /\ client = "gone" /\ runs < MaxRuns
    /\ pc' = "controls" /\ k' = 1 /\ ready' = {}
    /\ client' = "away" /\ stop' = FALSE /\ runs' = runs + 1
    /\ UNCHANGED devices

\* Nobody has the PipelineImpl any more: its devices are closed.
Destroy ==
    /\ pc \in {"done", "threw"} /\ client = "gone"
    /\ pc' = "idle" /\ k' = 1 /\ ready' = {}
    /\ cap' = [b \in B |-> Off] /\ out' = [b \in B |-> Off]
    /\ stats' = [c \in C |-> Off] /\ sink' = Off /\ marked' = FALSE
    /\ UNCHANGED <<client, stop, runs>>

(***************************************************************************)
(* Start: controls first, then the bridges                                 *)
(***************************************************************************)

\* PipelineControl::Start; a stream that still runs refuses (EBUSY).
StartControl ==
    /\ pc = "controls" /\ k \in C /\ ~stats[k].on
    /\ stats' = [stats EXCEPT ![k] = Started(SinkBufs)]
    /\ k' = k + 1
    /\ UNCHANGED <<pc, ready, cap, out, sink, marked, client, stop, runs>>

ControlsStarted ==
    /\ pc = "controls" /\ k = Controls + 1
    /\ pc' = "bridges" /\ k' = 1
    /\ UNCHANGED <<ready, devices, client, stop, runs>>

\* Bridge::Start: every buffer queued to the capture device, both on.
StartBridge ==
    /\ pc = "bridges" /\ k \in B /\ ~cap[k].on /\ ~out[k].on
    /\ cap' = [cap EXCEPT ![k] = Started(Bufs)]
    /\ out' = [out EXCEPT ![k] = Started(0)]
    /\ k' = k + 1
    /\ UNCHANGED <<pc, ready, stats, sink, marked, client, stop, runs>>

BridgesStarted ==
    /\ pc = "bridges" /\ k = Bridges + 1
    /\ pc' = "check" /\ k' = 1
    /\ UNCHANGED <<ready, devices, client, stop, runs>>

\* Mutant: the failure is logged and the loop goes on.
BridgeStartLogged ==
    /\ pc = "bridges" /\ k \in B /\ (cap[k].on \/ out[k].on \/ Fails)
    /\ k' = k + 1
    /\ UNCHANGED <<pc, ready, devices, client, stop, runs>>

\* Bridge::Start throws: refused by a device that still runs, or at one of its
\* ioctls, before which buffers were queued or the output device started.
BridgeStartThrows ==
    /\ pc = "bridges" /\ k \in B
    /\ \/ (cap[k].on \/ Fails) /\ UNCHANGED <<cap, out>>
       \/ /\ ~cap[k].on /\ out[k].on
          /\ cap' = [cap EXCEPT ![k] = Off] /\ UNCHANGED out
       \/ /\ ~cap[k].on /\ ~out[k].on /\ Fails
          /\ \E n \in 0 .. Bufs :
               /\ cap' = [cap EXCEPT ![k] = Idle(n)]
               /\ \/ UNCHANGED out
                  \/ n = Bufs /\ out' = [out EXCEPT ![k] = Started(0)]
    /\ pc' = "threw" /\ k' = 1
    /\ UNCHANGED <<ready, stats, sink, marked, client, stop, runs>>

\* So does PipelineControl::Start: SetFormat and the stream, refused or failing,
\* or an algorithm's Prepare once the stream runs.
ControlStartThrows ==
    /\ pc = "controls" /\ k \in C /\ (stats[k].on \/ Fails)
    /\ IF stats[k].on THEN UNCHANGED stats
       ELSE \/ UNCHANGED stats
            \/ \E n \in 0 .. SinkBufs :
                 stats' = [stats EXCEPT ![k] = Idle(n)]
            \/ stats' = [stats EXCEPT ![k] = Started(SinkBufs)]
    /\ pc' = "threw" /\ k' = 1
    /\ UNCHANGED <<ready, cap, out, sink, marked, client, stop, runs>>

(***************************************************************************)
(* The poll loop                                                           *)
(***************************************************************************)
CheckStop ==
    /\ pc = "check"
    /\ pc' = IF stop THEN "stopsink" ELSE "poll"
    /\ UNCHANGED <<k, ready, devices, client, stop, runs>>

\* Mutant: poll has no timeout.
PollForever ==
    /\ pc = "poll" /\ Pending # {}
    /\ ready' = Pending
    /\ pc' = "dispatch"
    /\ UNCHANGED <<k, devices, client, stop, runs>>

\* poll tells which queues have a finished buffer, or times out after 100 ms.
Poll ==
    /\ pc = "poll"
    /\ ready' = Pending
    /\ pc' = IF Pending = {} THEN "check" ELSE "dispatch"
    /\ UNCHANGED <<k, devices, client, stop, runs>>

\* The descriptors are served in the order of an unordered_set: any of them is the next.
NextEvent(e) == pc = "dispatch" /\ e \in ready

\* Mutant: as long as the device has more, the callback is run for it again.
ServedAgain(e) ==
    /\ ready' = IF e[1] = "read" THEN ready ELSE ready \ {e}
    /\ pc' = IF ready' = {} THEN "check" ELSE "dispatch"
    /\ UNCHANGED <<k, sink, marked, client, stop, runs>>

Served(e) ==
    /\ ready' = ready \ {e}
    /\ pc' = IF ready = {e} THEN "check" ELSE "dispatch"
    /\ UNCHANGED <<k, sink, marked, client, stop, runs>>

ProcessRead(b) ==
    /\ NextEvent(<<"read", b>>) /\ cap[b].done > 0
    /\ cap' = [cap EXCEPT ![b] = Take(@)]
    /\ out' = [out EXCEPT ![b] = Give(@)]
    /\ Served(<<"read", b>>)
    /\ UNCHANGED stats

\* Mutant: the buffer is not handed back to the capture device.
ProcessWriteKept(b) ==
    /\ NextEvent(<<"write", b>>) /\ out[b].done > 0
    /\ out' = [out EXCEPT ![b] = Take(@)]
    /\ Served(<<"write", b>>)
    /\ UNCHANGED <<cap, stats>>

ProcessWrite(b) ==
    /\ NextEvent(<<"write", b>>) /\ out[b].done > 0
    /\ out' = [out EXCEPT ![b] = Take(@)]
    /\ cap' = [cap EXCEPT ![b] = Give(@)]
    /\ Served(<<"write", b>>)
    /\ UNCHANGED stats

\* The frame of ProcessStats is a local: its buffer is queued again on return.
ProcessStats(c) ==
    /\ NextEvent(<<"stats", c>>) /\ stats[c].done > 0
    /\ stats' = [stats EXCEPT ![c] = Give(Take(@))]
    /\ Served(<<"stats", c>>)
    /\ UNCHANGED <<cap, out>>

\* An exception leaves the loop, and everything streaming.  Between its two
\* ioctls a bridge's callback loses the buffer it had taken.
LoopThrows ==
    /\ Fails /\ pc \in {"poll", "dispatch"}
    /\ pc' = "threw" /\ ready' = {}
    /\ \/ UNCHANGED <<cap, out, stats>>
       \/ \E b \in B : NextEvent(<<"read", b>>) /\ cap[b].done > 0
            /\ cap' = [cap EXCEPT ![b] = Take(@)] /\ UNCHANGED <<out, stats>>
       \/ \E b \in B : NextEvent(<<"write", b>>) /\ out[b].done > 0
            /\ out' = [out EXCEPT ![b] = Take(@)] /\ UNCHANGED <<cap, stats>>
       \/ \E c \in C : NextEvent(<<"stats", c>>) /\ stats[c].done > 0
            /\ stats' = [stats EXCEPT ![c] = Give(Take(@))] /\ UNCHANGED <<cap, out>>
    /\ UNCHANGED <<k, sink, marked, client, stop, runs>>

(***************************************************************************)
(* The end of Start: the sink, then the bridges, then the controls         *)
(***************************************************************************)
StopSink ==
    /\ pc = "stopsink"
    /\ IF marked THEN sink' = Off ELSE UNCHANGED sink
    /\ marked' = FALSE
    /\ pc' = "stopbridges" /\ k' = 1
    /\ UNCHANGED <<ready, cap, out, stats, client, stop, runs>>

StopBridge ==
    /\ pc = "stopbridges" /\ k \in B
    /\ cap' = [cap EXCEPT ![k] = Off] /\ out' = [out EXCEPT ![k] = Off]
    /\ k' = k + 1
    /\ UNCHANGED <<pc, ready, stats, sink, marked, client, stop, runs>>

BridgesStopped ==
    /\ pc = "stopbridges" /\ k = Bridges + 1
    /\ pc' = "stopcontrols" /\ k' = 1
    /\ UNCHANGED <<ready, devices, client, stop, runs>>

StopControl ==
    /\ pc = "stopcontrols" /\ k \in C
    /\ stats' = [stats EXCEPT ![k] = Off]
    /\ k' = k + 1
    /\ UNCHANGED <<pc, ready, cap, out, sink, marked, client, stop, runs>>

ControlsStopped ==
    /\ pc = "stopcontrols" /\ k = Controls + 1
    /\ pc' = "done" /\ k' = 1
    /\ UNCHANGED <<ready, devices, client, stop, runs>>

\* One of the Stops fails: the rest stays on.
StopThrows ==
    /\ Fails /\ pc \in Stopping
    /\ \/ UNCHANGED devices
       \/ pc = "stopsink" /\ marked /\ sink' = Off /\ UNCHANGED <<cap, out, stats, marked>>
       \/ /\ pc = "stopbridges" /\ k \in B
          /\ cap' = [cap EXCEPT ![k] = Off]
          /\ \/ UNCHANGED out
             \/ out' = [out EXCEPT ![k] = Off]
          /\ UNCHANGED <<stats, sink, marked>>
       \/ /\ pc = "stopcontrols" /\ k \in C
          /\ stats' = [stats EXCEPT ![k] = Off] /\ UNCHANGED <<cap, out, sink, marked>>
    /\ pc' = "threw" /\ k' = 1
    /\ UNCHANGED <<ready, client, stop, runs>>

(***************************************************************************)
(* The client: Next, the frame, and the end of the session                 *)
(***************************************************************************)
StreamSteady == UNCHANGED <<pc, k, ready, cap, out, stats, runs>>

\* Next starts the sink, unless it believes the sink to be started.
AskNext ==
    /\ client = "away" /\ ~stop
    /\ client' = "waiting"
    /\ sink' = IF marked THEN sink ELSE Started(SinkBufs)
    /\ marked' = TRUE
    /\ UNCHANGED stop /\ StreamSteady

GetFrame ==
    /\ client = "waiting" /\ sink.done > 0
    /\ client' = "holding"
    /\ sink' = Take(sink)
    /\ UNCHANGED <<stop, marked>> /\ StreamSteady

\* Mutant: two copies of the frame exist, and both destructors queue its buffer.
ReleaseFrameTwice ==
    /\ client = "holding"
    /\ client' = "away"
    /\ sink' = Give(Give(sink))
    /\ UNCHANGED <<stop, marked>> /\ StreamSteady

ReleaseFrame ==
    /\ client = "holding"
    /\ client' = "away"
    /\ sink' = Give(sink)
    /\ UNCHANGED <<stop, marked>> /\ StreamSteady

Gone == client' = "gone" /\ stop' = TRUE /\ UNCHANGED <<sink, marked>> /\ StreamSteady

\* The session is over...
Quit == client = "away" /\ Gone

\* ...or ends with an exception of Next: of the sink's start, which has queued some
\* buffers by then, or none...
NextStartThrows ==
    /\ Fails /\ client = "away" /\ ~stop /\ ~marked
    /\ \E n \in 0 .. SinkBufs : sink' = Idle(n)
    /\ client' = "gone" /\ stop' = TRUE
    /\ UNCHANGED marked /\ StreamSteady

\* ...or of the dequeueing: a sink that is marked as started, but
\* was stopped by a Stop that threw halfway, refuses to dequeue.
NextThrows == client = "waiting" /\ (Fails \/ ~sink.on) /\ Gone

(***************************************************************************)
(* The devices                                                             *)
(***************************************************************************)

\* Device d fills a buffer of its capture side: the camera from what it sees,
\* the others from a buffer of the bridge before them.
Convert(d) ==
    /\ d > 1 => CanFinish(out[d - 1])
    /\ IF d \in B
         THEN CanFinish(cap[d]) /\ cap' = [cap EXCEPT ![d] = Finish(@)] /\ UNCHANGED sink
         ELSE CanFinish(sink) /\ sink' = Finish(sink) /\ UNCHANGED cap
    /\ out' = IF d > 1 THEN [out EXCEPT ![d - 1] = Finish(@)] ELSE out
    /\ UNCHANGED <<pc, k, ready, stats, marked, client, stop, runs>>

Measure(c) ==
    /\ CanFinish(stats[c])
    /\ stats' = [stats EXCEPT ![c] = Finish(@)]
    /\ UNCHANGED <<pc, k, ready, cap, out, sink, marked, client, stop, runs>>

Callback ==
    \/ \E b \in B : ProcessRead(b) \/ ProcessWrite(b)
    \/ \E c \in C : ProcessStats(c)

ThreadStep ==
    \/ StartControl \/ ControlsStarted \/ StartBridge \/ BridgesStarted
    \/ BridgeStartThrows \/ ControlStartThrows
    \/ CheckStop \/ Poll \/ Callback
    \/ StopSink \/ StopBridge \/ BridgesStopped \/ StopControl \/ ControlsStopped

ClientStep ==
    AskNext \/ GetFrame \/ ReleaseFrame \/ Quit \/ NextStartThrows \/ NextThrows

DeviceStep == (\E d \in 1 .. Bridges + 1 : Convert(d)) \/ (\E c \in C : Measure(c))

Next ==
    \/ Begin \/ Destroy \/ ThreadStep \/ LoopThrows \/ StopThrows
    \/ ClientStep \/ DeviceStep

Spec == Init /\ [][Next]_vars

\* The thread is scheduled, a device that has buffers goes on, a client takes the
\* frame it waits for and gives it back.
Fairness ==
    /\ WF_vars(ThreadStep)
    /\ WF_vars(GetFrame) /\ WF_vars(ReleaseFrame)
    /\ WF_vars(~sink.on /\ NextThrows)
    /\ \A d \in 1 .. Bridges + 1 : WF_vars(Convert(d))

FairSpec == Spec /\ Fairness

-----------------------------------------------------------------------------
(***************************************************************************)
(* Properties                                                              *)
(***************************************************************************)

TypeOK ==
    /\ pc \in {"idle", "done", "threw"} \cup Starting \cup Loop \cup Stopping
    /\ k \in 1 .. (Bridges + Controls + 1)
    /\ ready \in SUBSET Events
    /\ cap \in [B -> Queues(Bufs)] /\ out \in [B -> Queues(Bufs)]
    /\ stats \in [C -> Queues(SinkBufs)] /\ sink \in Queues(SinkBufs)
    /\ marked \in BOOLEAN
    /\ client \in {"gone", "away", "waiting", "holding"}
    /\ stop \in BOOLEAN /\ runs \in 0 .. MaxRuns

\* A callback runs later than the poll that asked for it, after other callbacks,
\* and dequeues with a blocking ioctl: its buffer is still there, so the loop
\* never blocks outside poll.
CallbacksNeverBlock ==
    pc = "dispatch" => \A e \in ready : Source(e).on /\ Source(e).done > 0

\* The loop runs over a whole pipeline or not at all: whatever an earlier run left
\* on or off, every device of every bridge and control is streaming, and between
\* callbacks each bridge has all its buffers in its two devices, each control all its own.
LoopRunsWhole ==
    pc \in Loop =>
        /\ \A b \in B :
             /\ cap[b].on /\ out[b].on
             /\ cap[b].queued + cap[b].done + out[b].queued + out[b].done = Bufs
        /\ \A c \in C : stats[c].on /\ stats[c].queued + stats[c].done = SinkBufs

\* A run that ends without an exception leaves nothing on.
DoneIsOff ==
    pc = "done" =>
        /\ \A b \in B : cap[b] = Off /\ out[b] = Off
        /\ \A c \in C : stats[c] = Off
        /\ ~sink.on

\* A pipeline is all on while its loop runs, and all off when that has come to its end.
WholeOrOff == LoopRunsWhole /\ DoneIsOff

\* A bridge works from its start until it is stopped, or the thread throws.
Running(b) ==
    \/ pc \in Loop \cup {"stopsink"}
    \/ pc = "bridges" /\ b < k
    \/ pc = "stopbridges" /\ b >= k

Relays(b) == INSTANCE Relay WITH cap <- cap[b], out <- out[b], running <- Running(b)

\* The loop does with each bridge what Relay allows and Bridge implements, whatever it
\* does with the others at the same step: each Relays(b)!Spec holds.
BridgesRelay ==
    /\ \A b \in B : Relays(b)!Init
    /\ [][\A b \in B : [Relays(b)!Next]_(Relays(b)!vars)]_vars

SinkSupply == INSTANCE Supply WITH
    Bufs <- SinkBufs, queue <- sink, lent <- IF client = "holding" THEN 1 ELSE 0

StatsSupply(c) == INSTANCE Supply WITH Bufs <- SinkBufs, queue <- stats[c], lent <- 0

\* The session and the callbacks do with the sink and the streams of statistics what
\* Supply allows and MMapStream implements.
StreamsSupply ==
    /\ SinkSupply!Spec
    /\ \A c \in C : StatsSupply(c)!Init
    /\ [][\A c \in C : [StatsSupply(c)!Next]_(StatsSupply(c)!vars)]_vars

\* The loop and its client ask of bridges and streams only what these are shown to do.
UsesAsImplemented == BridgesRelay /\ StreamsSupply

\* A client that waits gets its frame through all the bridges, unless the
\* pipeline thread threw (then, with bridges, it waits forever).
FrameArrives == client = "waiting" ~> client # "waiting" \/ pc = "threw"

\* A thread that is told to stop comes to its end.
StopEnds == stop ~> pc \in {"idle", "done", "threw"} \/ ~stop

=============================================================================
