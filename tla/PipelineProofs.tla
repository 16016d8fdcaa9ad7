---------------------------- MODULE PipelineProofs ---------------------------
(***************************************************************************)
(* Theorems about Pipeline for every number of bridges, controls and       *)
(* buffers.                                                                *)
(***************************************************************************)
EXTENDS Pipeline, TLAPS

\* A bridge, and a control, that runs with all its buffers.
WholeBridge(b) ==
    /\ cap[b].on /\ out[b].on
    /\ cap[b].queued + cap[b].done + out[b].queued + out[b].done = Bufs

WholeControl(c) ==
    stats[c].on /\ stats[c].queued + stats[c].done = SinkBufs

\* No device holds more buffers than there are.
Held == IF client = "holding" THEN 1 ELSE 0

Bounded ==
    /\ \A b \in B : cap[b].queued + cap[b].done + out[b].queued + out[b].done <= Bufs
    /\ \A b \in B : ~out[b].on => out[b] = Off
    /\ \A c \in C : stats[c].queued + stats[c].done <= SinkBufs
    /\ sink.queued + sink.done + Held <= SinkBufs
    /\ ~sink.on => sink.done = 0 /\ client # "holding"
    /\ ~marked => ~sink.on /\ client \notin {"waiting", "holding"}

\* How far Start has come tells what runs...
Progress ==
    /\ pc = "controls" => k <= Controls + 1 /\ \A c \in C : c < k => WholeControl(c)
    /\ pc \in {"bridges"} \cup Loop => \A c \in C : WholeControl(c)
    /\ pc = "bridges" => k <= Bridges + 1 /\ \A b \in B : b < k => WholeBridge(b)
    /\ pc \in Loop => \A b \in B : WholeBridge(b)

\* ...and what has stopped.
Regress ==
    /\ pc \in Stopping \cup {"done"} => stop
    /\ stop => client = "gone"
    /\ pc \in {"stopbridges", "stopcontrols", "done"} => ~marked
    /\ pc = "stopbridges" =>
         k <= Bridges + 1 /\ \A b \in B : b < k => cap[b] = Off /\ out[b] = Off
    /\ pc \in {"stopcontrols", "done"} => \A b \in B : cap[b] = Off /\ out[b] = Off
    /\ pc = "stopcontrols" => k <= Controls + 1 /\ \A c \in C : c < k => stats[c] = Off
    /\ pc = "done" => \A c \in C : stats[c] = Off

\* The inductive invariant.
IInv == TypeOK /\ Bounded /\ Progress /\ Regress /\ CallbacksNeverBlock

-----------------------------------------------------------------------------
\* Off and Started(n) are queues, and what they hold.
LEMMA NewQueues ==
    ASSUME NEW n \in Nat, NEW m \in 0 .. n
    PROVE  /\ Off \in Queues(n) /\ ~Off.on /\ Off.queued = 0 /\ Off.done = 0
           /\ Idle(m) \in Queues(n) /\ ~Idle(m).on /\ Idle(m).queued = m /\ Idle(m).done = 0
           /\ Started(m) \in Queues(n) /\ Started(m).on
           /\ Started(m).queued = m /\ Started(m).done = 0
  BY DEF Off, Idle, Started, Queues

\* A queue's fields have their types.
LEMMA QueueFields ==
    ASSUME NEW n \in Nat, NEW q \in Queues(n)
    PROVE  q.on \in BOOLEAN /\ q.queued \in Nat /\ q.done \in Nat
  BY DEF Queues

\* What finishing, taking and giving a buffer do.
LEMMA MovedQueues ==
    ASSUME NEW n \in Nat, NEW q \in Queues(n), q.queued + q.done <= n
    PROVE  /\ CanFinish(q) =>
                /\ Finish(q) \in Queues(n) /\ Finish(q).on = q.on
                /\ Finish(q).queued = q.queued - 1 /\ Finish(q).done = q.done + 1
           /\ q.done > 0 =>
                /\ Take(q) \in Queues(n) /\ Take(q).on = q.on
                /\ Take(q).queued = q.queued /\ Take(q).done = q.done - 1
                /\ Give(Take(q)) \in Queues(n) /\ Give(Take(q)).on = q.on
                /\ Give(Take(q)).queued = q.queued + 1
                /\ Give(Take(q)).done = q.done - 1
           /\ q.queued + q.done < n =>
                /\ Give(q) \in Queues(n) /\ Give(q).on = q.on
                /\ Give(q).queued = q.queued + 1 /\ Give(q).done = q.done
  BY DEF CanFinish, Finish, Take, Give, Queues

-----------------------------------------------------------------------------
\* The invariant holds at the start.
LEMMA InitIInv == Init => IInv
  <1> SUFFICES ASSUME Init PROVE IInv
    OBVIOUS
  <1>1. /\ Off \in Queues(Bufs) /\ Off \in Queues(SinkBufs)
        /\ Off.queued = 0 /\ Off.done = 0 /\ ~Off.on
    BY CountsAssumption, NewQueues
  <1>5. /\ cap \in [B -> Queues(Bufs)] /\ out \in [B -> Queues(Bufs)]
        /\ stats \in [C -> Queues(SinkBufs)] /\ sink \in Queues(SinkBufs)
    BY <1>1 DEF Init
  <1>6. k \in 1 .. (Bridges + Controls + 1) /\ runs \in 0 .. MaxRuns
    BY CountsAssumption DEF Init
  <1>2. TypeOK
    BY <1>5, <1>6 DEF Init, TypeOK
  <1>3. Bounded
    BY <1>1, CountsAssumption DEF Init, Bounded, Held
  <1>4. Progress /\ Regress /\ CallbacksNeverBlock
    BY DEF Init, Progress, Regress, CallbacksNeverBlock, Loop, Stopping
  <1> QED
    BY <1>2, <1>3, <1>4 DEF IInv

\* The types of the device queues, and of the rest.
DevTypes ==
    /\ cap \in [B -> Queues(Bufs)] /\ out \in [B -> Queues(Bufs)]
    /\ stats \in [C -> Queues(SinkBufs)] /\ sink \in Queues(SinkBufs)
    /\ marked \in BOOLEAN

CtlTypes ==
    /\ pc \in {"idle", "done", "threw"} \cup Starting \cup Loop \cup Stopping
    /\ k \in 1 .. (Bridges + Controls + 1)
    /\ ready \in SUBSET Events
    /\ client \in {"gone", "away", "waiting", "holding"}
    /\ stop \in BOOLEAN /\ runs \in 0 .. MaxRuns

\* TypeOK is the two together.
LEMMA Types ==
    /\ TypeOK <=> DevTypes /\ CtlTypes
    /\ TypeOK' <=> DevTypes' /\ CtlTypes'
  BY DEF TypeOK, DevTypes, CtlTypes

\* Nothing that the invariant says of the devices changes with the rest.
LEMMA DevicesSame ==
    ASSUME UNCHANGED devices
    PROVE  /\ cap' = cap /\ out' = out /\ stats' = stats /\ sink' = sink /\ marked' = marked
           /\ DevTypes' <=> DevTypes
           /\ \A b \in B : WholeBridge(b)' <=> WholeBridge(b)
           /\ \A c \in C : WholeControl(c)' <=> WholeControl(c)
  BY DEF devices, DevTypes, WholeBridge, WholeControl

\* Steps that change no device keep the invariant.
LEMMA ControlStep ==
    ASSUME IInv,
           \/ Begin \/ ControlsStarted \/ BridgesStarted \/ CheckStop
           \/ BridgesStopped \/ ControlsStopped
    PROVE  IInv'
  <1> USE DEF Begin, ControlsStarted, BridgesStarted, CheckStop, BridgesStopped, ControlsStopped
  <1>1. UNCHANGED devices /\ pc' \notin {"dispatch"}
    OBVIOUS
  <1>2. CtlTypes'
    <2>1. CtlTypes
      BY Types DEF IInv
    <2>2. k' \in 1 .. (Bridges + Controls + 1)
      BY <2>1, CountsAssumption DEF CtlTypes
    <2>3. runs' \in 0 .. MaxRuns
      BY <2>1, CountsAssumption DEF CtlTypes
    <2>4. pc' \in {"idle", "done", "threw"} \cup Starting \cup Loop \cup Stopping
      BY DEF Starting, Loop, Stopping
    <2> QED
      BY <2>1, <2>2, <2>3, <2>4 DEF CtlTypes
  <1>3. TypeOK'
    BY <1>1, <1>2, Types, DevicesSame DEF IInv
  <1>4. Bounded'
    <2>1. Held' = Held /\ (client' = client \/ client' = "away")
      BY DEF Held
    <2> QED
      BY <1>1, <2>1, DevicesSame DEF IInv, Bounded
  <1>5. \A b \in B : b \in 1 .. Bridges /\ ~(b < 1)
    BY CountsAssumption DEF B
  <1>6. \A c \in C : c \in 1 .. Controls /\ ~(c < 1)
    BY CountsAssumption DEF C
  <1>7. 1 <= Controls + 1 /\ 1 <= Bridges + 1
    BY CountsAssumption
  <1>8. /\ \A b \in B : b < Bridges + 1
        /\ \A c \in C : c < Controls + 1
    BY CountsAssumption DEF B, C
  <1>9. Progress'
    BY <1>1, <1>5, <1>6, <1>7, <1>8, DevicesSame DEF IInv, Progress, Loop
  <1>10. Regress'
    BY <1>1, <1>5, <1>6, <1>7, <1>8, DevicesSame DEF IInv, Regress, Loop, Stopping
  <1>11. CallbacksNeverBlock'
    BY <1>1 DEF CallbacksNeverBlock
  <1> QED
    BY <1>3, <1>4, <1>9, <1>10, <1>11 DEF IInv

\* Each event is one of the three callbacks, with its queue.
LEMMA EventShape ==
    /\ \A b \in B : Source(<<"read", b>>) = cap[b] /\ Source(<<"write", b>>) = out[b]
    /\ \A c \in C : Source(<<"stats", c>>) = stats[c]
    /\ \A e \in Events :
         \/ \E b \in B : e = <<"read", b>> \/ e = <<"write", b>>
         \/ \E c \in C : e = <<"stats", c>>
  <1>1. \A x \in B : Source(<<"read", x>>) = cap[x] /\ Source(<<"write", x>>) = out[x]
    BY DEF Source
  <1>2. \A c \in C : Source(<<"stats", c>>) = stats[c]
    BY DEF Source
  <1>3. ASSUME NEW e \in Events
        PROVE  \/ \E b \in B : e = <<"read", b>> \/ e = <<"write", b>>
               \/ \E c \in C : e = <<"stats", c>>
    BY DEF Events
  <1> QED
    BY <1>1, <1>2, <1>3

\* poll reports only queues that have something done, all of which are on.
LEMMA PollStep ==
    ASSUME IInv, Poll
    PROVE  IInv'
  <1>1. /\ UNCHANGED devices /\ UNCHANGED <<k, client, stop, runs>>
        /\ pc = "poll" /\ pc' \in {"check", "dispatch"} /\ ready' = Pending
    BY DEF Poll
  <1>2. TypeOK'
    <2>1. CtlTypes'
      BY <1>1, Types DEF IInv, CtlTypes, Pending, Loop
    <2> QED
      BY <1>1, <2>1, Types, DevicesSame DEF IInv
  <1>3. Bounded'
    BY <1>1, DevicesSame DEF IInv, Bounded, Held
  <1>4. Progress' /\ Regress'
    BY <1>1, DevicesSame DEF IInv, Progress, Regress, Loop, Stopping
  <1>5. CallbacksNeverBlock'
    <2>1. \A e \in Events : Source(e).on
      BY <1>1, EventShape DEF IInv, Progress, Loop, WholeBridge, WholeControl
    <2>2. \A e : Source(e)' = Source(e)
      BY <1>1 DEF Source, devices
    <2> QED
      BY <1>1, <2>1, <2>2 DEF CallbacksNeverBlock, Pending
  <1> QED
    BY <1>2, <1>3, <1>4, <1>5 DEF IInv

-----------------------------------------------------------------------------
\* A step that gives bridge b the queues p and r, and leaves the other bridges.
LEMMA BridgeUpdate ==
    ASSUME DevTypes, NEW b \in B, NEW p \in Queues(Bufs), NEW r \in Queues(Bufs),
           cap' = [cap EXCEPT ![b] = p] \/ (cap' = cap /\ p = cap[b]),
           out' = [out EXCEPT ![b] = r] \/ (out' = out /\ r = out[b]),
           UNCHANGED <<stats, sink, marked>>
    PROVE  /\ DevTypes' /\ cap'[b] = p /\ out'[b] = r
           /\ \A x \in B \ {b} : cap'[x] = cap[x] /\ out'[x] = out[x]
           /\ \A x \in B \ {b} : WholeBridge(x)' <=> WholeBridge(x)
           /\ \A c \in C : WholeControl(c)' <=> WholeControl(c)
  BY DEF DevTypes, WholeBridge, WholeControl

\* A step that gives control c the queue p.
LEMMA ControlUpdate ==
    ASSUME DevTypes, NEW c \in C, NEW p \in Queues(SinkBufs),
           stats' = [stats EXCEPT ![c] = p],
           UNCHANGED <<cap, out, sink, marked>>
    PROVE  /\ DevTypes' /\ stats'[c] = p
           /\ \A x \in C \ {c} : stats'[x] = stats[x]
           /\ \A x \in C \ {c} : WholeControl(x)' <=> WholeControl(x)
           /\ \A b \in B : WholeBridge(b)' <=> WholeBridge(b)
  BY DEF DevTypes, WholeBridge, WholeControl

\* StartControl keeps the invariant.
LEMMA StartControlStep ==
    ASSUME IInv, StartControl
    PROVE  IInv'
  <1>1. PICK c \in C : c = k
    BY DEF StartControl
  <1>2. PICK p \in Queues(SinkBufs) :
          /\ p = Started(SinkBufs) /\ p.on /\ p.queued + p.done = SinkBufs
    BY CountsAssumption, NewQueues
  <1>3. /\ pc = "controls" /\ stats' = [stats EXCEPT ![c] = p] /\ k' = c + 1
        /\ UNCHANGED <<pc, ready, cap, out, sink, marked, client, stop, runs>>
    BY <1>1, <1>2 DEF StartControl
  <1>4. DevTypes /\ CtlTypes
    BY Types DEF IInv
  <1>5. /\ DevTypes' /\ stats'[c] = p
        /\ \A x \in C \ {c} : stats'[x] = stats[x] /\ (WholeControl(x)' <=> WholeControl(x))
    BY <1>3, <1>4, ControlUpdate
  <1>6. /\ k' \in 1 .. (Bridges + Controls + 1) /\ k' <= Controls + 1
        /\ \A x \in C : x < k' => x = c \/ x < c
    BY <1>3, CountsAssumption DEF C
  <1>7. TypeOK'
    BY <1>3, <1>4, <1>5, <1>6, Types DEF CtlTypes
  <1>8. WholeControl(c)'
    BY <1>2, <1>5 DEF WholeControl
  <1>9. Bounded'
    BY <1>2, <1>3, <1>5, CountsAssumption DEF IInv, Bounded, Held
  <1>10. Progress'
    BY <1>1, <1>3, <1>5, <1>6, <1>8 DEF IInv, Progress, Loop
  <1>11. Regress' /\ CallbacksNeverBlock'
    BY <1>3 DEF IInv, Regress, CallbacksNeverBlock, Stopping
  <1> QED
    BY <1>7, <1>9, <1>10, <1>11 DEF IInv

\* StartBridge keeps the invariant.
LEMMA StartBridgeStep ==
    ASSUME IInv, StartBridge
    PROVE  IInv'
  <1>1. PICK b \in B : b = k
    BY DEF StartBridge
  <1>2. PICK p \in Queues(Bufs), r \in Queues(Bufs) :
          /\ p = Started(Bufs) /\ r = Started(0) /\ p.on /\ r.on
          /\ p.queued + p.done + r.queued + r.done = Bufs
    <2>1. Bufs \in Nat /\ 0 \in 0 .. Bufs /\ Bufs \in 0 .. Bufs
      BY CountsAssumption
    <2>2. /\ Started(Bufs) \in Queues(Bufs) /\ Started(0) \in Queues(Bufs)
          /\ Started(Bufs).queued = Bufs /\ Started(Bufs).done = 0 /\ Started(Bufs).on
          /\ Started(0).queued = 0 /\ Started(0).done = 0 /\ Started(0).on
      BY <2>1, NewQueues
    <2> QED
      BY <2>1, <2>2
  <1>3. /\ pc = "bridges" /\ k' = b + 1
        /\ cap' = [cap EXCEPT ![b] = p] /\ out' = [out EXCEPT ![b] = r]
        /\ UNCHANGED <<pc, ready, stats, sink, marked, client, stop, runs>>
    BY <1>1, <1>2 DEF StartBridge
  <1>4. DevTypes /\ CtlTypes
    BY Types DEF IInv
  <1>5. /\ DevTypes' /\ cap'[b] = p /\ out'[b] = r
        /\ \A x \in B \ {b} : cap'[x] = cap[x] /\ out'[x] = out[x]
        /\ \A x \in B \ {b} : WholeBridge(x)' <=> WholeBridge(x)
        /\ \A c \in C : WholeControl(c)' <=> WholeControl(c)
    BY <1>3, <1>4, BridgeUpdate
  <1>6. /\ k' \in 1 .. (Bridges + Controls + 1) /\ k' <= Bridges + 1
        /\ \A x \in B : x < k' => x = b \/ x < b
    BY <1>3, CountsAssumption DEF B
  <1>7. TypeOK'
    BY <1>3, <1>4, <1>5, <1>6, Types DEF CtlTypes
  <1>8. WholeBridge(b)'
    BY <1>2, <1>5 DEF WholeBridge
  <1>9. Bounded'
    BY <1>2, <1>3, <1>5, CountsAssumption DEF IInv, Bounded, Held
  <1>10. Progress'
    BY <1>1, <1>3, <1>5, <1>6, <1>8 DEF IInv, Progress, Loop
  <1>11. Regress' /\ CallbacksNeverBlock'
    BY <1>3 DEF IInv, Regress, CallbacksNeverBlock, Stopping
  <1> QED
    BY <1>7, <1>9, <1>10, <1>11 DEF IInv

\* Nothing is claimed of a thread that threw, but that the bounds hold.
LEMMA Thrown ==
    ASSUME IInv, pc' = "threw", k' \in 1 .. (Bridges + Controls + 1), ready' \in SUBSET Events,
           UNCHANGED <<client, stop, runs>>, DevTypes', Bounded'
    PROVE  IInv'
  <1>1. CtlTypes'
    BY Types DEF IInv, CtlTypes
  <1>2. Progress' /\ Regress' /\ CallbacksNeverBlock'
    BY DEF IInv, Progress, Regress, CallbacksNeverBlock, Loop, Stopping
  <1> QED
    BY <1>1, <1>2, Types DEF IInv

\* A callback or a start or stop of bridge b that threw.
LEMMA BridgeThrown ==
    ASSUME IInv, pc' = "threw", k' \in 1 .. (Bridges + Controls + 1), ready' \in SUBSET Events,
           UNCHANGED <<client, stop, runs, stats, sink, marked>>,
           NEW b \in B, NEW p \in Queues(Bufs), NEW r \in Queues(Bufs),
           cap' = [cap EXCEPT ![b] = p] \/ (cap' = cap /\ p = cap[b]),
           out' = [out EXCEPT ![b] = r] \/ (out' = out /\ r = out[b]),
           p.queued + p.done + r.queued + r.done <= Bufs,
           r.on \/ r = Off
    PROVE  IInv'
  <1>1. /\ DevTypes' /\ cap'[b] = p /\ out'[b] = r
        /\ \A x \in B \ {b} : cap'[x] = cap[x] /\ out'[x] = out[x]
    BY Types, BridgeUpdate DEF IInv
  <1>2. Bounded'
    BY <1>1 DEF IInv, Bounded, Held
  <1> QED
    BY <1>1, <1>2, Thrown

\* The same of a control.
LEMMA ControlThrown ==
    ASSUME IInv, pc' = "threw", k' \in 1 .. (Bridges + Controls + 1), ready' \in SUBSET Events,
           UNCHANGED <<client, stop, runs, cap, out, sink, marked>>,
           NEW c \in C, NEW p \in Queues(SinkBufs),
           stats' = [stats EXCEPT ![c] = p],
           p.queued + p.done <= SinkBufs
    PROVE  IInv'
  <1>1. /\ DevTypes' /\ stats'[c] = p
        /\ \A x \in C \ {c} : stats'[x] = stats[x]
    BY Types, ControlUpdate DEF IInv
  <1>2. Bounded'
    BY <1>1 DEF IInv, Bounded, Held
  <1> QED
    BY <1>1, <1>2, Thrown

\* And of a step that threw and changed no device.
LEMMA JustThrown ==
    ASSUME IInv, pc' = "threw", k' \in 1 .. (Bridges + Controls + 1), ready' \in SUBSET Events,
           UNCHANGED <<client, stop, runs>>, UNCHANGED devices
    PROVE  IInv'
  <1>1. DevTypes'
    BY Types, DevicesSame DEF IInv
  <1>2. Bounded'
    BY DevicesSame DEF IInv, Bounded, Held
  <1> QED
    BY <1>1, <1>2, Thrown

\* What is known of the queues of one bridge...
LEMMA OneBridge ==
    ASSUME IInv, NEW b \in B
    PROVE  /\ cap[b] \in Queues(Bufs) /\ out[b] \in Queues(Bufs)
           /\ cap[b].queued \in Nat /\ cap[b].done \in Nat
           /\ out[b].queued \in Nat /\ out[b].done \in Nat /\ Bufs \in Nat
           /\ cap[b].queued + cap[b].done + out[b].queued + out[b].done <= Bufs
           /\ out[b].on \/ out[b] = Off
           /\ Off \in Queues(Bufs) /\ Off.queued = 0 /\ Off.done = 0 /\ ~Off.on
  <1>1. cap[b] \in Queues(Bufs) /\ out[b] \in Queues(Bufs) /\ Bufs \in Nat
    BY Types, CountsAssumption DEF IInv, DevTypes
  <1>2. Off \in Queues(Bufs) /\ Off.queued = 0 /\ Off.done = 0 /\ ~Off.on
    BY <1>1, NewQueues
  <1> QED
    BY <1>1, <1>2, QueueFields DEF IInv, Bounded

\* ...and of one control.
LEMMA OneControl ==
    ASSUME IInv, NEW c \in C
    PROVE  /\ stats[c] \in Queues(SinkBufs) /\ SinkBufs \in Nat
           /\ stats[c].queued \in Nat /\ stats[c].done \in Nat
           /\ stats[c].queued + stats[c].done <= SinkBufs
           /\ Off \in Queues(SinkBufs) /\ Off.queued = 0 /\ Off.done = 0 /\ ~Off.on
  <1>1. stats[c] \in Queues(SinkBufs) /\ SinkBufs \in Nat
    BY Types, CountsAssumption DEF IInv, DevTypes
  <1>2. Off \in Queues(SinkBufs) /\ Off.queued = 0 /\ Off.done = 0 /\ ~Off.on
    BY <1>1, NewQueues
  <1> QED
    BY <1>1, <1>2, QueueFields DEF IInv, Bounded

\* A bridge that fails to start holds no more buffers than it has.
LEMMA BridgeStartThrowsStep ==
    ASSUME IInv, BridgeStartThrows
    PROVE  IInv'
  <1>1. PICK b \in B : b = k
    BY DEF BridgeStartThrows
  <1>2. /\ pc' = "threw" /\ k' \in 1 .. (Bridges + Controls + 1) /\ ready' \in SUBSET Events
        /\ UNCHANGED <<client, stop, runs, stats, sink, marked>>
    <2>1. 1 \in 1 .. (Bridges + Controls + 1)
      BY CountsAssumption
    <2> QED
      BY <2>1, Types DEF BridgeStartThrows, IInv, CtlTypes
  <1>3. CASE UNCHANGED <<cap, out>>
    BY <1>2, <1>3, JustThrown DEF devices
  <1>4. CASE cap' = [cap EXCEPT ![b] = Off] /\ UNCHANGED out
    <2>1. Off.queued + Off.done + out[b].queued + out[b].done <= Bufs
      BY OneBridge
    <2> QED
      BY <1>2, <1>4, <2>1, OneBridge, BridgeThrown
  <1>5. ASSUME NEW n \in 0 .. Bufs, cap' = [cap EXCEPT ![b] = Idle(n)], ~out[b].on,
               UNCHANGED out \/ (n = Bufs /\ out' = [out EXCEPT ![b] = Started(0)])
        PROVE  IInv'
    <2>1. /\ Idle(n) \in Queues(Bufs) /\ Idle(n).queued = n /\ Idle(n).done = 0
          /\ Started(0) \in Queues(Bufs) /\ Started(0).on
          /\ Started(0).queued = 0 /\ Started(0).done = 0
          /\ n \in Nat /\ n <= Bufs
      BY NewQueues, CountsAssumption
    <2>2. out[b] = Off /\ Off \in Queues(Bufs) /\ Off.queued = 0 /\ Off.done = 0
      BY <1>5, OneBridge
    <2>3. CASE UNCHANGED out
      <3>1. Idle(n).queued + Idle(n).done + Off.queued + Off.done <= Bufs
        BY <2>1, <2>2
      <3> QED
        BY <1>2, <1>5, <2>1, <2>2, <2>3, <3>1, BridgeThrown
    <2>4. CASE out' = [out EXCEPT ![b] = Started(0)]
      <3>1. Idle(n).queued + Idle(n).done + Started(0).queued + Started(0).done <= Bufs
        BY <2>1
      <3> QED
        BY <1>2, <1>5, <2>1, <2>4, <3>1, BridgeThrown
    <2> QED
      BY <1>5, <2>3, <2>4
  <1>6. \/ UNCHANGED <<cap, out>>
        \/ cap' = [cap EXCEPT ![b] = Off] /\ UNCHANGED out
        \/ ~out[b].on /\ \E n \in 0 .. Bufs :
             /\ cap' = [cap EXCEPT ![b] = Idle(n)]
             /\ UNCHANGED out \/ (n = Bufs /\ out' = [out EXCEPT ![b] = Started(0)])
    BY <1>1 DEF BridgeStartThrows
  <1> QED
    BY <1>3, <1>4, <1>5, <1>6

\* A control that fails to start holds no more buffers than it has.
LEMMA ControlStartThrowsStep ==
    ASSUME IInv, ControlStartThrows
    PROVE  IInv'
  <1>1. PICK c \in C : c = k
    BY DEF ControlStartThrows
  <1>2. /\ pc' = "threw" /\ k' \in 1 .. (Bridges + Controls + 1) /\ ready' \in SUBSET Events
        /\ UNCHANGED <<client, stop, runs, cap, out, sink, marked>>
    <2>1. 1 \in 1 .. (Bridges + Controls + 1)
      BY CountsAssumption
    <2> QED
      BY <2>1, Types DEF ControlStartThrows, IInv, CtlTypes
  <1>3. CASE UNCHANGED stats
    BY <1>2, <1>3, JustThrown DEF devices
  <1>4. ASSUME NEW n \in 0 .. SinkBufs, stats' = [stats EXCEPT ![c] = Idle(n)]
        PROVE  IInv'
    <2>1. Idle(n) \in Queues(SinkBufs) /\ Idle(n).queued + Idle(n).done <= SinkBufs
      BY NewQueues, CountsAssumption
    <2> QED
      BY <1>2, <1>4, <2>1, ControlThrown
  <1>5. CASE stats' = [stats EXCEPT ![c] = Started(SinkBufs)]
    <2>1. /\ Started(SinkBufs) \in Queues(SinkBufs)
          /\ Started(SinkBufs).queued + Started(SinkBufs).done <= SinkBufs
      BY NewQueues, CountsAssumption
    <2> QED
      BY <1>2, <1>5, <2>1, ControlThrown
  <1> QED
    BY <1>1, <1>3, <1>4, <1>5 DEF ControlStartThrows

-----------------------------------------------------------------------------
\* The end of Start stops the sink,
LEMMA StopSinkStep ==
    ASSUME IInv, StopSink
    PROVE  IInv'
  <1>1. /\ pc = "stopsink" /\ pc' = "stopbridges" /\ k' = 1 /\ ~marked' /\ marked' \in BOOLEAN
        /\ UNCHANGED <<ready, cap, out, stats, client, stop, runs>>
        /\ stop /\ client = "gone"
    BY DEF StopSink, IInv, Regress, Stopping
  <1>2. sink' = Off \/ (sink' = sink /\ ~sink.on)
    BY DEF StopSink, IInv, Bounded
  <1>3. /\ Off \in Queues(SinkBufs) /\ Off.queued = 0 /\ Off.done = 0 /\ ~Off.on
        /\ SinkBufs \in Nat
    BY NewQueues, CountsAssumption
  <1>4. DevTypes'
    BY <1>1, <1>2, <1>3, Types DEF IInv, DevTypes
  <1>5. CtlTypes'
    <2>1. k' \in 1 .. (Bridges + Controls + 1)
      BY <1>1, CountsAssumption
    <2> QED
      BY <1>1, <2>1, Types DEF IInv, CtlTypes, Stopping
  <1>6. Bounded'
    <2>1. /\ sink'.queued + sink'.done + Held' <= SinkBufs /\ ~sink'.on /\ sink'.done = 0
          /\ client' = "gone"
      BY <1>1, <1>2, <1>3 DEF IInv, Bounded, Held
    <2> QED
      BY <1>1, <2>1 DEF IInv, Bounded
  <1>7. Progress' /\ CallbacksNeverBlock'
    BY <1>1 DEF Progress, CallbacksNeverBlock, Loop
  <1>8. Regress'
    BY <1>1, <1>2, CountsAssumption DEF Regress, B, Stopping
  <1> QED
    BY <1>4, <1>5, <1>6, <1>7, <1>8, Types DEF IInv

\* then the bridges,
LEMMA StopBridgeStep ==
    ASSUME IInv, StopBridge
    PROVE  IInv'
  <1>1. PICK b \in B : b = k
    BY DEF StopBridge
  <1>2. /\ pc = "stopbridges" /\ k' = b + 1
        /\ cap' = [cap EXCEPT ![b] = Off] /\ out' = [out EXCEPT ![b] = Off]
        /\ UNCHANGED <<pc, ready, stats, sink, marked, client, stop, runs>>
    BY <1>1 DEF StopBridge
  <1>3. Off \in Queues(Bufs) /\ Off.queued = 0 /\ Off.done = 0 /\ Bufs \in Nat
    BY NewQueues, CountsAssumption
  <1>4. DevTypes /\ CtlTypes
    BY Types DEF IInv
  <1>5. /\ DevTypes' /\ cap'[b] = Off /\ out'[b] = Off
        /\ \A x \in B \ {b} : cap'[x] = cap[x] /\ out'[x] = out[x]
    BY <1>2, <1>3, <1>4, BridgeUpdate
  <1>6. /\ k' \in 1 .. (Bridges + Controls + 1) /\ k' <= Bridges + 1
        /\ \A x \in B : x < k' => x = b \/ x < b
    BY <1>2, CountsAssumption DEF B
  <1>7. CtlTypes'
    BY <1>2, <1>4, <1>6 DEF CtlTypes
  <1>8. Bounded'
    BY <1>2, <1>3, <1>5 DEF IInv, Bounded, Held
  <1>9. Progress' /\ CallbacksNeverBlock'
    BY <1>2 DEF Progress, CallbacksNeverBlock, Loop
  <1>10. Regress'
    BY <1>1, <1>2, <1>5, <1>6 DEF IInv, Regress, Stopping
  <1> QED
    BY <1>5, <1>7, <1>8, <1>9, <1>10, Types DEF IInv

\* and then the controls.
LEMMA StopControlStep ==
    ASSUME IInv, StopControl
    PROVE  IInv'
  <1>1. PICK c \in C : c = k
    BY DEF StopControl
  <1>2. /\ pc = "stopcontrols" /\ k' = c + 1 /\ stats' = [stats EXCEPT ![c] = Off]
        /\ UNCHANGED <<pc, ready, cap, out, sink, marked, client, stop, runs>>
    BY <1>1 DEF StopControl
  <1>3. Off \in Queues(SinkBufs) /\ Off.queued = 0 /\ Off.done = 0 /\ SinkBufs \in Nat
    BY NewQueues, CountsAssumption
  <1>4. DevTypes /\ CtlTypes
    BY Types DEF IInv
  <1>5. DevTypes' /\ stats'[c] = Off /\ \A x \in C \ {c} : stats'[x] = stats[x]
    BY <1>2, <1>3, <1>4, ControlUpdate
  <1>6. /\ k' \in 1 .. (Bridges + Controls + 1) /\ k' <= Controls + 1
        /\ \A x \in C : x < k' => x = c \/ x < c
    BY <1>2, CountsAssumption DEF C
  <1>7. CtlTypes'
    BY <1>2, <1>4, <1>6 DEF CtlTypes
  <1>8. Bounded'
    BY <1>2, <1>3, <1>5 DEF IInv, Bounded, Held
  <1>9. Progress' /\ CallbacksNeverBlock'
    BY <1>2 DEF Progress, CallbacksNeverBlock, Loop
  <1>10. Regress'
    BY <1>1, <1>2, <1>5, <1>6 DEF IInv, Regress, Stopping
  <1> QED
    BY <1>5, <1>7, <1>8, <1>9, <1>10, Types DEF IInv

\* A Stop that throws leaves the bounds alone.
LEMMA StopThrowsStep ==
    ASSUME IInv, StopThrows
    PROVE  IInv'
  <1>1. /\ pc \in Stopping /\ pc' = "threw" /\ ready' \in SUBSET Events
        /\ UNCHANGED <<client, stop, runs>>
    BY Types DEF StopThrows, IInv, CtlTypes
  <1>2. k' \in 1 .. (Bridges + Controls + 1)
    BY CountsAssumption DEF StopThrows
  <1>3. CASE UNCHANGED devices
    BY <1>1, <1>2, <1>3, JustThrown
  <1>4. CASE sink' = Off /\ UNCHANGED <<cap, out, stats, marked>>
    <2>1. /\ Off \in Queues(SinkBufs) /\ Off.queued = 0 /\ Off.done = 0 /\ ~Off.on
          /\ SinkBufs \in Nat
      BY NewQueues, CountsAssumption
    <2>2. DevTypes'
      BY <1>4, <2>1, Types DEF IInv, DevTypes
    <2>3. client = "gone"
      BY <1>1 DEF IInv, Regress
    <2>4. Bounded'
      BY <1>1, <1>4, <2>1, <2>3, CountsAssumption DEF IInv, Bounded, Held
    <2> QED
      BY <1>1, <1>2, <2>2, <2>4, Thrown
  <1>5. ASSUME NEW b \in B, cap' = [cap EXCEPT ![b] = Off],
               UNCHANGED out \/ out' = [out EXCEPT ![b] = Off],
               UNCHANGED <<stats, sink, marked>>
        PROVE  IInv'
    <2>1. /\ Off.queued + Off.done + out[b].queued + out[b].done <= Bufs
          /\ Off.queued + Off.done + Off.queued + Off.done <= Bufs
      BY OneBridge
    <2>2. CASE UNCHANGED out
      BY <1>1, <1>2, <1>5, <2>1, <2>2, OneBridge, BridgeThrown
    <2>3. CASE out' = [out EXCEPT ![b] = Off]
      BY <1>1, <1>2, <1>5, <2>1, <2>3, OneBridge, BridgeThrown
    <2> QED
      BY <1>5, <2>2, <2>3
  <1>6. ASSUME NEW c \in C, stats' = [stats EXCEPT ![c] = Off],
               UNCHANGED <<cap, out, sink, marked>>
        PROVE  IInv'
    <2>1. Off.queued + Off.done <= SinkBufs
      BY <1>6, OneControl
    <2> QED
      BY <1>1, <1>2, <1>6, <2>1, OneControl, ControlThrown
  <1> QED
    BY <1>3, <1>4, <1>5, <1>6 DEF StopThrows

-----------------------------------------------------------------------------
\* A device may have finished a buffer of q, which is now p.
Advanced(q, p) == p = q \/ (CanFinish(q) /\ p = Finish(q))

\* Then p is on if q was, holds as much, and has at least as much done.
LEMMA AdvancedFields ==
    ASSUME NEW n \in Nat, NEW q \in Queues(n), q.queued + q.done <= n,
           NEW p, Advanced(q, p)
    PROVE  /\ p \in Queues(n) /\ p.on = q.on
           /\ p.queued + p.done = q.queued + q.done
           /\ p.done >= q.done
           /\ p.queued \in Nat /\ p.done \in Nat
           /\ q = Off => p = Off
  <1>1. q.queued \in Nat /\ q.done \in Nat
    BY QueueFields
  <1>2. CASE p = q
    BY <1>1, <1>2
  <1>3. CASE CanFinish(q) /\ p = Finish(q)
    <2>1. /\ p \in Queues(n) /\ p.on = q.on
          /\ p.queued = q.queued - 1 /\ p.done = q.done + 1
      BY <1>3, MovedQueues
    <2>2. p.queued \in Nat /\ p.done \in Nat
      BY <2>1, QueueFields
    <2>3. q # Off
      BY <1>3 DEF CanFinish, Off, Idle
    <2> QED
      BY <1>1, <2>1, <2>2, <2>3
  <1> QED
    BY <1>2, <1>3 DEF Advanced

\* Steps of devices keep the invariant, whichever devices move together.
LEMMA Advance ==
    ASSUME IInv,
           cap' = [b \in B |-> cap'[b]], out' = [b \in B |-> out'[b]],
           stats' = [c \in C |-> stats'[c]],
           \A b \in B : Advanced(cap[b], cap'[b]) /\ Advanced(out[b], out'[b]),
           \A c \in C : Advanced(stats[c], stats'[c]),
           Advanced(sink, sink'),
           UNCHANGED <<pc, k, ready, marked, client, stop, runs>>
    PROVE  IInv'
  <1>1. DevTypes /\ CtlTypes /\ Bufs \in Nat /\ SinkBufs \in Nat
    BY Types, CountsAssumption DEF IInv
  <1>2. ASSUME NEW b \in B
        PROVE  /\ cap'[b] \in Queues(Bufs) /\ out'[b] \in Queues(Bufs)
               /\ cap'[b].on = cap[b].on /\ out'[b].on = out[b].on
               /\ cap'[b].queued + cap'[b].done + out'[b].queued + out'[b].done
                    = cap[b].queued + cap[b].done + out[b].queued + out[b].done
               /\ cap'[b].done >= cap[b].done /\ out'[b].done >= out[b].done
               /\ cap'[b].done \in Nat /\ out'[b].done \in Nat
               /\ cap[b].done \in Nat /\ out[b].done \in Nat
               /\ cap[b] = Off => cap'[b] = Off
               /\ out[b] = Off => out'[b] = Off
    <2>1. /\ cap[b] \in Queues(Bufs) /\ out[b] \in Queues(Bufs)
          /\ cap[b].queued \in Nat /\ cap[b].done \in Nat
          /\ out[b].queued \in Nat /\ out[b].done \in Nat
          /\ cap[b].queued + cap[b].done <= Bufs /\ out[b].queued + out[b].done <= Bufs
      BY OneBridge
    <2>2. /\ cap'[b] \in Queues(Bufs) /\ cap'[b].on = cap[b].on
          /\ cap'[b].queued + cap'[b].done = cap[b].queued + cap[b].done
          /\ cap'[b].done >= cap[b].done
          /\ cap'[b].queued \in Nat /\ cap'[b].done \in Nat
          /\ cap[b] = Off => cap'[b] = Off
      BY <1>1, <2>1, AdvancedFields
    <2>3. /\ out'[b] \in Queues(Bufs) /\ out'[b].on = out[b].on
          /\ out'[b].queued + out'[b].done = out[b].queued + out[b].done
          /\ out'[b].done >= out[b].done
          /\ out'[b].queued \in Nat /\ out'[b].done \in Nat
          /\ out[b] = Off => out'[b] = Off
      BY <1>1, <2>1, AdvancedFields
    <2>4. cap'[b].queued + cap'[b].done + out'[b].queued + out'[b].done
            = cap[b].queued + cap[b].done + out[b].queued + out[b].done
      <3> DEFINE q == cap[b].queued  d == cap[b].done  x == cap'[b].queued  y == cap'[b].done
                 qq == out[b].queued  dd == out[b].done  xx == out'[b].queued  yy == out'[b].done
      <3>1. /\ q \in Nat /\ d \in Nat /\ x \in Nat /\ y \in Nat /\ x + y = q + d
            /\ qq \in Nat /\ dd \in Nat /\ xx \in Nat /\ yy \in Nat /\ xx + yy = qq + dd
        BY <2>1, <2>2, <2>3
      <3> HIDE DEF q, d, x, y, qq, dd, xx, yy
      <3>2. x + y + xx + yy = q + d + qq + dd
        BY <3>1
      <3> QED
        BY <3>2 DEF q, d, x, y, qq, dd, xx, yy
    <2> QED
      BY <2>1, <2>2, <2>3, <2>4
  <1>3. ASSUME NEW c \in C
        PROVE  /\ stats'[c] \in Queues(SinkBufs) /\ stats'[c].on = stats[c].on
               /\ stats'[c].queued + stats'[c].done = stats[c].queued + stats[c].done
               /\ stats'[c].done >= stats[c].done
               /\ stats'[c].done \in Nat /\ stats[c].done \in Nat
               /\ stats[c] = Off => stats'[c] = Off
    BY <1>1, AdvancedFields, OneControl
  <1>4. /\ sink' \in Queues(SinkBufs) /\ sink'.queued + sink'.done = sink.queued + sink.done
        /\ sink'.on = sink.on /\ (~sink.on => sink' = sink)
    <2>1. sink \in Queues(SinkBufs) /\ sink.queued + sink.done <= SinkBufs
      <3>1. sink \in Queues(SinkBufs)
        BY <1>1 DEF DevTypes
      <3>2. sink.queued + sink.done + Held <= SinkBufs /\ Held \in {0, 1}
        BY DEF IInv, Bounded, Held
      <3>3. sink.queued \in Nat /\ sink.done \in Nat
        BY <1>1, <3>1, QueueFields
      <3> QED
        BY <1>1, <3>1, <3>2, <3>3
    <2>2. ~sink.on => sink' = sink
      BY DEF Advanced, CanFinish
    <2> QED
      BY <1>1, <2>1, <2>2, AdvancedFields
  <1>5. DevTypes'
    BY <1>1, <1>2, <1>3, <1>4 DEF DevTypes
  <1>6. CtlTypes'
    BY <1>1 DEF CtlTypes
  <1>7. Bounded'
    <2>1. Held' = Held
      BY DEF Held
    <2>2. sink'.queued + sink'.done + Held' <= SinkBufs
      BY <1>4, <2>1 DEF IInv, Bounded
    <2> QED
      BY <1>2, <1>3, <1>4, <2>2 DEF IInv, Bounded
  <1>8. /\ \A b \in B : WholeBridge(b) => WholeBridge(b)'
        /\ \A c \in C : WholeControl(c) => WholeControl(c)'
    BY <1>2, <1>3 DEF WholeBridge, WholeControl
  <1>9. Progress'
    BY <1>8 DEF IInv, Progress
  <1>10. Regress'
    BY <1>2, <1>3, <1>4 DEF IInv, Regress
  <1>11. CallbacksNeverBlock'
    <2>1. ASSUME pc = "dispatch", NEW e \in ready
          PROVE  Source(e)'.on /\ Source(e)'.done > 0
      <3>1. Source(e).on /\ Source(e).done > 0 /\ e \in Events
        BY <1>1, <2>1 DEF IInv, CallbacksNeverBlock, CtlTypes
      <3>2. CASE \E b \in B : e = <<"read", b>>
        <4>1. PICK b \in B : e = <<"read", b>>
          BY <3>2
        <4>2. Source(e) = cap[b] /\ Source(e)' = cap'[b]
          BY <4>1 DEF Source
        <4> QED
          BY <1>2, <3>1, <4>2
      <3>3. CASE \E b \in B : e = <<"write", b>>
        <4>1. PICK b \in B : e = <<"write", b>>
          BY <3>3
        <4>2. Source(e) = out[b] /\ Source(e)' = out'[b]
          BY <4>1 DEF Source
        <4> QED
          BY <1>2, <3>1, <4>2
      <3>4. CASE \E c \in C : e = <<"stats", c>>
        <4>1. PICK c \in C : e = <<"stats", c>>
          BY <3>4
        <4>2. Source(e) = stats[c] /\ Source(e)' = stats'[c]
          BY <4>1 DEF Source
        <4> QED
          BY <1>3, <3>1, <4>2
      <3> QED
        BY <3>1, <3>2, <3>3, <3>4, EventShape
    <2> QED
      BY <2>1 DEF CallbacksNeverBlock
  <1> QED
    BY <1>5, <1>6, <1>7, <1>9, <1>10, <1>11, Types DEF IInv

\* A device converts a buffer, or fills one of the sink.
LEMMA ConvertStep ==
    ASSUME IInv, NEW d \in 1 .. Bridges + 1, Convert(d)
    PROVE  IInv'
  <1>1. DevTypes
    BY Types DEF IInv
  <1>2. UNCHANGED <<pc, k, ready, marked, client, stop, runs>> /\ stats' = stats
    BY DEF Convert
  <1>3. Advanced(sink, sink')
    BY DEF Convert, Advanced
  <1>4. cap' = [b \in B |-> cap'[b]] /\ \A b \in B : Advanced(cap[b], cap'[b])
    <2>1. CASE d \in B
      <3>1. CanFinish(cap[d]) /\ cap' = [cap EXCEPT ![d] = Finish(cap[d])]
        BY <2>1 DEF Convert
      <3> QED
        BY <1>1, <3>1 DEF DevTypes, Advanced
    <2>2. CASE d \notin B
      <3>1. cap' = cap
        BY <2>2 DEF Convert
      <3> QED
        BY <1>1, <3>1 DEF DevTypes, Advanced
    <2> QED
      BY <2>1, <2>2
  <1>5. out' = [b \in B |-> out'[b]] /\ \A b \in B : Advanced(out[b], out'[b])
    <2>1. CASE d > 1
      <3>1. PICK b \in B : b = d - 1
        BY <2>1, CountsAssumption DEF B
      <3>2. CanFinish(out[b]) /\ out' = [out EXCEPT ![b] = Finish(out[b])]
        BY <2>1, <3>1 DEF Convert
      <3> QED
        BY <1>1, <3>2 DEF DevTypes, Advanced
    <2>2. CASE ~(d > 1)
      <3>1. out' = out
        BY <2>2 DEF Convert
      <3> QED
        BY <1>1, <3>1 DEF DevTypes, Advanced
    <2> QED
      BY <2>1, <2>2
  <1>6. stats' = [c \in C |-> stats'[c]] /\ \A c \in C : Advanced(stats[c], stats'[c])
    BY <1>1, <1>2 DEF DevTypes, Advanced
  <1> QED
    BY <1>2, <1>3, <1>4, <1>5, <1>6, Advance

\* A statistics buffer is filled.
LEMMA MeasureStep ==
    ASSUME IInv, NEW c \in C, Measure(c)
    PROVE  IInv'
  <1>1. DevTypes
    BY Types DEF IInv
  <1>2. /\ UNCHANGED <<pc, k, ready, cap, out, sink, marked, client, stop, runs>>
        /\ CanFinish(stats[c]) /\ stats' = [stats EXCEPT ![c] = Finish(stats[c])]
    BY DEF Measure
  <1>3. stats' = [x \in C |-> stats'[x]] /\ \A x \in C : Advanced(stats[x], stats'[x])
    BY <1>1, <1>2 DEF DevTypes, Advanced
  <1>4. /\ cap' = [b \in B |-> cap'[b]] /\ out' = [b \in B |-> out'[b]]
        /\ \A b \in B : Advanced(cap[b], cap'[b]) /\ Advanced(out[b], out'[b])
        /\ Advanced(sink, sink')
    BY <1>1, <1>2 DEF DevTypes, Advanced
  <1> QED
    BY <1>2, <1>3, <1>4, Advance

-----------------------------------------------------------------------------
\* Closing the devices turns everything off.
LEMMA DestroyStep ==
    ASSUME IInv, Destroy
    PROVE  IInv'
  <1>1. /\ Off \in Queues(Bufs) /\ Off \in Queues(SinkBufs)
        /\ Off.queued = 0 /\ Off.done = 0 /\ ~Off.on
    BY CountsAssumption, NewQueues
  <1>2. /\ client = "gone" /\ pc' = "idle" /\ ready' = {} /\ k' \in 1 .. (Bridges + Controls + 1)
        /\ UNCHANGED <<client, stop, runs>> /\ sink' = Off /\ marked' = FALSE
    BY CountsAssumption DEF Destroy
  <1>3. /\ cap' = [b \in B |-> Off] /\ out' = [b \in B |-> Off]
        /\ stats' = [c \in C |-> Off]
    BY DEF Destroy
  <1>4. DevTypes'
    BY <1>1, <1>2, <1>3 DEF DevTypes
  <1>5. CtlTypes'
    BY <1>2, Types DEF IInv, CtlTypes
  <1>6. Bounded'
    <2>1. Held' = 0 /\ Bufs \in Nat /\ SinkBufs \in Nat
      BY <1>2, CountsAssumption DEF Held
    <2> QED
      BY <1>1, <1>2, <1>3, <2>1 DEF Bounded
  <1>7. Progress' /\ CallbacksNeverBlock'
    BY <1>2 DEF Progress, CallbacksNeverBlock, Loop
  <1>8. Regress'
    BY <1>2 DEF IInv, Regress, Stopping
  <1> QED
    BY <1>4, <1>5, <1>6, <1>7, <1>8, Types DEF IInv

\* A step of the client that leaves its sink with no more than its buffers.
LEMMA ClientMoves ==
    ASSUME IInv, StreamSteady, sink' \in Queues(SinkBufs), marked' \in BOOLEAN,
           client' \in {"gone", "away", "waiting", "holding"}, stop' \in BOOLEAN,
           sink'.queued + sink'.done + Held' <= SinkBufs,
           ~sink'.on => sink'.done = 0 /\ client' # "holding",
           ~marked' => ~sink'.on /\ client' \notin {"waiting", "holding"},
           stop' => client' = "gone", stop => stop',
           pc \in {"stopbridges", "stopcontrols", "done"} => ~marked'
    PROVE  IInv'
  <1>1. UNCHANGED <<pc, k, ready, cap, out, stats, runs>>
    BY DEF StreamSteady
  <1>2. DevTypes' /\ CtlTypes'
    BY <1>1, Types DEF IInv, DevTypes, CtlTypes
  <1>3. Bounded'
    BY <1>1 DEF IInv, Bounded
  <1>4. /\ \A b \in B : WholeBridge(b) => WholeBridge(b)'
        /\ \A c \in C : WholeControl(c) => WholeControl(c)'
    BY <1>1 DEF WholeBridge, WholeControl
  <1>5. Progress'
    BY <1>1, <1>4 DEF IInv, Progress
  <1>6. Regress'
    BY <1>1 DEF IInv, Regress
  <1>7. CallbacksNeverBlock'
    BY <1>1 DEF IInv, CallbacksNeverBlock, Source
  <1> QED
    BY <1>2, <1>3, <1>5, <1>6, <1>7, Types DEF IInv

\* The client keeps the invariant: it holds a frame only of a sink that is marked.
LEMMA ClientKeeps ==
    ASSUME IInv, ClientStep
    PROVE  IInv'
  <1>1. /\ sink \in Queues(SinkBufs) /\ marked \in BOOLEAN /\ stop \in BOOLEAN
        /\ SinkBufs \in Nat /\ SinkBufs \in 0 .. SinkBufs
    BY Types, CountsAssumption DEF IInv, DevTypes, CtlTypes
  <1>2. /\ sink.queued \in Nat /\ sink.done \in Nat
        /\ sink.queued + sink.done + Held <= SinkBufs
    BY <1>1, QueueFields DEF IInv, Bounded
  <1>3. client # "gone" => ~stop /\ pc \notin {"stopbridges", "stopcontrols", "done"}
    BY <1>1 DEF IInv, Regress, Stopping
  <1>4. /\ client \in {"waiting", "holding"} => marked
        /\ ~sink.on => sink.done = 0 /\ client # "holding"
        /\ ~marked => ~sink.on
    BY <1>1 DEF IInv, Bounded
  <1>5. CASE AskNext
    <2>1. /\ client = "away" /\ client' = "waiting" /\ marked' = TRUE
          /\ UNCHANGED stop /\ StreamSteady
          /\ sink' = sink \/ sink' = Started(SinkBufs)
      BY <1>5 DEF AskNext
    <2>2. Held = 0 /\ Held' = 0
      BY <2>1 DEF Held
    <2>3. /\ Started(SinkBufs) \in Queues(SinkBufs) /\ Started(SinkBufs).queued = SinkBufs
          /\ Started(SinkBufs).done = 0 /\ Started(SinkBufs).on
      BY <1>1, NewQueues
    <2>4. /\ sink' \in Queues(SinkBufs) /\ sink'.queued + sink'.done + Held' <= SinkBufs
          /\ ~sink'.on => sink'.done = 0
      BY <1>1, <1>2, <1>4, <2>1, <2>2, <2>3
    <2> QED
      BY <1>1, <1>3, <2>1, <2>4, ClientMoves
  <1>6. CASE GetFrame
    <2>1. /\ client = "waiting" /\ client' = "holding" /\ sink' = Take(sink) /\ sink.done > 0
          /\ UNCHANGED <<stop, marked>> /\ StreamSteady
      BY <1>6 DEF GetFrame
    <2>2. Held = 0 /\ Held' = 1
      BY <2>1 DEF Held
    <2>3. /\ Take(sink) \in Queues(SinkBufs) /\ Take(sink).queued = sink.queued
          /\ Take(sink).done = sink.done - 1 /\ Take(sink).on = sink.on
      BY <1>1, <1>2, <2>1, <2>2, MovedQueues
    <2>4. /\ sink' \in Queues(SinkBufs) /\ sink'.queued + sink'.done + Held' <= SinkBufs
          /\ sink'.on
      BY <1>1, <1>2, <1>4, <2>1, <2>2, <2>3
    <2> QED
      BY <1>1, <1>3, <1>4, <2>1, <2>4, ClientMoves
  <1>7. CASE ReleaseFrame
    <2>1. /\ client = "holding" /\ client' = "away" /\ sink' = Give(sink)
          /\ UNCHANGED <<stop, marked>> /\ StreamSteady
      BY <1>7 DEF ReleaseFrame
    <2>2. Held = 1 /\ Held' = 0
      BY <2>1 DEF Held
    <2>3. sink.queued + sink.done < SinkBufs
      BY <1>1, <1>2, <2>2
    <2>4. /\ Give(sink) \in Queues(SinkBufs) /\ Give(sink).queued = sink.queued + 1
          /\ Give(sink).done = sink.done /\ Give(sink).on = sink.on
      BY <1>1, <1>2, <2>3, MovedQueues
    <2>5. /\ sink' \in Queues(SinkBufs) /\ sink'.queued + sink'.done + Held' <= SinkBufs
          /\ sink'.on
      BY <1>1, <1>2, <1>4, <2>1, <2>2, <2>3, <2>4
    <2> QED
      BY <1>1, <1>3, <1>4, <2>1, <2>5, ClientMoves
  <1>8. CASE Quit \/ NextThrows
    <2>1. /\ client \in {"away", "waiting"} /\ client' = "gone" /\ stop' = TRUE
          /\ UNCHANGED <<sink, marked>> /\ StreamSteady
      BY <1>8 DEF Quit, NextThrows, Gone
    <2>2. Held = 0 /\ Held' = 0
      BY <2>1 DEF Held
    <2> QED
      BY <1>1, <1>2, <1>3, <1>4, <2>1, <2>2, ClientMoves
  <1>9. CASE NextStartThrows
    <2>1. /\ client = "away" /\ client' = "gone" /\ stop' = TRUE /\ ~marked
          /\ marked' = marked /\ StreamSteady
      BY <1>9 DEF NextStartThrows
    <2>2. PICK n \in 0 .. SinkBufs : sink' = Idle(n)
      BY <1>9 DEF NextStartThrows
    <2>3. /\ sink' \in Queues(SinkBufs) /\ ~sink'.on /\ sink'.done = 0
          /\ sink'.queued + sink'.done + Held' <= SinkBufs
      BY <1>1, <2>1, <2>2, NewQueues DEF Held
    <2> QED
      BY <1>1, <1>3, <2>1, <2>3, ClientMoves
  <1> QED
    BY <1>5, <1>6, <1>7, <1>8, <1>9 DEF ClientStep

-----------------------------------------------------------------------------
\* A callback that loses nothing and takes nothing from another event's queue.
LEMMA CallbackKeeps ==
    ASSUME IInv, pc = "dispatch", NEW e \in ready, Served(e), DevTypes', Bounded',
           \A b \in B : WholeBridge(b) => WholeBridge(b)',
           \A c \in C : WholeControl(c) => WholeControl(c)',
           \A f \in Events \ {e} : Source(f).on /\ Source(f).done > 0
                                    => Source(f)'.on /\ Source(f)'.done > 0
    PROVE  IInv'
  <1>1. /\ ready' = ready \ {e} /\ pc' \in {"check", "dispatch"}
        /\ UNCHANGED <<k, sink, marked, client, stop, runs>>
    BY DEF Served
  <1>2. CtlTypes'
    BY <1>1, Types DEF IInv, CtlTypes, Loop
  <1>3. Progress'
    BY <1>1 DEF IInv, Progress, Loop
  <1>4. Regress'
    BY <1>1 DEF IInv, Regress, Stopping
  <1>5. CallbacksNeverBlock'
    BY <1>1, Types DEF IInv, CtlTypes, CallbacksNeverBlock
  <1> QED
    BY <1>2, <1>3, <1>4, <1>5, Types DEF IInv

\* Such a callback of bridge b, which moves its buffers to the queues p and r.
LEMMA BridgeCallback ==
    ASSUME IInv, pc = "dispatch", NEW e \in ready, Served(e), UNCHANGED stats,
           NEW b \in B, NEW p \in Queues(Bufs), NEW r \in Queues(Bufs),
           cap' = [cap EXCEPT ![b] = p], out' = [out EXCEPT ![b] = r],
           p.on = cap[b].on, r.on = out[b].on,
           p.queued + p.done + r.queued + r.done
             = cap[b].queued + cap[b].done + out[b].queued + out[b].done,
           out[b].on,
           e = <<"read", b>> \/ p.done = cap[b].done,
           e = <<"write", b>> \/ r.done = out[b].done
    PROVE  IInv'
  <1>1. UNCHANGED <<sink, marked, client>>
    BY DEF Served
  <1>2. DevTypes
    BY Types DEF IInv
  <1>3. /\ DevTypes' /\ cap'[b] = p /\ out'[b] = r
        /\ \A x \in B \ {b} : cap'[x] = cap[x] /\ out'[x] = out[x]
        /\ \A x \in B \ {b} : WholeBridge(x)' <=> WholeBridge(x)
        /\ \A c \in C : WholeControl(c)' <=> WholeControl(c)
    BY <1>1, <1>2, BridgeUpdate
  <1>4. WholeBridge(b) => WholeBridge(b)'
    BY <1>3 DEF WholeBridge
  <1>5. Bounded'
    <2>1. /\ p.queued + p.done + r.queued + r.done <= Bufs
          /\ r.on
      <3>1. cap[b].queued + cap[b].done + out[b].queued + out[b].done <= Bufs
        BY OneBridge
      <3> QED
        BY <3>1
    <2>2. Held' = Held
      BY <1>1 DEF Held
    <2> QED
      BY <1>1, <1>3, <2>1, <2>2 DEF IInv, Bounded
  <1>6. ASSUME NEW f \in Events \ {e}, Source(f).on, Source(f).done > 0
        PROVE  Source(f)'.on /\ Source(f)'.done > 0
    <2>1. CASE \E x \in B : f = <<"read", x>>
      <3>1. PICK x \in B : f = <<"read", x>>
        BY <2>1
      <3>2. Source(f) = cap[x] /\ Source(f)' = cap'[x]
        BY <3>1 DEF Source
      <3>3. cap[x].on /\ cap[x].done > 0
        BY <1>6, <3>2
      <3>4. CASE x = b
        <4>1. p.done = cap[b].done /\ p.on = cap[b].on
          BY <1>6, <3>1, <3>4
        <4>2. p.on /\ p.done > 0 /\ cap'[x] = p
          BY <1>3, <3>3, <3>4, <4>1
        <4> QED
          BY <3>2, <4>2
      <3>5. CASE x # b
        BY <1>3, <1>6, <3>2, <3>5
      <3> QED
        BY <3>4, <3>5
    <2>2. CASE \E x \in B : f = <<"write", x>>
      <3>1. PICK x \in B : f = <<"write", x>>
        BY <2>2
      <3>2. Source(f) = out[x] /\ Source(f)' = out'[x]
        BY <3>1 DEF Source
      <3>3. out[x].on /\ out[x].done > 0
        BY <1>6, <3>2
      <3>4. CASE x = b
        <4>1. r.done = out[b].done /\ r.on = out[b].on
          BY <1>6, <3>1, <3>4
        <4>2. r.on /\ r.done > 0 /\ out'[x] = r
          BY <1>3, <3>3, <3>4, <4>1
        <4> QED
          BY <3>2, <4>2
      <3>5. CASE x # b
        BY <1>3, <1>6, <3>2, <3>5
      <3> QED
        BY <3>4, <3>5
    <2>3. CASE \E c \in C : f = <<"stats", c>>
      <3>1. PICK c \in C : f = <<"stats", c>>
        BY <2>3
      <3>2. Source(f) = stats[c] /\ Source(f)' = stats[c]
        BY <3>1 DEF Source
      <3> QED
        BY <1>6, <3>2
    <2> QED
      BY <2>1, <2>2, <2>3, EventShape
  <1> QED
    BY <1>3, <1>4, <1>5, <1>6, CallbackKeeps

\* ProcessRead moves a buffer from the capture to the output device.
LEMMA ProcessReadStep ==
    ASSUME IInv, NEW b \in B, ProcessRead(b)
    PROVE  IInv'
  <1> DEFINE e == <<"read", b>>
  <1>1. /\ pc = "dispatch" /\ e \in ready /\ Served(e) /\ UNCHANGED stats
        /\ cap[b].done > 0
        /\ cap' = [cap EXCEPT ![b] = Take(cap[b])]
        /\ out' = [out EXCEPT ![b] = Give(out[b])]
    BY DEF ProcessRead, NextEvent
  <1>2. cap[b].on /\ out[b].on
    BY <1>1 DEF IInv, Progress, WholeBridge, Loop
  <1>3. /\ cap[b].queued + cap[b].done <= Bufs /\ out[b].queued + out[b].done < Bufs
    BY <1>1, OneBridge
  <1>4. /\ Take(cap[b]) \in Queues(Bufs) /\ Take(cap[b]).on = cap[b].on
        /\ Take(cap[b]).queued = cap[b].queued /\ Take(cap[b]).done = cap[b].done - 1
    BY <1>1, <1>3, OneBridge, MovedQueues
  <1>5. /\ Give(out[b]) \in Queues(Bufs) /\ Give(out[b]).on = out[b].on
        /\ Give(out[b]).queued = out[b].queued + 1 /\ Give(out[b]).done = out[b].done
    BY <1>3, OneBridge, MovedQueues
  <1>6. Take(cap[b]).queued + Take(cap[b]).done + Give(out[b]).queued + Give(out[b]).done
          = cap[b].queued + cap[b].done + out[b].queued + out[b].done
    BY <1>4, <1>5, OneBridge
  <1> HIDE DEF e
  <1>7. e = <<"read", b>>
    BY DEF e
  <1> QED
    BY <1>1, <1>2, <1>4, <1>5, <1>6, <1>7, BridgeCallback

\* ProcessWrite moves one back.
LEMMA ProcessWriteStep ==
    ASSUME IInv, NEW b \in B, ProcessWrite(b)
    PROVE  IInv'
  <1> DEFINE e == <<"write", b>>
  <1>1. /\ pc = "dispatch" /\ e \in ready /\ Served(e) /\ UNCHANGED stats
        /\ out[b].done > 0
        /\ out' = [out EXCEPT ![b] = Take(out[b])]
        /\ cap' = [cap EXCEPT ![b] = Give(cap[b])]
    BY DEF ProcessWrite, NextEvent
  <1>2. cap[b].on /\ out[b].on
    BY <1>1 DEF IInv, Progress, WholeBridge, Loop
  <1>3. /\ out[b].queued + out[b].done <= Bufs /\ cap[b].queued + cap[b].done < Bufs
    BY <1>1, OneBridge
  <1>4. /\ Take(out[b]) \in Queues(Bufs) /\ Take(out[b]).on = out[b].on
        /\ Take(out[b]).queued = out[b].queued /\ Take(out[b]).done = out[b].done - 1
    BY <1>1, <1>3, OneBridge, MovedQueues
  <1>5. /\ Give(cap[b]) \in Queues(Bufs) /\ Give(cap[b]).on = cap[b].on
        /\ Give(cap[b]).queued = cap[b].queued + 1 /\ Give(cap[b]).done = cap[b].done
    BY <1>3, OneBridge, MovedQueues
  <1>6. Give(cap[b]).queued + Give(cap[b]).done + Take(out[b]).queued + Take(out[b]).done
          = cap[b].queued + cap[b].done + out[b].queued + out[b].done
    BY <1>4, <1>5, OneBridge
  <1> HIDE DEF e
  <1>7. e = <<"write", b>>
    BY DEF e
  <1> QED
    BY <1>1, <1>2, <1>4, <1>5, <1>6, <1>7, BridgeCallback

\* ProcessStats gives the buffer back that it takes.
LEMMA ProcessStatsStep ==
    ASSUME IInv, NEW c \in C, ProcessStats(c)
    PROVE  IInv'
  <1> DEFINE e == <<"stats", c>>
             p == Give(Take(stats[c]))
  <1>1. /\ pc = "dispatch" /\ e \in ready /\ Served(e) /\ UNCHANGED <<cap, out>>
        /\ stats[c].done > 0 /\ stats' = [stats EXCEPT ![c] = p]
    BY DEF ProcessStats, NextEvent
  <1>2. UNCHANGED <<sink, marked, client>>
    BY <1>1 DEF Served
  <1>3. /\ p \in Queues(SinkBufs) /\ p.on = stats[c].on
        /\ p.queued = stats[c].queued + 1 /\ p.done = stats[c].done - 1
    BY <1>1, OneControl, MovedQueues
  <1>4. p.queued + p.done = stats[c].queued + stats[c].done
    BY <1>3, OneControl
  <1> HIDE DEF p
  <1>5. /\ DevTypes' /\ stats'[c] = p
        /\ \A x \in C \ {c} : stats'[x] = stats[x]
        /\ \A x \in C \ {c} : WholeControl(x)' <=> WholeControl(x)
        /\ \A b \in B : WholeBridge(b)' <=> WholeBridge(b)
    BY <1>1, <1>2, <1>3, Types, ControlUpdate DEF IInv
  <1>6. WholeControl(c) => WholeControl(c)'
    BY <1>3, <1>4, <1>5 DEF WholeControl
  <1>7. Bounded'
    BY <1>1, <1>2, <1>4, <1>5, OneControl DEF IInv, Bounded, Held
  <1>8. ASSUME NEW f \in Events \ {e}, Source(f).on, Source(f).done > 0
        PROVE  Source(f)'.on /\ Source(f)'.done > 0
    <2>1. CASE \E x \in B : f = <<"read", x>> \/ f = <<"write", x>>
      <3>1. PICK x \in B : f = <<"read", x>> \/ f = <<"write", x>>
        BY <2>1
      <3>2. Source(f)' = Source(f)
        BY <1>1, <3>1 DEF Source
      <3> QED
        BY <1>8, <3>2
    <2>2. CASE \E x \in C : f = <<"stats", x>>
      <3>1. PICK x \in C : f = <<"stats", x>>
        BY <2>2
      <3>2. Source(f) = stats[x] /\ Source(f)' = stats'[x] /\ x # c
        BY <1>8, <3>1 DEF Source
      <3> QED
        BY <1>5, <1>8, <3>2
    <2> QED
      BY <2>1, <2>2, EventShape
  <1> HIDE DEF e
  <1> QED
    BY <1>1, <1>5, <1>6, <1>7, <1>8, CallbackKeeps

\* An exception in the loop loses at most the buffer in hand.
LEMMA LoopThrowsStep ==
    ASSUME IInv, LoopThrows
    PROVE  IInv'
  <1>1. /\ pc \in {"poll", "dispatch"} /\ pc' = "threw" /\ ready' \in SUBSET Events
        /\ k' \in 1 .. (Bridges + Controls + 1)
        /\ UNCHANGED <<client, stop, runs, sink, marked>>
    BY Types DEF LoopThrows, IInv, CtlTypes
  <1>2. CASE UNCHANGED <<cap, out, stats>>
    BY <1>1, <1>2, JustThrown DEF devices
  <1>3. ASSUME NEW b \in B, cap[b].done > 0, cap' = [cap EXCEPT ![b] = Take(cap[b])],
               UNCHANGED <<out, stats>>
        PROVE  IInv'
    <2>1. /\ Take(cap[b]) \in Queues(Bufs)
          /\ Take(cap[b]).queued = cap[b].queued /\ Take(cap[b]).done = cap[b].done - 1
      BY <1>3, OneBridge, MovedQueues
    <2>2. Take(cap[b]).queued + Take(cap[b]).done + out[b].queued + out[b].done <= Bufs
      BY <2>1, OneBridge
    <2> QED
      BY <1>1, <1>3, <2>1, <2>2, OneBridge, BridgeThrown
  <1>4. ASSUME NEW b \in B, out[b].done > 0, out' = [out EXCEPT ![b] = Take(out[b])],
               UNCHANGED <<cap, stats>>
        PROVE  IInv'
    <2>1. /\ Take(out[b]) \in Queues(Bufs) /\ Take(out[b]).on = out[b].on
          /\ Take(out[b]).queued = out[b].queued /\ Take(out[b]).done = out[b].done - 1
      BY <1>4, OneBridge, MovedQueues
    <2>2. cap[b].queued + cap[b].done + Take(out[b]).queued + Take(out[b]).done <= Bufs
      BY <2>1, OneBridge
    <2>3. out[b].on
      BY <1>4, OneBridge
    <2> QED
      BY <1>1, <1>4, <2>1, <2>2, <2>3, OneBridge, BridgeThrown
  <1>5. ASSUME NEW c \in C, stats[c].done > 0,
               stats' = [stats EXCEPT ![c] = Give(Take(stats[c]))], UNCHANGED <<cap, out>>
        PROVE  IInv'
    <2>1. /\ Give(Take(stats[c])) \in Queues(SinkBufs)
          /\ Give(Take(stats[c])).queued = stats[c].queued + 1
          /\ Give(Take(stats[c])).done = stats[c].done - 1
      BY <1>5, OneControl, MovedQueues
    <2>2. Give(Take(stats[c])).queued + Give(Take(stats[c])).done <= SinkBufs
      BY <2>1, OneControl
    <2> QED
      BY <1>1, <1>5, <2>1, <2>2, ControlThrown
  <1> QED
    BY <1>2, <1>3, <1>4, <1>5 DEF LoopThrows

\* Every step keeps the invariant.
LEMMA NextIInv == IInv /\ [Next]_vars => IInv'
  <1> SUFFICES ASSUME IInv, [Next]_vars PROVE IInv'
    OBVIOUS
  <1>1. CASE \/ Begin \/ ControlsStarted \/ BridgesStarted \/ CheckStop
             \/ BridgesStopped \/ ControlsStopped
    BY <1>1, ControlStep
  <1>2. CASE StartControl \/ StartBridge \/ BridgeStartThrows \/ ControlStartThrows
    BY <1>2, StartControlStep, StartBridgeStep, BridgeStartThrowsStep, ControlStartThrowsStep
  <1>3. CASE Destroy \/ Poll \/ LoopThrows
    BY <1>3, DestroyStep, PollStep, LoopThrowsStep
  <1>4. CASE StopSink \/ StopBridge \/ StopControl \/ StopThrows
    BY <1>4, StopSinkStep, StopBridgeStep, StopControlStep, StopThrowsStep
  <1>5. CASE Callback
    BY <1>5, ProcessReadStep, ProcessWriteStep, ProcessStatsStep DEF Callback
  <1>6. CASE ClientStep
    BY <1>6, ClientKeeps
  <1>7. CASE DeviceStep
    BY <1>7, ConvertStep, MeasureStep DEF DeviceStep
  <1>8. CASE UNCHANGED vars
    <2>1. UNCHANGED devices /\ UNCHANGED <<pc, k, ready, client, stop, runs>>
      BY <1>8 DEF vars
    <2>2. TypeOK'
      BY <2>1, Types, DevicesSame DEF IInv, CtlTypes
    <2>3. Bounded'
      BY <2>1, DevicesSame DEF IInv, Bounded, Held
    <2>4. Progress' /\ Regress'
      BY <2>1, DevicesSame DEF IInv, Progress, Regress
    <2>5. CallbacksNeverBlock'
      BY <2>1, DevicesSame DEF IInv, CallbacksNeverBlock, Source
    <2> QED
      BY <2>2, <2>3, <2>4, <2>5 DEF IInv
  <1> QED
    BY <1>1, <1>2, <1>3, <1>4, <1>5, <1>6, <1>7, <1>8 DEF Next, ThreadStep

\* IInv is an invariant of the pipeline thread, its client and its devices.
THEOREM PipelineInvariant == Spec => []IInv
  BY InitIInv, NextIInv, PTL DEF Spec

\* The variables of PipelineImpl::Start keep their types.
THEOREM PipelineTypeCorrect == Spec => []TypeOK
  <1>1. IInv => TypeOK
    BY DEF IInv
  <1> QED
    BY <1>1, PipelineInvariant, PTL

\* ProcessRead, ProcessWrite and ProcessStats never block in their blocking DQBUF,
\* whatever runs between poll and them.
THEOREM PipelineNeverBlocks == Spec => []CallbacksNeverBlock
  <1>1. IInv => CallbacksNeverBlock
    BY DEF IInv
  <1> QED
    BY <1>1, PipelineInvariant, PTL

\* The poll loop runs over a whole pipeline or not at all, and loses no buffer.
THEOREM PipelineRunsWhole == Spec => []LoopRunsWhole
  <1>1. IInv => LoopRunsWhole
    BY DEF IInv, Progress, LoopRunsWhole, WholeBridge, WholeControl
  <1> QED
    BY <1>1, PipelineInvariant, PTL

\* Start returns only when everything it started is off again.
THEOREM PipelineDoneIsOff == Spec => []DoneIsOff
  <1>1. IInv => DoneIsOff
    BY DEF IInv, Bounded, Regress, DoneIsOff
  <1> QED
    BY <1>1, PipelineInvariant, PTL

\* All on while the loop runs, all off when it has come to its end.
THEOREM PipelineWholeOrOff == Spec => []WholeOrOff
  BY PipelineRunsWhole, PipelineDoneIsOff, PTL DEF WholeOrOff

-----------------------------------------------------------------------------
(***************************************************************************)
(* Each bridge as the loop uses it implements Relay                        *)
(***************************************************************************)

\* A step as one bridge sees it.
RelayStep(b) == [Relays(b)!Next]_(Relays(b)!vars)

\* Relay's queues are those of Pipeline.
LEMMA RelayQueues ==
    ASSUME NEW b \in B
    PROVE  /\ Relays(b)!Off = Off
           /\ \A n : Relays(b)!Started(n) = Started(n) /\ Relays(b)!Idle(n) = Idle(n)
           /\ \A q : /\ Relays(b)!CanFinish(q) <=> CanFinish(q)
                     /\ Relays(b)!Finish(q) = Finish(q)
                     /\ Relays(b)!Take(q) = Take(q) /\ Relays(b)!Give(q) = Give(q)
  BY DEF Relays!Off, Relays!Started, Relays!Idle, Relays!CanFinish, Relays!Finish,
         Relays!Take, Relays!Give, Off, Started, Idle, CanFinish, Finish, Take, Give

\* The steps of Relay, in terms of Pipeline.
LEMMA RelayStarts ==
    ASSUME NEW b \in B, ~Running(b), ~cap[b].on, out[b] = Off,
           cap'[b] = Started(Bufs), out'[b] = Started(0), Running(b)'
    PROVE  RelayStep(b)
  <1>1. Bufs \in 1 .. Bufs
    BY CountsAssumption
  <1>2. Relays(b)!Start
    BY <1>1, RelayQueues DEF Relays!Start, Running
  <1> QED
    BY <1>2 DEF RelayStep, Relays!Next

LEMMA RelayStutters ==
    ASSUME NEW b \in B, cap'[b] = cap[b], out'[b] = out[b], Running(b)' <=> Running(b)
    PROVE  RelayStep(b)
  BY DEF RelayStep, Relays!vars, Running

LEMMA RelayPrepares ==
    ASSUME NEW b \in B, ~Running(b), ~Running(b)', ~cap[b].on,
           \/ cap'[b] = Off /\ out'[b] = out[b]
           \/ /\ out[b] = Off /\ out'[b] \in {Off, Started(0)}
              /\ \E n \in 0 .. Bufs : cap'[b] = Idle(n)
    PROVE  RelayStep(b)
  <1>1. Relays(b)!Prepare
    BY RelayQueues DEF Relays!Prepare, Running
  <1> QED
    BY <1>1 DEF RelayStep, Relays!Next

LEMMA RelayDevices ==
    ASSUME NEW b \in B, Running(b)' <=> Running(b),
           \/ CanFinish(cap[b]) /\ cap'[b] = Finish(cap[b]) /\ out'[b] = out[b]
           \/ CanFinish(out[b]) /\ out'[b] = Finish(out[b]) /\ cap'[b] = cap[b]
    PROVE  RelayStep(b)
  <1>1. Relays(b)!Fill \/ Relays(b)!Drain
    BY RelayQueues DEF Relays!Fill, Relays!Drain, Running
  <1> QED
    BY <1>1 DEF RelayStep, Relays!Next

LEMMA RelayCallbacks ==
    ASSUME NEW b \in B, Running(b), Running(b)',
           \/ cap[b].done > 0 /\ cap'[b] = Take(cap[b]) /\ out'[b] = Give(out[b])
           \/ out[b].done > 0 /\ out'[b] = Take(out[b]) /\ cap'[b] = Give(cap[b])
    PROVE  RelayStep(b)
  <1>1. Relays(b)!Forward \/ Relays(b)!Recycle
    BY RelayQueues DEF Relays!Forward, Relays!Recycle, Running
  <1> QED
    BY <1>1 DEF RelayStep, Relays!Next

LEMMA RelayFails ==
    ASSUME NEW b \in B, Running(b), ~Running(b)',
           \/ cap'[b] = cap[b] /\ out'[b] = out[b]
           \/ cap[b].done > 0 /\ cap'[b] = Take(cap[b]) /\ out'[b] = out[b]
           \/ out[b].done > 0 /\ out'[b] = Take(out[b]) /\ cap'[b] = cap[b]
    PROVE  RelayStep(b)
  <1>1. Relays(b)!Fail
    BY RelayQueues DEF Relays!Fail, Running
  <1> QED
    BY <1>1 DEF RelayStep, Relays!Next

LEMMA RelayStops ==
    ASSUME NEW b \in B, ~Running(b)', cap'[b] = Off, out'[b] \in {out[b], Off}
    PROVE  RelayStep(b)
  <1>1. Relays(b)!Stop
    BY RelayQueues DEF Relays!Stop, Running
  <1> QED
    BY <1>1 DEF RelayStep, Relays!Next

\* What changes no queue of a bridge, nor whether it runs, is nothing to Relay.
LEMMA OtherSteps ==
    ASSUME IInv, NEW b \in B,
           \/ Begin \/ ControlsStarted \/ BridgesStarted \/ CheckStop \/ StartControl
           \/ ControlStartThrows \/ Poll \/ StopSink \/ BridgesStopped \/ StopControl
           \/ ControlsStopped \/ ClientStep \/ (\E c \in C : ProcessStats(c) \/ Measure(c))
           \/ UNCHANGED vars
    PROVE  RelayStep(b)
  <1>1. b \in 1 .. Bridges /\ Bridges \in Nat /\ k \in Nat
    BY CountsAssumption DEF IInv, TypeOK, B
  <1> DEFINE Quiet == UNCHANGED <<cap, out>> /\ (Running(b)' <=> Running(b))
  <1>2. CASE Begin \/ ControlsStarted \/ BridgesStarted \/ CheckStop \/ StartControl
             \/ ControlStartThrows \/ Poll
    <2>1. Quiet
      BY <1>1, <1>2 DEF Begin, ControlsStarted, BridgesStarted, CheckStop, StartControl,
            ControlStartThrows, Poll, devices, Running, Loop
    <2> QED BY <2>1, RelayStutters
  <1>3. CASE StopSink \/ BridgesStopped \/ StopControl \/ ControlsStopped
    <2>1. Quiet
      BY <1>1, <1>3 DEF StopSink, BridgesStopped, StopControl, ControlsStopped, devices,
            Running, Loop
    <2> QED BY <2>1, RelayStutters
  <1>4. CASE ClientStep \/ UNCHANGED vars
    <2>1. Quiet
      BY <1>4 DEF ClientStep, AskNext, GetFrame, ReleaseFrame, Quit, NextStartThrows,
            NextThrows, Gone, StreamSteady, vars, devices, Running
    <2> QED BY <2>1, RelayStutters
  <1>5. ASSUME NEW c \in C, ProcessStats(c) \/ Measure(c)
        PROVE  RelayStep(b)
    <2>1. Quiet
      BY <1>5 DEF ProcessStats, Measure, NextEvent, Served, Running, Loop
    <2> QED BY <2>1, RelayStutters
  <1> QED BY <1>2, <1>3, <1>4, <1>5

\* A start of one bridge, or its failure; the others stutter or fail.
LEMMA StartSteps ==
    ASSUME IInv, NEW b \in B, StartBridge \/ BridgeStartThrows
    PROVE  RelayStep(b)
  <1>1. b \in Nat /\ k \in B /\ k \in Nat /\ pc = "bridges"
    BY CountsAssumption DEF StartBridge, BridgeStartThrows, B
  <1>2. cap = [x \in B |-> cap[x]] /\ out = [x \in B |-> out[x]]
    BY DEF IInv, TypeOK
  <1>3. CASE StartBridge /\ b = k
    <2>1. ~cap[b].on /\ out[b] = Off
      BY <1>3, OneBridge DEF StartBridge
    <2>2. cap'[b] = Started(Bufs) /\ out'[b] = Started(0)
      BY <1>2, <1>3 DEF StartBridge
    <2>3. ~Running(b) /\ Running(b)'
      BY <1>1, <1>3 DEF StartBridge, Running, Loop
    <2> QED BY <2>1, <2>2, <2>3, RelayStarts
  <1>4. CASE StartBridge /\ b # k
    <2>1. cap'[b] = cap[b] /\ out'[b] = out[b]
      BY <1>2, <1>4 DEF StartBridge
    <2>2. Running(b)' <=> Running(b)
      BY <1>1, <1>4 DEF StartBridge, Running, Loop
    <2> QED BY <2>1, <2>2, RelayStutters
  <1>5. CASE BridgeStartThrows
    <2>1. ~Running(b)' /\ (Running(b) <=> b < k)
      BY <1>1, <1>5 DEF BridgeStartThrows, Running, Loop
    <2>2. CASE b # k
      <3>1. cap'[b] = cap[b] /\ out'[b] = out[b]
        BY <1>2, <1>5, <2>2 DEF BridgeStartThrows
      <3> QED BY <2>1, <3>1, RelayStutters, RelayFails
    <2>3. CASE b = k /\ UNCHANGED <<cap, out>>
      <3>1. ~Running(b)
        BY <1>1, <2>1, <2>3
      <3> QED BY <2>1, <2>3, <3>1, RelayStutters
    <2>4. CASE b = k /\ ~ UNCHANGED <<cap, out>>
      <3>1. ~Running(b) /\ ~cap[b].on
        BY <1>1, <1>5, <2>1, <2>4 DEF BridgeStartThrows
      <3>2. CASE out[b].on
        <4>1. cap'[b] = Off /\ out'[b] = out[b]
          BY <1>2, <1>5, <2>4, <3>2 DEF BridgeStartThrows
        <4> QED BY <2>1, <3>1, <4>1, RelayPrepares
      <3>3. CASE ~out[b].on
        <4>1. out[b] = Off
          BY <3>3, OneBridge
        <4>2. /\ out'[b] \in {out[b], Started(0)}
              /\ \E n \in 0 .. Bufs : cap'[b] = Idle(n)
          BY <1>2, <1>5, <2>4, <3>1, <3>3 DEF BridgeStartThrows
        <4> QED BY <2>1, <3>1, <4>1, <4>2, RelayPrepares
      <3> QED BY <3>2, <3>3
    <2> QED BY <2>2, <2>3, <2>4
  <1> QED BY <1>3, <1>4, <1>5

\* The callbacks of one bridge, the others' queues stay.
LEMMA CallbackSteps ==
    ASSUME IInv, NEW b \in B, NEW x \in B, ProcessRead(x) \/ ProcessWrite(x)
    PROVE  RelayStep(b)
  <1>1. Running(b) /\ Running(b)'
    BY DEF ProcessRead, ProcessWrite, NextEvent, Served, Running, Loop
  <1>2. cap = [y \in B |-> cap[y]] /\ out = [y \in B |-> out[y]]
    BY DEF IInv, TypeOK
  <1>3. CASE b = x
    <2>1. \/ cap[b].done > 0 /\ cap'[b] = Take(cap[b]) /\ out'[b] = Give(out[b])
          \/ out[b].done > 0 /\ out'[b] = Take(out[b]) /\ cap'[b] = Give(cap[b])
      BY <1>2, <1>3 DEF ProcessRead, ProcessWrite
    <2> QED BY <1>1, <2>1, RelayCallbacks
  <1>4. CASE b # x
    <2>1. cap'[b] = cap[b] /\ out'[b] = out[b]
      BY <1>2, <1>4 DEF ProcessRead, ProcessWrite
    <2> QED BY <1>1, <2>1, RelayStutters
  <1> QED BY <1>3, <1>4

\* An exception of the loop ends the run of all bridges.
LEMMA LoopThrowsRelay ==
    ASSUME IInv, NEW b \in B, LoopThrows
    PROVE  RelayStep(b)
  <1>1. Running(b) /\ ~Running(b)'
    BY DEF LoopThrows, Running, Loop
  <1>2. cap = [y \in B |-> cap[y]] /\ out = [y \in B |-> out[y]]
    BY DEF IInv, TypeOK
  <1>3. \/ cap'[b] = cap[b] /\ out'[b] = out[b]
        \/ cap[b].done > 0 /\ cap'[b] = Take(cap[b]) /\ out'[b] = out[b]
        \/ out[b].done > 0 /\ out'[b] = Take(out[b]) /\ cap'[b] = cap[b]
    <2>1. CASE UNCHANGED <<cap, out>>
      BY <2>1
    <2>2. ASSUME NEW x \in B, cap[x].done > 0, cap' = [cap EXCEPT ![x] = Take(@)], UNCHANGED out
          PROVE  <1>3!1 \/ <1>3!2
      BY <1>2, <2>2
    <2>3. ASSUME NEW x \in B, out[x].done > 0, out' = [out EXCEPT ![x] = Take(@)], UNCHANGED cap
          PROVE  <1>3!1 \/ <1>3!3
      BY <1>2, <2>3
    <2> QED BY <2>1, <2>2, <2>3 DEF LoopThrows
  <1> QED BY <1>1, <1>3, RelayFails

\* The devices of a bridge move its buffers within their queues.
LEMMA ConvertRelay ==
    ASSUME IInv, NEW b \in B, NEW d \in 1 .. Bridges + 1, Convert(d)
    PROVE  RelayStep(b)
  <1>1. Running(b)' <=> Running(b)
    BY DEF Convert, Running
  <1>2. /\ cap = [y \in B |-> cap[y]] /\ out = [y \in B |-> out[y]]
        /\ d \in Nat /\ b \in Nat /\ Bridges \in Nat
    BY CountsAssumption DEF IInv, TypeOK, B
  <1>3. CASE b = d
    <2>1. CanFinish(cap[b]) /\ cap'[b] = Finish(cap[b])
      BY <1>2, <1>3 DEF Convert
    <2>2. out'[b] = out[b]
      BY <1>2, <1>3 DEF Convert
    <2> QED BY <1>1, <2>1, <2>2, RelayDevices
  <1>4. CASE b # d
    <2>1. cap'[b] = cap[b]
      BY <1>2, <1>4 DEF Convert
    <2>2. \/ CanFinish(out[b]) /\ out'[b] = Finish(out[b])
          \/ out'[b] = out[b]
      <3>1. CASE d > 1 /\ d - 1 = b
        BY <1>2, <3>1 DEF Convert
      <3>2. CASE ~(d > 1 /\ d - 1 = b)
        BY <1>2, <3>2 DEF Convert
      <3> QED BY <3>1, <3>2
    <2> QED BY <1>1, <2>1, <2>2, RelayDevices, RelayStutters
  <1> QED BY <1>3, <1>4

\* Stops turn off the capture device, then the output device; one that throws ends
\* the run of the bridges after it, and Destroy closes all of them.
LEMMA StopSteps ==
    ASSUME IInv, NEW b \in B, StopBridge \/ StopThrows \/ Destroy
    PROVE  RelayStep(b)
  <1>1. b \in Nat /\ b \in 1 .. Bridges /\ Bridges \in Nat /\ k \in Nat
    BY CountsAssumption DEF IInv, TypeOK, B
  <1>2. cap = [y \in B |-> cap[y]] /\ out = [y \in B |-> out[y]]
    BY DEF IInv, TypeOK
  <1>3. CASE StopBridge /\ b = k
    <2>1. cap'[b] = Off /\ out'[b] = Off
      BY <1>2, <1>3 DEF StopBridge
    <2>2. ~Running(b)'
      BY <1>1, <1>3 DEF StopBridge, Running, Loop
    <2> QED BY <2>1, <2>2, RelayStops
  <1>4. CASE StopBridge /\ b # k
    <2>1. cap'[b] = cap[b] /\ out'[b] = out[b]
      BY <1>2, <1>4 DEF StopBridge
    <2>2. Running(b)' <=> Running(b)
      BY <1>1, <1>4 DEF StopBridge, Running, Loop
    <2> QED BY <2>1, <2>2, RelayStutters
  <1>5. CASE StopThrows
    <2>1. ~Running(b)'
      BY <1>5 DEF StopThrows, Running, Loop
    <2>2. \/ cap'[b] = cap[b] /\ out'[b] = out[b]
          \/ cap'[b] = Off /\ out'[b] \in {out[b], Off}
      <3>1. CASE UNCHANGED <<cap, out>>
        BY <3>1
      <3>2. ASSUME k \in B, cap' = [cap EXCEPT ![k] = Off],
                   UNCHANGED out \/ out' = [out EXCEPT ![k] = Off]
            PROVE  <2>2!1 \/ <2>2!2
        BY <1>2, <3>2
      <3> QED BY <1>5, <3>1, <3>2 DEF StopThrows, devices
    <2> QED BY <2>1, <2>2, RelayStutters, RelayFails, RelayStops
  <1>6. CASE Destroy
    <2>1. cap'[b] = Off /\ out'[b] = Off /\ ~Running(b)'
      BY <1>6 DEF Destroy, Running, Loop
    <2> QED BY <2>1, RelayStops
  <1> QED BY <1>3, <1>4, <1>5, <1>6

LEMMA RelayNext == IInv /\ [Next]_vars => \A b \in B : RelayStep(b)
  <1> SUFFICES ASSUME IInv, [Next]_vars, NEW b \in B PROVE RelayStep(b)
    OBVIOUS
  <1>1. CASE Begin \/ Destroy \/ LoopThrows \/ StopThrows \/ ClientStep \/ UNCHANGED vars
    BY <1>1, OtherSteps, LoopThrowsRelay, StopSteps
  <1>2. CASE ThreadStep
    BY <1>2, OtherSteps, StartSteps, CallbackSteps, StopSteps DEF ThreadStep, Callback
  <1>3. CASE DeviceStep
    BY <1>3, OtherSteps, ConvertRelay DEF DeviceStep
  <1> QED BY <1>1, <1>2, <1>3 DEF Next

\* Each bridge of a pipeline is what Relay promises of it, and Bridge implements.
THEOREM PipelineRelays == Spec => BridgesRelay
  <1>1. Init => \A b \in B : Relays(b)!Init
    <2> SUFFICES ASSUME Init, NEW b \in B PROVE Relays(b)!Init
      OBVIOUS
    <2>1. cap[b] = Off /\ out[b] = Off /\ ~Running(b)
      BY DEF Init, Running, Loop
    <2> QED BY <2>1, RelayQueues DEF Relays!Init, Running
  <1>2. IInv /\ [Next]_vars => \A b \in B : [Relays(b)!Next]_(Relays(b)!vars)
    BY RelayNext DEF RelayStep
  <1>3. Spec => [][\A b \in B : [Relays(b)!Next]_(Relays(b)!vars)]_vars
    BY <1>2, PipelineInvariant, PTL DEF Spec
  <1> QED BY <1>1, <1>3 DEF Spec, BridgesRelay

-----------------------------------------------------------------------------
(***************************************************************************)
(* The sink, as a session uses it, and each stream of statistics, as the   *)
(* callbacks use it, implement Supply                                      *)
(***************************************************************************)

\* Supply's queues are those of Pipeline.
LEMMA SupplyQueues ==
    /\ SinkSupply!Off = Off
    /\ \A n : SinkSupply!Started(n) = Started(n) /\ SinkSupply!Idle(n) = Idle(n)
    /\ \A x : /\ SinkSupply!CanFinish(x) <=> CanFinish(x)
              /\ SinkSupply!Finish(x) = Finish(x)
              /\ SinkSupply!Take(x) = Take(x) /\ SinkSupply!Give(x) = Give(x)
  BY DEF SinkSupply!Off, SinkSupply!Started, SinkSupply!Idle, SinkSupply!CanFinish,
         SinkSupply!Finish, SinkSupply!Take, SinkSupply!Give,
         Off, Started, Idle, CanFinish, Finish, Take, Give

LEMMA StatsQueues ==
    ASSUME NEW c \in C
    PROVE  /\ StatsSupply(c)!Off = Off
           /\ \A n : StatsSupply(c)!Started(n) = Started(n) /\ StatsSupply(c)!Idle(n) = Idle(n)
           /\ \A x : /\ StatsSupply(c)!CanFinish(x) <=> CanFinish(x)
                     /\ StatsSupply(c)!Finish(x) = Finish(x)
                     /\ StatsSupply(c)!Take(x) = Take(x) /\ StatsSupply(c)!Give(x) = Give(x)
  BY DEF StatsSupply!Off, StatsSupply!Started, StatsSupply!Idle, StatsSupply!CanFinish,
         StatsSupply!Finish, StatsSupply!Take, StatsSupply!Give,
         Off, Started, Idle, CanFinish, Finish, Take, Give

\* A step as the sink sees it, and as the stream of control c.
SinkStep == [SinkSupply!Next]_(SinkSupply!vars)
StatsStep(c) == [StatsSupply(c)!Next]_(StatsSupply(c)!vars)

\* The steps of Supply, in terms of the sink...
LEMMA SinkStutters ==
    ASSUME sink' = sink, client' = client \/ (client # "holding" /\ client' # "holding")
    PROVE  SinkStep
  BY DEF SinkStep, SinkSupply!vars

LEMMA SinkBegins ==
    ASSUME ~sink.on, client # "holding", client' # "holding",
           sink' = Started(SinkBufs) \/ \E n \in 0 .. SinkBufs : sink' = Idle(n)
    PROVE  SinkStep
  <1>1. SinkBufs \in 1 .. SinkBufs
    BY CountsAssumption
  <1>2. SinkSupply!Start \/ SinkSupply!Prepare
    BY <1>1, SupplyQueues DEF SinkSupply!Start, SinkSupply!Prepare
  <1> QED
    BY <1>2 DEF SinkStep, SinkSupply!Next

LEMMA SinkEnds ==
    ASSUME client # "holding", client' # "holding", sink' = Off
    PROVE  SinkStep
  <1>1. SinkSupply!Stop
    BY SupplyQueues DEF SinkSupply!Stop
  <1> QED
    BY <1>1 DEF SinkStep, SinkSupply!Next

\* The client lends a frame only of a sink that is on: only there is something done.
LEMMA SinkClient ==
    ASSUME IInv, ClientStep
    PROVE  SinkStep
  <1>1. /\ ~sink.on => sink.done = 0 /\ client # "holding"
        /\ ~marked => ~sink.on
    BY DEF IInv, Bounded
  <1>2. CASE AskNext
    <2>1. client # "holding" /\ client' # "holding"
      BY <1>2 DEF AskNext
    <2>2. sink' = sink \/ (~sink.on /\ sink' = Started(SinkBufs))
      BY <1>1, <1>2 DEF AskNext
    <2> QED
      BY <2>1, <2>2, SinkStutters, SinkBegins
  <1>3. CASE GetFrame
    <2>1. sink.on /\ sink.done > 0 /\ sink' = Take(sink)
          /\ client # "holding" /\ client' = "holding"
      BY <1>1, <1>3 DEF GetFrame
    <2>2. SinkSupply!Lend
      BY <2>1, SupplyQueues DEF SinkSupply!Lend
    <2> QED
      BY <2>2 DEF SinkStep, SinkSupply!Next
  <1>4. CASE ReleaseFrame
    <2>1. sink.on /\ sink' = Give(sink) /\ client = "holding" /\ client' # "holding"
      BY <1>1, <1>4 DEF ReleaseFrame
    <2>2. SinkSupply!Return
      BY <2>1, SupplyQueues DEF SinkSupply!Return
    <2> QED
      BY <2>2 DEF SinkStep, SinkSupply!Next
  <1>5. CASE Quit \/ NextThrows
    <2>1. sink' = sink /\ client # "holding" /\ client' # "holding"
      BY <1>5 DEF Quit, NextThrows, Gone
    <2> QED
      BY <2>1, SinkStutters
  <1>6. CASE NextStartThrows
    <2>1. /\ ~sink.on /\ client # "holding" /\ client' # "holding"
          /\ \E n \in 0 .. SinkBufs : sink' = Idle(n)
      BY <1>1, <1>6 DEF NextStartThrows
    <2> QED
      BY <2>1, SinkBegins
  <1> QED
    BY <1>2, <1>3, <1>4, <1>5, <1>6 DEF ClientStep

\* Whatever step is taken, the sink sees one of Supply: it is stopped only when no frame is out.
LEMMA SinkNext == IInv /\ [Next]_vars => SinkStep
  <1> SUFFICES ASSUME IInv, [Next]_vars PROVE SinkStep
    OBVIOUS
  <1>1. CASE \/ ControlsStarted \/ BridgesStarted \/ CheckStop \/ StartControl
             \/ ControlStartThrows \/ Poll \/ BridgesStopped \/ StopControl \/ ControlsStopped
    BY <1>1, SinkStutters DEF ControlsStarted, BridgesStarted, CheckStop, StartControl,
       ControlStartThrows, Poll, BridgesStopped, StopControl, ControlsStopped, devices
  <1>2. CASE Begin \/ StartBridge \/ BridgeStartThrows \/ StopBridge \/ UNCHANGED vars
    BY <1>2, SinkStutters DEF Begin, StartBridge, BridgeStartThrows, StopBridge, vars, devices
  <1>3. CASE LoopThrows \/ Callback \/ \E c \in C : Measure(c)
    BY <1>3, SinkStutters DEF LoopThrows, Callback, ProcessRead, ProcessWrite, ProcessStats,
       Served, Measure
  <1>4. CASE StopSink \/ StopThrows
    <2>1. client = "gone" /\ client' = "gone"
      BY <1>4 DEF StopSink, StopThrows, IInv, Regress, Stopping
    <2>2. sink' = sink \/ sink' = Off
      BY <1>4 DEF StopSink, StopThrows, devices
    <2> QED
      BY <2>1, <2>2, SinkStutters, SinkEnds
  <1>5. CASE Destroy
    BY <1>5, SinkEnds DEF Destroy
  <1>6. ASSUME NEW d \in 1 .. Bridges + 1, Convert(d)
        PROVE  SinkStep
    <2>1. client' = client /\ (sink' = sink \/ (CanFinish(sink) /\ sink' = Finish(sink)))
      BY <1>6 DEF Convert
    <2>2. CASE CanFinish(sink) /\ sink' = Finish(sink)
      <3>1. SinkSupply!Fill
        BY <2>1, <2>2, SupplyQueues DEF SinkSupply!Fill
      <3> QED
        BY <3>1 DEF SinkStep, SinkSupply!Next
    <2> QED
      BY <2>1, <2>2, SinkStutters
  <1>7. CASE ClientStep
    BY <1>7, SinkClient
  <1> QED
    BY <1>1, <1>2, <1>3, <1>4, <1>5, <1>6, <1>7 DEF Next, ThreadStep, DeviceStep

\* ...and of a stream of statistics.
LEMMA StatsStutters ==
    ASSUME NEW c \in C, stats'[c] = stats[c]
    PROVE  StatsStep(c)
  BY DEF StatsStep, StatsSupply!vars

LEMMA StatsMoves ==
    ASSUME NEW c \in C,
           \/ ~stats[c].on /\ stats'[c] = Started(SinkBufs)
           \/ ~stats[c].on /\ \E n \in 0 .. SinkBufs : stats'[c] = Idle(n)
           \/ CanFinish(stats[c]) /\ stats'[c] = Finish(stats[c])
           \/ stats[c].on /\ stats[c].done > 0 /\ stats'[c] = Give(Take(stats[c]))
           \/ stats'[c] = Off
    PROVE  StatsStep(c)
  <1>1. SinkBufs \in 1 .. SinkBufs
    BY CountsAssumption
  <1>2. \/ StatsSupply(c)!Start \/ StatsSupply(c)!Prepare \/ StatsSupply(c)!Fill
        \/ StatsSupply(c)!Use \/ StatsSupply(c)!Stop
    BY <1>1, StatsQueues DEF StatsSupply!Start, StatsSupply!Prepare, StatsSupply!Fill,
       StatsSupply!Use, StatsSupply!Stop
  <1> QED
    BY <1>2 DEF StatsStep, StatsSupply!Next

\* A callback, or the loop's exception in one, uses a stream that poll found something in.
LEMMA StatsUses ==
    ASSUME IInv, NEW c \in C, NEW x \in C, NextEvent(<<"stats", x>>), stats[x].done > 0,
           stats' = [stats EXCEPT ![x] = Give(Take(@))]
    PROVE  StatsStep(c)
  <1>1. stats[x].on
    BY EventShape DEF IInv, CallbacksNeverBlock, NextEvent
  <1>2. stats = [y \in C |-> stats[y]]
    BY DEF IInv, TypeOK
  <1>3. CASE c = x
    <2>1. stats'[c] = Give(Take(stats[c]))
      BY <1>2, <1>3
    <2> QED
      BY <1>1, <1>3, <2>1, StatsMoves
  <1>4. CASE c # x
    BY <1>2, <1>4, StatsStutters
  <1> QED
    BY <1>3, <1>4

\* Whatever step is taken, each stream of statistics sees one of Supply.
LEMMA StatsNext == IInv /\ [Next]_vars => \A c \in C : StatsStep(c)
  <1> SUFFICES ASSUME IInv, [Next]_vars, NEW c \in C PROVE StatsStep(c)
    OBVIOUS
  <1>1. stats = [x \in C |-> stats[x]]
    BY DEF IInv, TypeOK
  <1>2. CASE \/ ControlsStarted \/ BridgesStarted \/ CheckStop \/ StartBridge
             \/ BridgeStartThrows \/ Poll \/ BridgesStopped \/ StopBridge \/ ControlsStopped
    BY <1>2, StatsStutters DEF ControlsStarted, BridgesStarted, CheckStop, StartBridge,
       BridgeStartThrows, Poll, BridgesStopped, StopBridge, ControlsStopped, devices
  <1>3. CASE Begin \/ ClientStep \/ StopSink \/ UNCHANGED vars
    BY <1>3, StatsStutters DEF Begin, ClientStep, AskNext, GetFrame, ReleaseFrame, Quit,
       NextStartThrows, NextThrows, Gone, StreamSteady, StopSink, vars, devices
  <1>4. ASSUME NEW b \in B, ProcessRead(b) \/ ProcessWrite(b)
        PROVE  StatsStep(c)
    BY <1>4, StatsStutters DEF ProcessRead, ProcessWrite
  <1>5. ASSUME NEW d \in 1 .. Bridges + 1, Convert(d)
        PROVE  StatsStep(c)
    BY <1>5, StatsStutters DEF Convert
  <1>6. ASSUME NEW x \in C, ProcessStats(x)
        PROVE  StatsStep(c)
    BY <1>6, StatsUses DEF ProcessStats
  <1>7. ASSUME NEW x \in C, Measure(x)
        PROVE  StatsStep(c)
    <2>1. \/ CanFinish(stats[c]) /\ stats'[c] = Finish(stats[c])
          \/ stats'[c] = stats[c]
      BY <1>1, <1>7 DEF Measure
    <2> QED
      BY <2>1, StatsMoves, StatsStutters
  <1>8. CASE LoopThrows
    <2>1. CASE UNCHANGED stats
      BY <2>1, StatsStutters
    <2>2. ASSUME NEW x \in C, NextEvent(<<"stats", x>>), stats[x].done > 0,
                 stats' = [stats EXCEPT ![x] = Give(Take(@))]
          PROVE  StatsStep(c)
      BY <2>2, StatsUses
    <2> QED
      BY <1>8, <2>1, <2>2 DEF LoopThrows
  <1>9. CASE StartControl \/ ControlStartThrows
    <2>1. CASE c = k
      <3>1. \/ stats'[c] = stats[c]
            \/ /\ ~stats[c].on
               /\ stats'[c] = Started(SinkBufs) \/ \E n \in 0 .. SinkBufs : stats'[c] = Idle(n)
        BY <1>1, <1>9, <2>1 DEF StartControl, ControlStartThrows
      <3> QED
        BY <3>1, StatsStutters, StatsMoves
    <2>2. CASE c # k
      <3>1. stats'[c] = stats[c]
        BY <1>1, <1>9, <2>2 DEF StartControl, ControlStartThrows
      <3> QED
        BY <3>1, StatsStutters
    <2> QED
      BY <2>1, <2>2
  <1>10. CASE StopControl \/ StopThrows \/ Destroy
    <2>1. stats'[c] = stats[c] \/ stats'[c] = Off
      BY <1>1, <1>10 DEF StopControl, StopThrows, Destroy, devices
    <2> QED
      BY <2>1, StatsStutters, StatsMoves
  <1> QED
    BY <1>2, <1>3, <1>4, <1>5, <1>6, <1>7, <1>8, <1>9, <1>10
       DEF Next, ThreadStep, Callback, DeviceStep

\* The sink and the streams of statistics are used as Supply allows and MMapStream implements.
THEOREM PipelineSupplies == Spec => StreamsSupply
  <1>1. Init => SinkSupply!Init /\ \A c \in C : StatsSupply(c)!Init
    BY SupplyQueues, StatsQueues DEF Init, SinkSupply!Init, StatsSupply!Init
  <1>2. IInv /\ [Next]_vars => [SinkSupply!Next]_(SinkSupply!vars)
    BY SinkNext DEF SinkStep
  <1>3. IInv /\ [Next]_vars => \A c \in C : [StatsSupply(c)!Next]_(StatsSupply(c)!vars)
    BY StatsNext DEF StatsStep
  <1>4. Spec => [][SinkSupply!Next]_(SinkSupply!vars)
    BY <1>2, PipelineInvariant, PTL DEF Spec
  <1>5. Spec => [][\A c \in C : [StatsSupply(c)!Next]_(StatsSupply(c)!vars)]_vars
    BY <1>3, PipelineInvariant, PTL DEF Spec
  <1> QED
    BY <1>1, <1>4, <1>5 DEF Spec, StreamsSupply, SinkSupply!Spec

\* The loop, its callbacks and its client ask of bridges and streams only what Relay and
\* Supply promise of them.
THEOREM PipelineUses == Spec => UsesAsImplemented
  BY PipelineRelays, PipelineSupplies DEF UsesAsImplemented

=============================================================================
