--------------------------- MODULE SessionsProofs ----------------------------
(***************************************************************************)
(* Theorems about the sink stream, MMapStream, under its discipline, for   *)
(* every number of buffers, threads and frames; about Sessions for every   *)
(* number of sessions, of buffers and of frames thrown away; and what      *)
(* sessions that do not overlap inherit from MMapStream.  The first part   *)
(* uses nothing that Sessions assumes or defines.                          *)
(***************************************************************************)
EXTENDS Sessions, FiniteSetTheorems, TLAPS

-----------------------------------------------------------------------------
(***************************************************************************)
(* The sink stream                                                         *)
(***************************************************************************)

\* No frame is out.
NoLease == \A h \in Holders : ~Leased(h)

\* Calls take turns.
OneCall ==
    \A t, u \in Threads : at[t] # "outside" /\ at[u] # "outside" => t = u

\* What the queue, the pointer and the frames have to do with each other.
Shape ==
    /\ KernelHolds(q) \subseteq Indices(q.alloc)
    /\ q.queued \cap q.done = {}
    /\ ~q.streaming => q.done = {} /\ NoLease
    /\ q.streaming => buffers = q.alloc /\ buffers > 0
    /\ q.streaming => started \/ \E t \in Threads : at[t] \in {"mark", "nmark"}
    /\ started /\ buffers = 0 => \E t \in Threads : at[t] = "unmark"

\* What the place of a thread tells.
Phases ==
    \A t \in Threads :
        /\ at[t] \in {"queue", "nqueue"} =>
             /\ buffers = q.alloc /\ buffers > 0 /\ ~q.streaming
             /\ next[t] <= buffers /\ KernelHolds(q) = Indices(next[t])
        /\ at[t] \in {"mark", "nmark"} => q.streaming
        /\ at[t] \in {"fetch", "dequeue", "wrap"} => buffers > 0
        /\ at[t] = "wrap" =>
             /\ q.streaming /\ next[t] \in Free(q)
             /\ \A h \in Holders : Leased(h) => frame[h].idx # next[t]
        /\ at[t] = "nalloc" => ~q.streaming
        /\ at[t] \in InStop => NoLease
        /\ at[t] \in {"free", "reset", "unmark"} => ~q.streaming

\* The inductive invariant.
IInv == TypeOK /\ OnlyDeviceKills /\ LeasesExclusive /\ NothingLost /\ OneCall /\ Shape /\ Phases

\* Outdating the frames changes nothing else about them.
LEMMA OutdateFields ==
    ASSUME frame \in [Holders -> Frames], Outdate
    PROVE  /\ frame' \in [Holders -> Frames]
           /\ \A h \in Holders : Leased(h)' = Leased(h)
  BY DEF Outdate, Frames, Leased, Indices

\* The invariant holds at the start.
LEMMA InitIInv == Init => IInv
  <1> SUFFICES ASSUME Init PROVE IInv
    OBVIOUS
  <1>1. q \in Queues(MaxBufs)
    BY MaxBufsAssumption DEF Init, NewQueue, IdleQueue, Queues, Indices
  <1>2. frame \in [Holders -> Frames] /\ NoLease
    BY MaxBufsAssumption DEF Init, NoFrame, Frames, Indices, NoLease, Leased
  <1>3. buffers \in 0 .. MaxBufs /\ next \in [Threads -> 0 .. MaxBufs]
    BY MaxBufsAssumption DEF Init
  <1>4. TypeOK /\ OnlyDeviceKills
    BY <1>1, <1>2, <1>3 DEF Init, TypeOK, OnlyDeviceKills, Places
  <1>5. LeasesExclusive /\ NothingLost /\ OneCall
    BY <1>2 DEF Init, NewQueue, IdleQueue, LeasesExclusive, NothingLost, OneCall, NoLease
  <1>6. Shape /\ Phases
    BY <1>2 DEF Init, NewQueue, IdleQueue, KernelHolds, Indices, Shape, Phases, InStop
  <1> QED
    BY <1>4, <1>5, <1>6 DEF IInv

\* A thread that moves within a call, alone, leaves the others where they are.
LEMMA GotoPlaces ==
    ASSUME NEW t \in Threads, NEW p \in Places, at \in [Threads -> Places],
           Goto(t, p), OneCall, at[t] # "outside" \/ Quiet
    PROVE  /\ at' \in [Threads -> Places] /\ at'[t] = p
           /\ \A u \in Threads \ {t} : at[u] = "outside" /\ at'[u] = "outside"
           /\ OneCall'
  BY DEF Goto, OneCall, Quiet

\* Alloc keeps the invariant.
LEMMA AllocStep ==
    ASSUME IInv, NEW t \in Threads, Alloc(t)
    PROVE  IInv'
  <1>1. PICK n \in 1 .. MaxBufs : q' = ReqBufs(n) /\ buffers' = n
    BY DEF Alloc
  <1>2. q' = [alloc |-> n, streaming |-> FALSE, queued |-> {}, done |-> {}]
    BY <1>1 DEF ReqBufs, IdleQueue
  <1>3. at[t] \in {"alloc", "nalloc"} /\ ~q.streaming /\ NoLease /\ OnlyDeviceKills
    BY DEF Alloc, CanReqBufs, IInv, Shape
  <1>4. /\ at' \in [Threads -> Places] /\ at'[t] \in {"queue", "nqueue"}
        /\ \A u \in Threads \ {t} : at[u] = "outside" /\ at'[u] = "outside"
        /\ OneCall'
    BY <1>3, GotoPlaces DEF Alloc, IInv, TypeOK, Places, InStart, InNext
  <1>5. /\ frame' \in [Holders -> Frames] /\ NoLease'
    BY <1>3, OutdateFields DEF Alloc, IInv, TypeOK, NoLease
  <1>9. /\ q' \in Queues(MaxBufs) /\ buffers' \in 0 .. MaxBufs
        /\ next' \in [Threads -> 0 .. MaxBufs]
    BY <1>1, <1>2, MaxBufsAssumption DEF Alloc, IInv, TypeOK, Queues, Indices
  <1>6. TypeOK' /\ OnlyDeviceKills'
    BY <1>3, <1>4, <1>5, <1>9 DEF Alloc, IInv, TypeOK, OnlyDeviceKills
  <1>7. LeasesExclusive' /\ NothingLost'
    BY <1>2, <1>5 DEF LeasesExclusive, NothingLost, NoLease
  <1>8. Shape' /\ Phases'
    BY <1>1, <1>2, <1>4, <1>5, MaxBufsAssumption
       DEF Alloc, IInv, TypeOK, Shape, Phases, KernelHolds, Indices, InStop
  <1> QED
    BY <1>4, <1>6, <1>7, <1>8 DEF IInv

\* So do the steps that move a thread and change nothing of the device.
LEMMA MoveStep ==
    ASSUME IInv, NEW t \in Threads,
           \/ Quiet /\ CallStart(t)
           \/ Quiet /\ CallNext(t)
           \/ Quiet /\ CallStop(t) /\ NoLease
           \/ MarkStarted(t) \/ FetchNext(t) \/ MarkStopped(t)
    PROVE  IInv'
  <1> USE DEF CallStart, CallNext, CallStop, MarkStarted, FetchNext, MarkStopped
  <1>1. /\ UNCHANGED <<buffers, q, frame, next, fault>>
        /\ started' \in BOOLEAN
    BY DEF IInv, TypeOK
  <1>2. \E p \in Places : Goto(t, p)
    BY DEF Places, InStart, InNext, InStop
  <1>3. /\ at' \in [Threads -> Places]
        /\ \A u \in Threads \ {t} : at[u] = "outside" /\ at'[u] = "outside"
        /\ OneCall'
    BY <1>2, GotoPlaces DEF IInv, TypeOK, Quiet
  <1>4. TypeOK' /\ OnlyDeviceKills'
    BY <1>1, <1>3 DEF IInv, TypeOK, OnlyDeviceKills
  <1>5. LeasesExclusive'
    BY <1>1 DEF IInv, LeasesExclusive, Leased
  <1>6. NothingLost'
    BY <1>1, <1>3, GotoPlaces DEF Goto, IInv, TypeOK, NothingLost, Leased
  <1>7. Shape'
    BY <1>1, <1>3 DEF Goto, IInv, TypeOK, Shape, Phases, Quiet, NoLease, Leased
  <1>8. Phases'
    BY <1>1, <1>3 DEF Goto, IInv, TypeOK, Shape, Phases, Quiet, NoLease, Leased, InStop
  <1> QED
    BY <1>3, <1>4, <1>5, <1>6, <1>7, <1>8 DEF IInv

\* QueueAll keeps the invariant.
LEMMA QueueAllStep ==
    ASSUME IInv, NEW t \in Threads, QueueAll(t)
    PROVE  IInv'
  <1>1. /\ q' = [alloc |-> q.alloc, streaming |-> q.streaming,
                 queued |-> q.queued \cup {next[t]}, done |-> q.done]
        /\ next[t] \in Free(q) /\ next[t] < buffers
        /\ UNCHANGED <<started, buffers, frame, at, fault>>
    BY DEF QueueAll, QBuf, CanQBuf
  <1>2. /\ ~q.streaming /\ buffers = q.alloc /\ KernelHolds(q) = Indices(next[t])
        /\ NoLease /\ NoLease'
    BY <1>1 DEF QueueAll, IInv, Phases, Shape, NoLease, Leased
  <1>3. /\ \A u \in Threads \ {t} : at[u] = "outside"
        /\ next' \in [Threads -> 0 .. MaxBufs] /\ next'[t] = next[t] + 1
        /\ buffers \in 0 .. MaxBufs /\ next[t] \in 0 .. MaxBufs
    BY <1>1, MaxBufsAssumption DEF QueueAll, IInv, TypeOK, OneCall
  <1>4. KernelHolds(q)' = Indices(next'[t])
    BY <1>1, <1>2, <1>3, MaxBufsAssumption DEF KernelHolds, Indices
  <1>5. q' \in Queues(MaxBufs)
    BY <1>1, MaxBufsAssumption DEF IInv, TypeOK, Queues, Free, Indices
  <1>6. TypeOK' /\ OnlyDeviceKills' /\ OneCall'
    BY <1>1, <1>3, <1>5 DEF IInv, TypeOK, OnlyDeviceKills, OneCall
  <1>7. LeasesExclusive' /\ NothingLost'
    BY <1>1, <1>2 DEF LeasesExclusive, NothingLost, NoLease
  <1>8. Shape'
    <2>1. KernelHolds(q)' \subseteq Indices(q'.alloc)
      BY <1>1, <1>2, <1>3, <1>4 DEF Indices
    <2>2. q'.queued \cap q'.done = {} /\ q'.done = {} /\ ~q'.streaming
      BY <1>1, <1>2 DEF IInv, Shape, Free, KernelHolds
    <2> QED
      BY <1>1, <1>2, <2>1, <2>2 DEF IInv, Shape
  <1>9. Phases'
    BY <1>1, <1>2, <1>3, <1>4, MaxBufsAssumption
       DEF QueueAll, IInv, TypeOK, Phases, InStop
  <1> QED
    BY <1>6, <1>7, <1>8, <1>9 DEF IInv

\* STREAMON finds every buffer queued.
LEMMA StartStreamingStep ==
    ASSUME IInv, NEW t \in Threads, StartStreaming(t)
    PROVE  IInv'
  <1>1. /\ q' = [alloc |-> q.alloc, streaming |-> TRUE,
                 queued |-> q.queued, done |-> q.done]
        /\ at[t] \in {"queue", "nqueue"} /\ next[t] = buffers
        /\ UNCHANGED <<started, buffers, frame, fault>>
    BY DEF StartStreaming, StreamOn
  <1>2. /\ ~q.streaming /\ buffers = q.alloc /\ buffers > 0
        /\ KernelHolds(q) = Indices(buffers) /\ NoLease /\ NoLease'
    BY <1>1 DEF IInv, Phases, Shape, NoLease, Leased
  <1>3. /\ at' \in [Threads -> Places] /\ at'[t] \in {"mark", "nmark"}
        /\ \A u \in Threads \ {t} : at'[u] = "outside"
        /\ OneCall'
    BY <1>1, GotoPlaces DEF StartStreaming, IInv, TypeOK, Places, InStart, InNext
  <1>8. q' \in Queues(MaxBufs) /\ next' \in [Threads -> 0 .. MaxBufs]
    BY <1>1, MaxBufsAssumption DEF StartStreaming, IInv, TypeOK, Queues
  <1>4. TypeOK' /\ OnlyDeviceKills'
    BY <1>1, <1>3, <1>8 DEF IInv, TypeOK, OnlyDeviceKills
  <1>5. KernelHolds(q)' = Indices(q'.alloc)
    BY <1>1, <1>2 DEF KernelHolds
  <1>6. LeasesExclusive' /\ NothingLost'
    BY <1>2, <1>3, <1>5 DEF LeasesExclusive, NothingLost, NoLease
  <1>7. Shape' /\ Phases'
    BY <1>1, <1>2, <1>3, <1>5 DEF IInv, Shape, Phases, InStop
  <1> QED
    BY <1>3, <1>4, <1>6, <1>7 DEF IInv

\* A dequeued buffer is in the thread's hands alone.
LEMMA DequeueStep ==
    ASSUME IInv, NEW t \in Threads, Dequeue(t)
    PROVE  IInv'
  <1>1. PICK i \in q.done : q.streaming /\ q' = DQBuf(q, i) /\ next' = [next EXCEPT ![t] = i]
    BY DEF Dequeue, CanDQBuf
  <1>2. q' = [alloc |-> q.alloc, streaming |-> TRUE,
              queued |-> q.queued, done |-> q.done \ {i}]
    BY <1>1 DEF DQBuf, IInv, TypeOK, Queues
  <1>3. /\ i \in Indices(q.alloc) /\ i \notin q.queued /\ buffers = q.alloc /\ buffers > 0
        /\ i \in 0 .. MaxBufs
        /\ UNCHANGED <<started, buffers, frame, fault>>
    BY <1>1, MaxBufsAssumption
       DEF Dequeue, IInv, TypeOK, Shape, KernelHolds, Queues, Indices
  <1>4. /\ at' \in [Threads -> Places] /\ at[t] = "dequeue" /\ at'[t] = "wrap"
        /\ \A u \in Threads \ {t} : at[u] = "outside" /\ at'[u] = "outside"
        /\ OneCall'
    BY GotoPlaces DEF Dequeue, IInv, TypeOK, Places, InNext
  <1>5. /\ KernelHolds(q)' = KernelHolds(q) \ {i} /\ i \in KernelHolds(q)
        /\ i \in Free(q)'
    BY <1>1, <1>2, <1>3 DEF KernelHolds, Free
  <1>6. next' \in [Threads -> 0 .. MaxBufs] /\ next'[t] = i
    BY <1>1, <1>3 DEF IInv, TypeOK
  <1>7. \A h \in Holders : Leased(h) => frame[h].idx # i
    BY <1>5 DEF IInv, LeasesExclusive, Free
  <1>8. TypeOK' /\ OnlyDeviceKills'
    BY <1>2, <1>3, <1>4, <1>6 DEF IInv, TypeOK, OnlyDeviceKills, Queues
  <1>9. LeasesExclusive'
    BY <1>2, <1>3, <1>5 DEF IInv, LeasesExclusive, Leased, Free
  <1>10. NothingLost'
    <2>1. at'[t] = "wrap" /\ next'[t] = i /\ q'.alloc = q.alloc
      BY <1>2, <1>4, <1>6
    <2>2. \A j \in Indices(q.alloc) \ KernelHolds(q) :
             \E h \in Holders : Leased(h) /\ frame[h].idx = j
      BY <1>1, <1>4 DEF IInv, NothingLost
    <2>3. \A h \in Holders : Leased(h)' = Leased(h) /\ frame'[h].idx = frame[h].idx
      BY <1>3 DEF Leased
    <2> QED
      BY <1>5, <2>1, <2>2, <2>3 DEF NothingLost
  <1>11. Shape'
    <2>1. KernelHolds(q)' \subseteq Indices(q'.alloc) /\ q'.queued \cap q'.done = {}
      BY <1>2, <1>5 DEF IInv, Shape
    <2>2. started
      BY <1>1, <1>4 DEF IInv, Shape
    <2>3. started' /\ buffers' = q'.alloc /\ buffers' > 0 /\ q'.streaming
      BY <1>2, <1>3, <2>2
    <2> QED
      BY <2>1, <2>3 DEF Shape
  <1>12. Phases'
    BY <1>2, <1>3, <1>4, <1>5, <1>6, <1>7 DEF Phases, InStop, Leased
  <1> QED
    BY <1>4, <1>8, <1>9, <1>10, <1>11, <1>12 DEF IInv

\* A new frame takes over the thread's buffer.
LEMMA WrapStep ==
    ASSUME IInv, NEW t \in Threads, NEW h \in Holders, Wrap(t, h)
    PROVE  IInv'
  <1>1. /\ at[t] = "wrap" /\ ~Leased(h) /\ q.streaming /\ next[t] \in Free(q)
        /\ \A g \in Holders : Leased(g) => frame[g].idx # next[t]
        /\ UNCHANGED <<started, buffers, q, fault>>
    BY DEF Wrap, IInv, Phases
  <1>2. next[t] \in Indices(MaxBufs)
    BY <1>1, MaxBufsAssumption DEF IInv, TypeOK, Queues, Free, Indices
  <1>3. /\ frame' \in [Holders -> Frames]
        /\ frame'[h] = [idx |-> next[t], fresh |-> TRUE, out |-> TRUE]
        /\ \A g \in Holders \ {h} : frame'[g] = frame[g]
    BY <1>2 DEF Wrap, IInv, TypeOK, Frames
  <1>4. /\ at' \in [Threads -> Places] /\ at'[t] = "outside"
        /\ \A u \in Threads : at'[u] = "outside"
        /\ \A u \in Threads \ {t} : at[u] = "outside"
        /\ OneCall'
    BY <1>1, GotoPlaces DEF Wrap, IInv, TypeOK, Places
  <1>5. next' \in [Threads -> 0 .. MaxBufs]
    BY MaxBufsAssumption DEF Wrap, IInv, TypeOK
  <1>6. TypeOK' /\ OnlyDeviceKills'
    BY <1>1, <1>3, <1>4, <1>5 DEF IInv, TypeOK, OnlyDeviceKills
  <1>7. /\ Leased(h)' /\ frame'[h].idx = next[t]
        /\ \A g \in Holders \ {h} : Leased(g)' = Leased(g) /\ frame'[g] = frame[g]
    BY <1>3 DEF Leased
  <1>8. LeasesExclusive'
    BY <1>1, <1>3, <1>7 DEF IInv, LeasesExclusive, Free, KernelHolds
  <1>9. NothingLost'
    <2>1. \A i \in Indices(q.alloc) \ KernelHolds(q) :
             i = next[t] \/ \E g \in Holders : Leased(g) /\ frame[g].idx = i
      BY <1>1, <1>4 DEF IInv, NothingLost
    <2>2. \A i \in Indices(q.alloc) \ KernelHolds(q) :
             \E g \in Holders : Leased(g)' /\ frame'[g].idx = i
      BY <1>1, <1>7, <2>1
    <2> QED
      BY <1>1, <2>2 DEF NothingLost, KernelHolds
  <1>10. Shape'
    <2>1. started
      BY <1>1, <1>4 DEF IInv, Shape
    <2> QED
      BY <1>1, <2>1 DEF IInv, Shape, KernelHolds
  <1>11. Phases'
    BY <1>4 DEF Phases, InStop
  <1> QED
    BY <1>4, <1>6, <1>8, <1>9, <1>10, <1>11 DEF IInv

\* The kernel never refuses the buffer of a frame, and "buffers" is there.
LEMMA ReleaseStep ==
    ASSUME IInv, NEW t \in Threads, NEW h \in Holders, Quiet, Releases(t, h)
    PROVE  IInv'
  <1>1. /\ q.streaming /\ buffers > 0 /\ Leased(h) /\ frame[h].idx \in Free(q)
        /\ started
    BY DEF Releases, Release, ReleaseRefused, ReleaseUnbacked, Quiet,
           IInv, Shape, NoLease, LeasesExclusive
  <1>2. Release(t, h)
    <2>1. buffers # 0
      BY <1>1, MaxBufsAssumption DEF IInv, TypeOK
    <2> QED
      BY <1>1, <2>1 DEF Releases, ReleaseRefused, ReleaseUnbacked, CanQBuf
  <1> DEFINE i == frame[h].idx
  <1>3. /\ q' = [alloc |-> q.alloc, streaming |-> q.streaming,
                 queued |-> q.queued \cup {i}, done |-> q.done]
        /\ UNCHANGED <<started, buffers, at, next, fault>>
    BY <1>2 DEF Release, QBuf
  <1>4. /\ frame' \in [Holders -> Frames] /\ ~Leased(h)'
        /\ \A g \in Holders \ {h} : frame'[g] = frame[g] /\ Leased(g)' = Leased(g)
    BY <1>2, MaxBufsAssumption
       DEF Release, IInv, TypeOK, NoFrame, Frames, Leased, Indices
  <1>5. q' \in Queues(MaxBufs)
    BY <1>1, <1>3, MaxBufsAssumption DEF IInv, TypeOK, Queues, Free, Indices
  <1>6. KernelHolds(q)' = KernelHolds(q) \cup {i} /\ Indices(q.alloc)' = Indices(q.alloc)
    BY <1>3 DEF KernelHolds
  <1>7. TypeOK' /\ OnlyDeviceKills' /\ OneCall'
    BY <1>3, <1>4, <1>5 DEF IInv, TypeOK, OnlyDeviceKills, OneCall
  <1>8. LeasesExclusive'
    BY <1>1, <1>4, <1>6 DEF IInv, LeasesExclusive, Free
  <1>9. NothingLost'
    BY <1>1, <1>3, <1>4, <1>6 DEF IInv, NothingLost
  <1>10. Shape'
    BY <1>1, <1>3, <1>6 DEF IInv, Shape, Free, KernelHolds
  <1>11. Phases'
    BY <1>3 DEF Quiet, Phases, InStop
  <1> QED
    BY <1>7, <1>8, <1>9, <1>10, <1>11 DEF IInv

\* Should the ioctl fail by itself, the program ends, and its state is as it was.
LEMMA ReleaseFailsStep ==
    ASSUME IInv, NEW t \in Threads, NEW h \in Holders, ReleaseFails(t, h)
    PROVE  IInv'
  <1>1. fault' = "device" /\ UNCHANGED <<started, buffers, q, frame, at, next>>
    BY DEF ReleaseFails
  <1>2. TypeOK' /\ OnlyDeviceKills'
    BY <1>1 DEF IInv, TypeOK, OnlyDeviceKills
  <1>3. LeasesExclusive' /\ NothingLost' /\ OneCall'
    BY <1>1 DEF IInv, LeasesExclusive, NothingLost, OneCall, Leased, KernelHolds, Free
  <1>4. Shape' /\ Phases'
    BY <1>1 DEF IInv, Shape, Phases, NoLease, Leased, KernelHolds, Free
  <1> QED
    BY <1>2, <1>3, <1>4 DEF IInv

\* No thread meets a null "buffers" inside a call.
LEMMA NoUseUnbacked ==
    ASSUME IInv, NEW t \in Threads
    PROVE  ~UseUnbacked(t)
  <1>1. at[t] \in {"queue", "nqueue", "fetch", "wrap"} => buffers > 0
    BY DEF IInv, Phases
  <1>2. buffers > 0 => buffers # 0
    BY MaxBufsAssumption DEF IInv, TypeOK
  <1> QED
    BY <1>1, <1>2 DEF UseUnbacked

\* STREAMOFF and REQBUFS(0) leave the queue idle, when no frame is out.
LEMMA IdleStep ==
    ASSUME IInv, NEW t \in Threads, StopStreaming(t) \/ FreeBuffers(t)
    PROVE  IInv'
  <1>1. PICK n \in 0 .. MaxBufs :
           q' = [alloc |-> n, streaming |-> FALSE, queued |-> {}, done |-> {}]
    BY MaxBufsAssumption
       DEF StopStreaming, FreeBuffers, StreamOff, ReqBufs, IdleQueue, IInv, TypeOK, Queues
  <1>2. /\ at[t] \in InStop \ {"reset", "unmark"} /\ at[t] # "outside"
        /\ UNCHANGED <<started, buffers, frame, next, fault>>
        /\ NoLease /\ NoLease'
    BY DEF StopStreaming, FreeBuffers, InStop, IInv, Phases, NoLease, Leased
  <1>3. /\ at' \in [Threads -> Places] /\ at'[t] \in {"free", "reset"}
        /\ \A u \in Threads \ {t} : at'[u] = "outside"
        /\ OneCall'
    BY <1>2, GotoPlaces DEF StopStreaming, FreeBuffers, IInv, TypeOK, Places, InStop
  <1>4. q' \in Queues(MaxBufs)
    BY <1>1 DEF Queues
  <1>5. TypeOK' /\ OnlyDeviceKills'
    BY <1>2, <1>3, <1>4 DEF IInv, TypeOK, OnlyDeviceKills
  <1>6. LeasesExclusive' /\ NothingLost'
    BY <1>1, <1>2 DEF LeasesExclusive, NothingLost, NoLease
  <1>7. started => buffers # 0
    <2>1. \A u \in Threads : at[u] # "unmark"
      BY <1>2 DEF IInv, OneCall
    <2> QED
      BY <2>1 DEF IInv, Shape
  <1>8. Shape'
    BY <1>1, <1>2, <1>7 DEF Shape, KernelHolds
  <1>9. Phases'
    BY <1>1, <1>2, <1>3 DEF Phases, InStop
  <1> QED
    BY <1>3, <1>5, <1>6, <1>8, <1>9 DEF IInv

\* With no frame out and the device off, "buffers" may go.
LEMMA ResetStep ==
    ASSUME IInv, NEW t \in Threads, ResetBuffers(t)
    PROVE  IInv'
  <1>1. /\ at[t] = "reset" /\ ~q.streaming /\ NoLease
        /\ buffers' = 0 /\ UNCHANGED <<started, q, next, fault>>
    BY DEF ResetBuffers, IInv, Phases, InStop
  <1>2. /\ frame' \in [Holders -> Frames] /\ NoLease'
    BY <1>1, OutdateFields DEF ResetBuffers, IInv, TypeOK, NoLease
  <1>3. /\ at' \in [Threads -> Places] /\ at'[t] = "unmark"
        /\ \A u \in Threads \ {t} : at'[u] = "outside"
        /\ OneCall'
    BY <1>1, GotoPlaces DEF ResetBuffers, IInv, TypeOK, Places, InStop
  <1>4. TypeOK' /\ OnlyDeviceKills'
    BY <1>1, <1>2, <1>3, MaxBufsAssumption DEF IInv, TypeOK, OnlyDeviceKills
  <1>5. LeasesExclusive' /\ NothingLost'
    BY <1>1, <1>2 DEF LeasesExclusive, NothingLost, NoLease
  <1>6. Shape' /\ Phases'
    BY <1>1, <1>2, <1>3 DEF IInv, Shape, Phases, InStop, KernelHolds
  <1> QED
    BY <1>3, <1>4, <1>5, <1>6 DEF IInv

\* A call that fails leaves the stream in a state the next call can cope with.
LEMMA ThrowStep ==
    ASSUME IInv, NEW t \in Threads, Throw(t)
    PROVE  IInv'
  <1>1. /\ at[t] \in {"alloc", "nalloc", "queue", "nqueue", "dequeue", "off", "free"}
        /\ UNCHANGED <<started, buffers, frame, fault>>
        /\ next' = [next EXCEPT ![t] = 0]
        /\ \/ q' = q
           \/ /\ at[t] \in {"alloc", "nalloc"} /\ ~q.streaming
              /\ \E n \in 1 .. MaxBufs :
                    q' = [alloc |-> n, streaming |-> FALSE, queued |-> {}, done |-> {}]
    BY DEF Throw, CanReqBufs, ReqBufs, IdleQueue
  <1>2. /\ at' \in [Threads -> Places]
        /\ \A u \in Threads : at'[u] = "outside"
        /\ \A u \in Threads \ {t} : at[u] = "outside"
        /\ OneCall'
    BY <1>1, GotoPlaces DEF Throw, IInv, TypeOK, Places
  <1>3. q' \in Queues(MaxBufs)
    <2>1. \A n \in 1 .. MaxBufs :
            [alloc |-> n, streaming |-> FALSE, queued |-> {}, done |-> {}] \in Queues(MaxBufs)
      BY MaxBufsAssumption DEF Queues
    <2>2. q \in Queues(MaxBufs)
      BY DEF IInv, TypeOK
    <2> QED
      BY <1>1, <2>1, <2>2
  <1>9. next' \in [Threads -> 0 .. MaxBufs]
    BY <1>1, MaxBufsAssumption DEF IInv, TypeOK
  <1>4. TypeOK' /\ OnlyDeviceKills'
    BY <1>1, <1>2, <1>3, <1>9 DEF IInv, TypeOK, OnlyDeviceKills
  <1>5. \A h \in Holders : Leased(h)' = Leased(h) /\ frame'[h] = frame[h]
    BY <1>1 DEF Leased
  <1>6. \A u \in Threads : at[u] \notin {"mark", "nmark", "unmark", "wrap"}
    BY <1>1, <1>2
  <1>7. CASE q' = q
    <2>1. LeasesExclusive' /\ NothingLost'
      BY <1>5, <1>6, <1>7 DEF IInv, LeasesExclusive, NothingLost, Free, KernelHolds
    <2>2. Shape'
      BY <1>1, <1>5, <1>6, <1>7 DEF IInv, Shape, NoLease, KernelHolds
    <2> QED
      BY <1>2, <1>4, <2>1, <2>2 DEF IInv, Phases, InStop
  <1>8. CASE q' # q
    <2>1. ~q'.streaming /\ KernelHolds(q)' = {} /\ q'.done = {} /\ q'.queued = {}
      BY <1>1, <1>8 DEF KernelHolds
    <2>2. NoLease /\ NoLease'
      BY <1>1, <1>5, <1>8 DEF IInv, Shape, NoLease
    <2>3. LeasesExclusive' /\ NothingLost'
      BY <2>1, <2>2 DEF LeasesExclusive, NothingLost, NoLease
    <2>4. Shape'
      BY <1>1, <1>6, <2>1, <2>2 DEF IInv, Shape
    <2> QED
      BY <1>2, <1>4, <2>3, <2>4 DEF IInv, Phases, InStop
  <1> QED
    BY <1>7, <1>8

\* The last reference to the stream goes while no frame is out.
LEMMA DestroyStep ==
    ASSUME IInv, Destroy
    PROVE  IInv'
  <1>1. /\ \A t \in Threads : at'[t] = "outside"
        /\ started' = FALSE /\ buffers' = 0
        /\ q' = [alloc |-> 0, streaming |-> FALSE, queued |-> {}, done |-> {}]
        /\ UNCHANGED <<frame, at, next, fault>> /\ NoLease /\ NoLease'
    BY DEF Destroy, NewQueue, IdleQueue, NoLease, Leased
  <1>2. q' \in Queues(MaxBufs)
    BY <1>1, MaxBufsAssumption DEF Queues
  <1>6. buffers' \in 0 .. MaxBufs
    BY <1>1, MaxBufsAssumption
  <1>3. TypeOK' /\ OnlyDeviceKills' /\ OneCall'
    BY <1>1, <1>2, <1>6 DEF IInv, TypeOK, OnlyDeviceKills, OneCall
  <1>4. LeasesExclusive' /\ NothingLost'
    BY <1>1 DEF LeasesExclusive, NothingLost, NoLease
  <1>5. Shape' /\ Phases'
    BY <1>1 DEF Shape, Phases, KernelHolds, InStop
  <1> QED
    BY <1>3, <1>4, <1>5 DEF IInv

\* The device moves a buffer between sets the kernel holds.
LEMMA FillStep ==
    ASSUME IInv, NEW i \in Indices(MaxBufs), Fill(i)
    PROVE  IInv'
  <1>1. /\ q.streaming /\ i \in q.queued
        /\ q' = [alloc |-> q.alloc, streaming |-> q.streaming,
                 queued |-> q.queued \ {i}, done |-> q.done \cup {i}]
        /\ UNCHANGED <<started, buffers, frame, at, next, fault>>
    BY DEF Fill, CanComplete, Complete
  <1>2. /\ KernelHolds(q)' = KernelHolds(q) /\ Free(q)' = Free(q)
        /\ q'.alloc = q.alloc /\ q'.streaming
    BY <1>1 DEF KernelHolds, Free
  <1>3. q' \in Queues(MaxBufs)
    BY <1>1 DEF IInv, TypeOK, Queues
  <1>4. TypeOK' /\ OnlyDeviceKills' /\ OneCall'
    BY <1>1, <1>3 DEF IInv, TypeOK, OnlyDeviceKills, OneCall
  <1>5. LeasesExclusive'
    BY <1>1, <1>2 DEF IInv, LeasesExclusive, Leased
  <1>6. NothingLost'
    BY <1>1, <1>2 DEF IInv, NothingLost, Leased
  <1>7. Shape'
    BY <1>1, <1>2 DEF IInv, Shape
  <1>8. Phases'
    BY <1>1, <1>2 DEF IInv, Phases, NoLease, Leased
  <1> QED
    BY <1>4, <1>5, <1>6, <1>7, <1>8 DEF IInv

\* What a thread does inside a call keeps the invariant.
LEMMA InCallStep ==
    ASSUME IInv, NEW t \in Threads, InCall(t)
    PROVE  IInv'
  <1>1. CASE \E h \in Holders : Wrap(t, h)
    BY <1>1, WrapStep
  <1>2. CASE MarkStarted(t) \/ FetchNext(t) \/ MarkStopped(t)
    BY <1>2, MoveStep
  <1>3. CASE StopStreaming(t) \/ FreeBuffers(t)
    BY <1>3, IdleStep
  <1>4. CASE UseUnbacked(t)
    BY <1>4, NoUseUnbacked
  <1> QED
    BY <1>1, <1>2, <1>3, <1>4, AllocStep, QueueAllStep, StartStreamingStep,
       DequeueStep, ResetStep, ThrowStep
    DEF InCall

\* IInv is inductive.
LEMMA NextIInv == IInv /\ [Next]_vars => IInv'
  <1> SUFFICES ASSUME IInv, [Next]_vars PROVE IInv'
    OBVIOUS
  <1>1. CASE UNCHANGED vars
    BY <1>1 DEF vars, IInv, TypeOK, OnlyDeviceKills, LeasesExclusive, NothingLost, OneCall,
                Shape, Phases, NoLease, Leased, KernelHolds, Free
  <1>2. ASSUME NEW t \in Threads, InCall(t) PROVE IInv'
    BY <1>2, InCallStep
  <1>3. ASSUME NEW t \in Threads, Quiet, CallStart(t) \/ CallNext(t) PROVE IInv'
    BY <1>3, MoveStep
  <1>4. ASSUME NEW t \in Threads, NEW h \in Holders, Quiet,
               Releases(t, h) \/ ReleaseFails(t, h)
        PROVE  IInv'
    BY <1>4, ReleaseStep, ReleaseFailsStep
  <1>5. ASSUME NEW t \in Threads, Quiet, \A h \in Holders : ~Leased(h), CallStop(t)
        PROVE  IInv'
    BY <1>5, MoveStep DEF NoLease
  <1>6. CASE Destroy
    BY <1>6, DestroyStep
  <1>7. ASSUME NEW i \in Indices(MaxBufs), Fill(i) PROVE IInv'
    BY <1>7, FillStep
  <1> QED
    BY <1>1, <1>2, <1>3, <1>4, <1>5, <1>6, <1>7 DEF Next

-----------------------------------------------------------------------------
\* IInv holds throughout.
THEOREM StreamInvariant == Spec => []IInv
  BY InitIInv, NextIInv, PTL DEF Spec

\* Every variable of the stream keeps its type.
THEOREM StreamTypeCorrect == Spec => []TypeOK
  <1>1. IInv => TypeOK
    BY DEF IInv
  <1> QED
    BY <1>1, StreamInvariant, PTL

\* Under the discipline no frame hands back a buffer the kernel must refuse and no null
\* "buffers" is used, however often ioctls fail: what ends the program in the stream is
\* at most a device that fails at the QBUF of a frame's destructor.
THEOREM StreamDiesOfDevice == Spec => []OnlyDeviceKills
  <1>1. IInv => OnlyDeviceKills
    BY DEF IInv
  <1> QED
    BY <1>1, StreamInvariant, PTL

\* The memory a frame shows is mapped, and nobody else writes to it.
THEOREM FramesExclusive == Spec => []LeasesExclusive
  <1>1. IInv => LeasesExclusive
    BY DEF IInv
  <1> QED
    BY <1>1, StreamInvariant, PTL

\* A streaming device never loses a buffer.
THEOREM StreamConserves == Spec => []NothingLost
  <1>1. IInv => NothingLost
    BY DEF IInv
  <1> QED
    BY <1>1, StreamInvariant, PTL

\* Each buffer of a stream that is on has exactly one owner.
THEOREM StreamOwners == Spec => []OneOwner
  BY FramesExclusive, StreamConserves, PTL DEF OneOwner

-----------------------------------------------------------------------------
(***************************************************************************)
(* Counted, the sink stream implements Supply                              *)
(***************************************************************************)

\* A step as Supply sees it.
SupplyStep == [Supplies!Next]_(Supplies!vars)

\* The sets that are counted are finite.
LEMMA CountedFinite ==
    ASSUME IInv
    PROVE  /\ IsFiniteSet(q.queued) /\ Cardinality(q.queued) \in Nat
           /\ IsFiniteSet(q.done) /\ Cardinality(q.done) \in Nat
           /\ IsFiniteSet(Lent) /\ Cardinality(Lent) \in Nat
           /\ IsFiniteSet(Fetching) /\ Cardinality(Fetching) \in Nat
           /\ OnLoan \in Nat
  <1>1. IsFiniteSet(Indices(MaxBufs))
    BY MaxBufsAssumption, FS_Interval DEF Indices
  <1>2. q.queued \subseteq Indices(MaxBufs) /\ q.done \subseteq Indices(MaxBufs)
    BY DEF IInv, TypeOK, Queues
  <1>3. Lent \subseteq Holders /\ Fetching \subseteq Threads
    BY DEF Lent, Fetching
  <1> QED
    BY <1>1, <1>2, <1>3, CallersAssumption, FS_Subset, FS_CardinalityType DEF OnLoan

\* Nothing is on loan while no frame is out or being fetched, as while the device is off.
LEMMA NoneOnLoan ==
    ASSUME NoLease, \A t \in Threads : at[t] # "wrap"
    PROVE  OnLoan = 0 /\ Lent = {} /\ Fetching = {}
  <1>1. Lent = {} /\ Fetching = {}
    BY DEF NoLease, Lent, Fetching
  <1> QED
    BY <1>1, FS_EmptySet DEF OnLoan

LEMMA NoneOnLoanNext == (NoLease /\ (\A t \in Threads : at[t] # "wrap") => OnLoan = 0)'
  <1>1. NoLease /\ (\A t \in Threads : at[t] # "wrap") => OnLoan = 0
    BY NoneOnLoan
  <1> QED
    BY <1>1, PTL

LEMMA OffNoLoan == IInv /\ ~q.streaming => OnLoan = 0
  <1> SUFFICES ASSUME IInv, ~q.streaming PROVE OnLoan = 0
    OBVIOUS
  <1>1. NoLease /\ \A t \in Threads : at[t] # "wrap"
    BY DEF IInv, Shape, Phases
  <1> QED
    BY <1>1, NoneOnLoan

LEMMA OffNoLoanNext == (IInv /\ ~q.streaming => OnLoan = 0)'
  BY OffNoLoan, PTL

\* An idle queue counts as Off, one that the first n buffers were queued to as Idle(n).
LEMMA FilledCounts ==
    ASSUME NEW n \in Nat, KernelHolds(q) = Indices(n), q.done = {}
    PROVE  Counts = [on |-> q.streaming, queued |-> n, done |-> 0]
  <1>1. q.queued = 0 .. n - 1
    BY DEF KernelHolds, Indices
  <1>2. Cardinality(q.queued) = n
    BY <1>1, FS_Interval
  <1> QED
    BY <1>2, FS_EmptySet DEF Counts

LEMMA FilledCountsNext ==
    ASSUME NEW n \in Nat, KernelHolds(q)' = Indices(n), q'.done = {}
    PROVE  Counts' = [on |-> q'.streaming, queued |-> n, done |-> 0]
  <1>1. q'.queued = 0 .. n - 1
    BY DEF KernelHolds, Indices
  <1>2. Cardinality(q'.queued) = n
    BY <1>1, FS_Interval
  <1> QED
    BY <1>2, FS_EmptySet DEF Counts

\* The steps of Supply, in terms of the counts.
LEMMA SupplyStutters ==
    ASSUME Counts' = Counts, OnLoan' = OnLoan
    PROVE  SupplyStep
  BY DEF SupplyStep, Supplies!vars

LEMMA SupplyBegins ==
    ASSUME ~q.streaming, OnLoan = 0, OnLoan' = 0, NEW n \in 0 .. MaxBufs,
           \/ Counts' = [on |-> FALSE, queued |-> n, done |-> 0]
           \/ n > 0 /\ Counts' = [on |-> TRUE, queued |-> n, done |-> 0]
    PROVE  SupplyStep
  <1>1. ~Counts.on /\ (n > 0 => n \in 1 .. MaxBufs)
    BY MaxBufsAssumption DEF Counts
  <1>2. Supplies!Start \/ Supplies!Prepare
    BY <1>1 DEF Supplies!Start, Supplies!Prepare, Supplies!Started, Supplies!Idle
  <1> QED
    BY <1>2 DEF SupplyStep, Supplies!Next

LEMMA SupplyEnds ==
    ASSUME OnLoan = 0, OnLoan' = 0, Counts' = [on |-> FALSE, queued |-> 0, done |-> 0]
    PROVE  SupplyStep
  <1>1. Supplies!Stop
    BY DEF Supplies!Stop, Supplies!Off, Supplies!Idle
  <1> QED
    BY <1>1 DEF SupplyStep, Supplies!Next

\* Starting a stream: its buffers are allocated, queued one by one, and the device turned on.
LEMMA AllocSupply ==
    ASSUME IInv, IInv', NEW t \in Threads, Alloc(t) \/ (Throw(t) /\ q' # q)
    PROVE  SupplyStep
  <1>1. ~q.streaming /\ \E n \in 1 .. MaxBufs : q' = ReqBufs(n)
    BY DEF Alloc, Throw, CanReqBufs
  <1>2. q'.streaming = FALSE /\ q'.queued = {} /\ q'.done = {}
    BY <1>1 DEF ReqBufs, IdleQueue
  <1>3. ~q'.streaming
    BY <1>2
  <1>6. OnLoan = 0 /\ OnLoan' = 0
    BY <1>1, <1>3, OffNoLoan, OffNoLoanNext
  <1>4. Counts' = [on |-> FALSE, queued |-> 0, done |-> 0]
    BY <1>2, FS_EmptySet DEF Counts
  <1>5. 0 \in 0 .. MaxBufs
    BY MaxBufsAssumption
  <1> QED
    BY <1>1, <1>4, <1>5, <1>6, SupplyBegins

LEMMA QueueAllSupply ==
    ASSUME IInv, IInv', NEW t \in Threads, QueueAll(t)
    PROVE  SupplyStep
  <1>1. /\ ~q.streaming /\ next[t] < buffers /\ KernelHolds(q) = Indices(next[t])
        /\ q'.streaming = q.streaming /\ q'.done = q.done
        /\ UNCHANGED <<buffers, at>> /\ next'[t] = next[t] + 1
    BY DEF QueueAll, QBuf, IInv, Phases, TypeOK
  <1>2. q'.done = {} /\ q'.streaming = FALSE /\ ~q'.streaming
    BY <1>1 DEF IInv, Shape, TypeOK, Queues
  <1>3. KernelHolds(q)' = Indices(next'[t])
    BY <1>1 DEF QueueAll, IInv, Phases
  <1>4. next'[t] \in 0 .. MaxBufs /\ next'[t] \in Nat
    BY MaxBufsAssumption DEF IInv, TypeOK
  <1>5. Counts' = [on |-> FALSE, queued |-> next'[t], done |-> 0]
    BY <1>2, <1>3, <1>4, FilledCountsNext
  <1>6. OnLoan = 0 /\ OnLoan' = 0
    BY <1>1, <1>2, OffNoLoan, OffNoLoanNext
  <1> QED
    BY <1>1, <1>4, <1>5, <1>6, SupplyBegins

LEMMA StartStreamingSupply ==
    ASSUME IInv, IInv', NEW t \in Threads, StartStreaming(t)
    PROVE  SupplyStep
  <1>1. /\ ~q.streaming /\ KernelHolds(q) = Indices(buffers) /\ buffers > 0 /\ NoLease
        /\ \A u \in Threads \ {t} : at[u] = "outside"
    BY DEF StartStreaming, IInv, Phases, Shape, OneCall
  <1>2. /\ q'.streaming = TRUE /\ q'.queued = q.queued /\ q'.done = {}
        /\ frame' = frame /\ \A u \in Threads : at'[u] # "wrap"
    BY <1>1 DEF StartStreaming, StreamOn, Goto, IInv, TypeOK, Shape
  <1>3. KernelHolds(q)' = Indices(buffers)
    BY <1>1, <1>2 DEF KernelHolds, IInv, Shape
  <1>4. buffers \in 0 .. MaxBufs /\ buffers \in Nat
    BY MaxBufsAssumption DEF IInv, TypeOK
  <1>5. Counts' = [on |-> TRUE, queued |-> buffers, done |-> 0]
    BY <1>2, <1>3, <1>4, FilledCountsNext
  <1>6. OnLoan = 0 /\ OnLoan' = 0
    <2>1. NoLease'
      BY <1>1, <1>2 DEF NoLease, Leased
    <2> QED
      BY <1>1, <1>2, <2>1, OffNoLoan, NoneOnLoanNext
  <1> QED
    BY <1>1, <1>4, <1>5, <1>6, SupplyBegins

\* Stopping one, or closing the device, which finds no frame out.
LEMMA StopSupply ==
    ASSUME IInv, IInv', Destroy \/ \E t \in Threads : StopStreaming(t) \/ FreeBuffers(t)
    PROVE  SupplyStep
  <1>1. NoLease /\ \A u \in Threads : at[u] # "wrap"
    BY DEF StopStreaming, FreeBuffers, Destroy, NoLease, InStop, IInv, Phases, OneCall
  <1>2. q'.streaming = FALSE /\ ~q'.streaming /\ q'.queued = {} /\ q'.done = {}
    BY DEF StopStreaming, FreeBuffers, Destroy, StreamOff, ReqBufs, NewQueue, IdleQueue
  <1>3. Counts' = [on |-> FALSE, queued |-> 0, done |-> 0]
    BY <1>2, FS_EmptySet DEF Counts
  <1>4. OnLoan = 0 /\ OnLoan' = 0
    BY <1>1, <1>2, NoneOnLoan, OffNoLoanNext
  <1> QED
    BY <1>3, <1>4, SupplyEnds

\* The device finishes a buffer.
LEMMA FillSupply ==
    ASSUME IInv, NEW i, Fill(i)
    PROVE  SupplyStep
  <1>1. /\ q.streaming /\ i \in q.queued /\ i \notin q.done
        /\ q'.streaming = q.streaming /\ q'.queued = q.queued \ {i} /\ q'.done = q.done \cup {i}
        /\ UNCHANGED <<frame, at>>
    BY DEF Fill, CanComplete, Complete, IInv, Shape
  <1>2. OnLoan' = OnLoan
    BY <1>1 DEF OnLoan, Lent, Leased, Fetching
  <1>3. /\ Cardinality(q.queued \ {i}) = Cardinality(q.queued) - 1
        /\ Cardinality(q.done \cup {i}) = Cardinality(q.done) + 1
        /\ Cardinality(q.queued) > 0
    <2>1. q.queued # {}
      BY <1>1
    <2>2. Cardinality(q.queued) # 0
      BY <2>1, CountedFinite, FS_EmptySet
    <2>3. Cardinality(q.queued \ {i}) = Cardinality(q.queued) - 1
      BY <1>1, CountedFinite, FS_RemoveElement
    <2>4. Cardinality(q.done \cup {i}) = Cardinality(q.done) + 1
      BY <1>1, CountedFinite, FS_AddElement
    <2> QED
      BY <2>2, <2>3, <2>4, CountedFinite
  <1>4. Counts.on /\ Counts.queued > 0
    BY <1>1, <1>3 DEF Counts
  <1>5. Counts' = [on |-> Counts.on, queued |-> Counts.queued - 1, done |-> Counts.done + 1]
    BY <1>1, <1>3 DEF Counts
  <1>6. Supplies!Fill
    BY <1>2, <1>4, <1>5 DEF Supplies!Fill, Supplies!CanFinish, Supplies!Finish
  <1> QED
    BY <1>6 DEF SupplyStep, Supplies!Next

\* A frame: the dequeueing lends its buffer, ...
LEMMA DequeueSupply ==
    ASSUME IInv, NEW t \in Threads, Dequeue(t)
    PROVE  SupplyStep
  <1>1. PICK i \in q.done : q.streaming /\ q' = DQBuf(q, i)
    BY DEF Dequeue, CanDQBuf
  <1>2. /\ q'.streaming = q.streaming /\ q'.queued = q.queued /\ q'.done = q.done \ {i}
        /\ UNCHANGED frame /\ at[t] = "dequeue" /\ at' = [at EXCEPT ![t] = "wrap"]
    BY <1>1 DEF Dequeue, DQBuf, Goto
  <1>3. Lent' = Lent /\ Fetching = {} /\ Fetching' = {t}
    BY <1>2 DEF Lent, Leased, Fetching, IInv, OneCall, TypeOK
  <1>4. OnLoan' = OnLoan + 1
    BY <1>3, CountedFinite, FS_EmptySet, FS_Singleton DEF OnLoan
  <1>5. Cardinality(q.done \ {i}) = Cardinality(q.done) - 1 /\ Cardinality(q.done) > 0
    <2>1. Cardinality(q.done) # 0
      BY CountedFinite, FS_EmptySet
    <2>2. Cardinality(q.done \ {i}) = Cardinality(q.done) - 1
      BY CountedFinite, FS_RemoveElement
    <2> QED
      BY <2>1, <2>2, CountedFinite
  <1>6. Counts.on /\ Counts.done > 0
    BY <1>1, <1>5 DEF Counts
  <1>7. Counts' = [on |-> Counts.on, queued |-> Counts.queued, done |-> Counts.done - 1]
    BY <1>2, <1>5 DEF Counts
  <1>8. Supplies!Lend
    BY <1>4, <1>6, <1>7 DEF Supplies!Lend, Supplies!Take
  <1> QED
    BY <1>8 DEF SupplyStep, Supplies!Next

\* ...the frame takes it over, ...
LEMMA WrapSupply ==
    ASSUME IInv, NEW t \in Threads, NEW h \in Holders, Wrap(t, h)
    PROVE  SupplyStep
  <1>1. /\ at[t] = "wrap" /\ ~Leased(h) /\ q' = q /\ at' = [at EXCEPT ![t] = "outside"]
        /\ frame' = [frame EXCEPT ![h] = [idx |-> next[t], fresh |-> TRUE, out |-> TRUE]]
    BY DEF Wrap, Goto
  <1>2. Fetching = {t} /\ Fetching' = {}
    BY <1>1 DEF Fetching, IInv, OneCall, TypeOK
  <1>3. Lent' = Lent \cup {h} /\ h \notin Lent
    BY <1>1 DEF Lent, Leased, IInv, TypeOK
  <1>4. OnLoan' = OnLoan
    <2>1. Cardinality(Fetching) = 1 /\ Cardinality(Fetching') = 0
      BY <1>2, FS_EmptySet, FS_Singleton
    <2>2. Cardinality(Lent') = Cardinality(Lent) + 1
      BY <1>3, CountedFinite, FS_AddElement
    <2> QED
      BY <2>1, <2>2, CountedFinite DEF OnLoan
  <1>5. Counts' = Counts
    BY <1>1 DEF Counts
  <1> QED
    BY <1>4, <1>5, SupplyStutters

\* ...and its destructor brings it back.
LEMMA ReleaseSupply ==
    ASSUME IInv, NEW t \in Threads, NEW h \in Holders, Release(t, h)
    PROVE  SupplyStep
  <1>1. /\ Leased(h) /\ frame[h].idx \notin q.queued /\ UNCHANGED at
        /\ q' = QBuf(q, frame[h].idx) /\ frame' = [frame EXCEPT ![h] = NoFrame]
    BY DEF Release, CanQBuf, Free, KernelHolds
  <1>2. /\ q'.streaming = q.streaming /\ q'.done = q.done
        /\ q'.queued = q.queued \cup {frame[h].idx}
    BY <1>1 DEF QBuf
  <1>3. Lent' = Lent \ {h} /\ h \in Lent /\ Fetching' = Fetching
    BY <1>1 DEF Lent, Leased, Fetching, NoFrame, IInv, TypeOK
  <1>4. OnLoan' = OnLoan - 1 /\ OnLoan > 0
    <2>1. Cardinality(Lent) # 0
      BY <1>3, CountedFinite, FS_EmptySet
    <2>2. Cardinality(Lent') = Cardinality(Lent) - 1
      BY <1>3, CountedFinite, FS_RemoveElement
    <2> QED
      BY <1>3, <2>1, <2>2, CountedFinite DEF OnLoan
  <1>5. Cardinality(q'.queued) = Cardinality(q.queued) + 1
    BY <1>1, <1>2, CountedFinite, FS_AddElement
  <1>6. q.streaming
    BY <1>1 DEF IInv, Shape, NoLease
  <1>7. Counts.on
    BY <1>6 DEF Counts
  <1>8. Counts' = [on |-> Counts.on, queued |-> Counts.queued + 1, done |-> Counts.done]
    BY <1>2, <1>5 DEF Counts
  <1>9. Supplies!Return
    BY <1>4, <1>7, <1>8 DEF Supplies!Return, Supplies!Give
  <1> QED
    BY <1>9 DEF SupplyStep, Supplies!Next

\* The other steps move neither buffers nor frames.
LEMMA QuietSupply ==
    ASSUME IInv,
           \/ \E t \in Threads :
                \/ CallStart(t) \/ CallNext(t) \/ CallStop(t) \/ MarkStarted(t)
                \/ FetchNext(t) \/ ResetBuffers(t) \/ MarkStopped(t)
                \/ (Throw(t) /\ q' = q)
           \/ \E t \in Threads, h \in Holders :
                ReleaseRefused(t, h) \/ ReleaseUnbacked(t, h) \/ ReleaseFails(t, h)
           \/ UNCHANGED vars
    PROVE  SupplyStep
  <1>1. q' = q
    BY DEF CallStart, CallNext, CallStop, MarkStarted, FetchNext, ResetBuffers, MarkStopped,
       ReleaseRefused, ReleaseUnbacked, ReleaseFails, vars
  <1>2. \A h \in Holders : Leased(h)' = Leased(h)
    BY OutdateFields DEF CallStart, CallNext, CallStop, MarkStarted, FetchNext, ResetBuffers,
       MarkStopped, Throw, ReleaseRefused, ReleaseUnbacked, ReleaseFails, vars, Leased, IInv, TypeOK
  <1>3. \A t \in Threads : at'[t] = "wrap" <=> at[t] = "wrap"
    BY DEF CallStart, CallNext, CallStop, MarkStarted, FetchNext, ResetBuffers, MarkStopped,
       Throw, ReleaseRefused, ReleaseUnbacked, ReleaseFails, vars, Goto, IInv, TypeOK
  <1>4. Counts' = Counts /\ OnLoan' = OnLoan
    <2>1. Lent' = Lent /\ Fetching' = Fetching
      BY <1>2, <1>3 DEF Lent, Fetching
    <2> QED
      BY <1>1, <2>1 DEF Counts, OnLoan
  <1> QED
    BY <1>4, SupplyStutters

LEMMA SupplyNext == IInv /\ IInv' /\ [Next]_vars => SupplyStep
  <1> SUFFICES ASSUME IInv, IInv', [Next]_vars PROVE SupplyStep
    OBVIOUS
  <1>1. ASSUME NEW t \in Threads, InCall(t)
        PROVE  SupplyStep
    <2>1. CASE \E h \in Holders : Wrap(t, h)
      BY <2>1, WrapSupply
    <2>2. CASE UseUnbacked(t)
      BY <2>2, NoUseUnbacked
    <2>3. CASE Throw(t)
      BY <2>3, AllocSupply, QuietSupply
    <2> QED
      BY <1>1, <2>1, <2>2, <2>3, AllocSupply, QueueAllSupply, StartStreamingSupply,
         DequeueSupply, StopSupply, QuietSupply DEF InCall
  <1>2. ASSUME NEW t \in Threads, NEW h \in Holders, Releases(t, h) \/ ReleaseFails(t, h)
        PROVE  SupplyStep
    BY <1>2, ReleaseSupply, QuietSupply DEF Releases
  <1>3. ASSUME NEW i \in Indices(MaxBufs), Fill(i)
        PROVE  SupplyStep
    BY <1>3, FillSupply
  <1>4. ASSUME Destroy
        PROVE  SupplyStep
    BY <1>4, StopSupply
  <1>5. ASSUME NEW t \in Threads, CallStart(t) \/ CallNext(t) \/ CallStop(t)
        PROVE  SupplyStep
    BY <1>5, QuietSupply
  <1> QED
    BY <1>1, <1>2, <1>3, <1>4, <1>5, QuietSupply DEF Next

\* A new stream is Off, with no frame out.
LEMMA InitSupplies == Init => Supplies!Init
  <1> SUFFICES ASSUME Init PROVE Supplies!Init
    OBVIOUS
  <1>1. q.streaming = FALSE /\ q.queued = {} /\ q.done = {}
    BY DEF Init, NewQueue, IdleQueue
  <1>2. Counts = [on |-> FALSE, queued |-> 0, done |-> 0]
    BY <1>1, FS_EmptySet DEF Counts
  <1>3. OnLoan = 0
    BY NoneOnLoan DEF Init, NoLease, Leased, NoFrame
  <1> QED
    BY <1>2, <1>3 DEF Supplies!Init, Supplies!Off, Supplies!Idle

\* Ioctl by ioctl and buffer by buffer, with every failure, the sink stream does what
\* Supply promises, as long as its callers keep the discipline.
THEOREM StreamSupplies == Spec => ImplementsSupply
  <1>1. IInv /\ IInv' /\ [Next]_vars => [Supplies!Next]_(Supplies!vars)
    BY SupplyNext DEF SupplyStep
  <1> QED
    BY <1>1, InitSupplies, StreamInvariant, PTL DEF Spec, ImplementsSupply, Supplies!Spec

-----------------------------------------------------------------------------
(***************************************************************************)
(* Sessions                                                                *)
(***************************************************************************)

\* The places where the io thread runs the coroutine.
OnIO == {"prepare", "loop", "next", "got", "drop", "join"}

Control ==
    /\ \A s \in Sessions : place[s] \in OnIO <=> io = s
    /\ limit = 1 => Alive = {} \/ \E s \in Sessions : Alive = {s}

\* Who is inside the stream's code, and who holds a frame.
Callers ==
    /\ at[IO] # "outside" => \E s \in Sessions : place[s] = "next"
    /\ at[IO] = "wrap" => next[IO] \in Indices(MaxBufs)
    /\ \A s \in Sessions :
         /\ at[s] # "outside" => pipeline[s] = "stopping"
         /\ fault = "none" /\ Leased(s) => place[s] \in {"got", "body", "drop"}

\* A pipeline thread that is told to stop leaves the io thread at its session's end.
Ends ==
    \A s \in Sessions :
        /\ pipeline[s] = "stopping" => stop[s]
        /\ stop[s] /\ pipeline[s] # "none" => place[s] \in {"drop", "join"} /\ ~Leased(s)
        /\ pipeline[s] # "none" => place[s] \notin {"absent", "prepare"}

\* The inductive invariant.
SessInv == SessTypeOK /\ Control /\ Callers /\ Ends

-----------------------------------------------------------------------------
\* One place of a function changes.
LEMMA ExceptAt ==
    ASSUME NEW S, NEW T, NEW f \in [S -> T], NEW x \in S, NEW v \in T
    PROVE  /\ [f EXCEPT ![x] = v] \in [S -> T]
           /\ [f EXCEPT ![x] = v][x] = v
           /\ \A y \in S \ {x} : [f EXCEPT ![x] = v][y] = f[y]
  OBVIOUS

LEMMA InitSessInv == SessInit => SessInv
  <1> SUFFICES ASSUME SessInit PROVE SessInv
    OBVIOUS
  <1>1. TypeOK /\ \A s \in Holders : ~Leased(s)
    BY InitIInv DEF SessInit, IInv, Init, Leased, NoFrame
  <1>2. SessTypeOK
    <2>1. shots \in [Sessions -> 0 .. Discards]
      BY ThreadsAssumption DEF SessInit
    <2> QED
      BY <1>1, <2>1 DEF SessInit, SessTypeOK
  <1>3. Control
    BY ThreadsAssumption DEF SessInit, Control, OnIO, Alive
  <1>4. Callers
    BY <1>1, ThreadsAssumption DEF SessInit, Init, Callers
  <1>5. Ends
    BY DEF SessInit, Ends
  <1> QED
    BY <1>2, <1>3, <1>4, <1>5 DEF SessInv

LEMMA IdleTypes == \A n \in 0 .. MaxBufs : IdleQueue(n) \in Queues(MaxBufs)
  BY DEF IdleQueue, Queues

\* What a step of thread t inside the stream keeps, whatever the other threads do.
LEMMA InsideTypes ==
    ASSUME TypeOK, NEW t \in Threads, fault = "none",
           at[t] = "wrap" => next[t] \in Indices(MaxBufs),
           \/ Alloc(t) \/ QueueAll(t) \/ StartStreaming(t) \/ MarkStarted(t)
           \/ FetchNext(t) \/ Dequeue(t) \/ UseUnbacked(t) \/ CallNext(t)
           \/ CallStop(t) \/ StopStreaming(t) \/ FreeBuffers(t) \/ ResetBuffers(t)
           \/ MarkStopped(t) \/ Throw(t)
    PROVE  /\ TypeOK'
           /\ \A u \in Threads \ {t} : at'[u] = at[u] /\ next'[u] = next[u]
           /\ \A h \in Holders : Leased(h)' = Leased(h)
           /\ at'[t] = "wrap" => next'[t] \in Indices(MaxBufs)
  <1> USE MaxBufsAssumption DEF TypeOK, Goto
  <1>1. CASE Alloc(t)
    <2>1. PICK n \in 1 .. MaxBufs : q' = ReqBufs(n) /\ buffers' = n
      BY <1>1 DEF Alloc
    <2>2. q' \in Queues(MaxBufs)
      BY <2>1, IdleTypes DEF ReqBufs
    <2>3. /\ frame' \in [Holders -> Frames] /\ \A h \in Holders : Leased(h)' = Leased(h)
      BY <1>1, OutdateFields DEF Alloc
    <2> QED
      BY <1>1, <2>1, <2>2, <2>3 DEF Alloc, Places, InStart, InNext, InStop
  <1>2. CASE QueueAll(t)
    <2>1. q' \in Queues(MaxBufs)
      BY <1>2 DEF QueueAll, QBuf, CanQBuf, Free, Queues, Indices
    <2>2. next[t] + 1 \in 0 .. MaxBufs
      BY <1>2 DEF QueueAll
    <2> QED
      BY <1>2, <2>1, <2>2 DEF QueueAll, Leased
  <1>3. CASE StartStreaming(t)
    <2>1. q' \in Queues(MaxBufs)
      BY <1>3 DEF StartStreaming, StreamOn, Queues
    <2>2. next' \in [Threads -> 0 .. MaxBufs] /\ at' \in [Threads -> Places]
      BY <1>3 DEF StartStreaming, Places, InStart, InNext, InStop
    <2> QED
      BY <1>3, <2>1, <2>2 DEF StartStreaming, Leased
  <1>4. CASE MarkStarted(t) \/ FetchNext(t) \/ UseUnbacked(t) \/ CallNext(t) \/ CallStop(t)
              \/ MarkStopped(t)
    <2>1. (at' \in [Threads -> Places] /\ at'[t] # "wrap") \/ UseUnbacked(t)
      BY <1>4 DEF MarkStarted, FetchNext, CallNext, CallStop, MarkStopped, Places, InStart, InNext, InStop
    <2>2. UNCHANGED <<buffers, q, frame, next>> /\ started' \in BOOLEAN
          /\ fault' \in {"none", "null", "terminate"}
      BY <1>4 DEF MarkStarted, FetchNext, UseUnbacked, CallNext, CallStop, MarkStopped
    <2>3. UseUnbacked(t) => UNCHANGED at
      BY DEF UseUnbacked
    <2>4. \A u \in Threads \ {t} : at'[u] = at[u]
      BY <1>4 DEF MarkStarted, FetchNext, UseUnbacked, CallNext, CallStop, MarkStopped
    <2> QED
      BY <2>1, <2>2, <2>3, <2>4 DEF Leased
  <1>5. CASE Dequeue(t)
    <2>1. PICK i \in q.done : q' = DQBuf(q, i) /\ next' = [next EXCEPT ![t] = i]
      BY <1>5 DEF Dequeue
    <2>2. i \in Indices(MaxBufs) /\ i \in 0 .. MaxBufs
      BY <2>1 DEF Queues, Indices
    <2>3. q' \in Queues(MaxBufs)
      BY <2>1 DEF DQBuf, Queues
    <2> QED
      BY <1>5, <2>1, <2>2, <2>3 DEF Dequeue, Leased, Places, InStart, InNext, InStop
  <1>6. CASE StopStreaming(t) \/ FreeBuffers(t)
    <2>1. q' \in Queues(MaxBufs)
      <3>1. \E n \in 0 .. MaxBufs : q' = IdleQueue(n)
        BY <1>6 DEF StopStreaming, FreeBuffers, StreamOff, ReqBufs, Queues
      <3> QED
        BY <3>1, IdleTypes
    <2>2. at' \in [Threads -> Places] /\ at'[t] # "wrap"
      BY <1>6 DEF StopStreaming, FreeBuffers, Places, InStart, InNext, InStop
    <2>3. UNCHANGED <<started, buffers, frame, next, fault>>
          /\ \A u \in Threads \ {t} : at'[u] = at[u]
      BY <1>6 DEF StopStreaming, FreeBuffers
    <2>4. frame' \in [Holders -> Frames] /\ \A h \in Holders : Leased(h)' = Leased(h)
      BY <2>3 DEF Leased
    <2>5. next' \in [Threads -> 0 .. MaxBufs] /\ \A u \in Threads : next'[u] = next[u]
      BY <2>3
    <2> QED
      BY <2>1, <2>2, <2>3, <2>4, <2>5
  <1>7. CASE ResetBuffers(t)
    <2>1. frame' \in [Holders -> Frames] /\ \A h \in Holders : Leased(h)' = Leased(h)
      BY <1>7, OutdateFields DEF ResetBuffers
    <2>2. at' \in [Threads -> Places] /\ at'[t] # "wrap" /\ buffers' \in 0 .. MaxBufs
      BY <1>7 DEF ResetBuffers, Places, InStart, InNext, InStop
    <2> QED
      BY <1>7, <2>1, <2>2 DEF ResetBuffers
  <1>8. CASE Throw(t)
    <2>1. q' \in Queues(MaxBufs)
      <3>1. q' = q \/ \E n \in 0 .. MaxBufs : q' = IdleQueue(n)
        BY <1>8 DEF Throw, ReqBufs
      <3> QED
        BY <3>1, IdleTypes
    <2>2. at' \in [Threads -> Places] /\ at'[t] # "wrap"
          /\ next' \in [Threads -> 0 .. MaxBufs]
      BY <1>8 DEF Throw, Places, InStart, InNext, InStop
    <2>3. UNCHANGED <<started, buffers, frame, fault>>
          /\ \A u \in Threads \ {t} : at'[u] = at[u] /\ next'[u] = next[u]
      BY <1>8 DEF Throw
    <2>4. frame' \in [Holders -> Frames] /\ \A h \in Holders : Leased(h)' = Leased(h)
      BY <2>3 DEF Leased
    <2> QED
      BY <2>1, <2>2, <2>3, <2>4
  <1> QED
    BY <1>1, <1>2, <1>3, <1>4, <1>5, <1>6, <1>7, <1>8

\* A frame is handed out.
LEMMA WrapTypes ==
    ASSUME TypeOK, NEW t \in Threads, NEW h \in Holders, Wrap(t, h),
           next[t] \in Indices(MaxBufs)
    PROVE  /\ TypeOK' /\ at'[t] = "outside" /\ UNCHANGED fault
           /\ \A u \in Threads \ {t} : at'[u] = at[u] /\ next'[u] = next[u]
           /\ \A g \in Holders \ {h} : Leased(g)' = Leased(g)
  <1>1. [idx |-> next[t], fresh |-> TRUE, out |-> TRUE] \in Frames
    BY DEF Frames
  <1>2. frame' \in [Holders -> Frames]
    BY <1>1 DEF Wrap, TypeOK
  <1>3. at' \in [Threads -> Places] /\ next' \in [Threads -> 0 .. MaxBufs]
    BY MaxBufsAssumption DEF Wrap, TypeOK, Goto, Places
  <1> QED
    BY <1>2, <1>3 DEF Wrap, TypeOK, Goto, Leased

\* A frame is given back, or the program ends.
LEMMA ReleaseTypes ==
    ASSUME TypeOK, NEW t \in Threads, NEW h \in Holders,
           Releases(t, h) \/ ReleaseFails(t, h)
    PROVE  /\ TypeOK' /\ UNCHANGED <<at, next>>
           /\ fault' # "none" \/ ~Leased(h)'
           /\ \A g \in Holders \ {h} : Leased(g)' = Leased(g)
           /\ Leased(h)' => Leased(h)
  <1>1. CASE Release(t, h)
    <2>1. q' \in Queues(MaxBufs)
      BY <1>1, MaxBufsAssumption DEF Release, TypeOK, QBuf, CanQBuf, Free, Queues, Indices
    <2>2. frame' \in [Holders -> Frames] /\ ~Leased(h)'
      BY <1>1, MaxBufsAssumption DEF Release, TypeOK, NoFrame, Frames, Indices, Leased
    <2> QED
      BY <1>1, <2>1, <2>2 DEF Release, TypeOK, Leased
  <1>2. CASE ReleaseRefused(t, h) \/ ReleaseUnbacked(t, h) \/ ReleaseFails(t, h)
    BY <1>2 DEF ReleaseRefused, ReleaseUnbacked, ReleaseFails, TypeOK, Leased
  <1> QED
    BY <1>1, <1>2 DEF Releases

-----------------------------------------------------------------------------
InPlaces == {"absent", "prepare", "head", "loop", "next", "got", "body", "error", "drop", "join"}

\* A session moves on, and io says whether its coroutine still runs.
LEMMA PlaceMoves ==
    ASSUME Control, place \in [Sessions -> InPlaces], NEW s \in Sessions, NEW p \in InPlaces,
           GotoPlace(s, p), UNCHANGED limit, io \in {s, "idle"},
           io' = IF p \in OnIO THEN s ELSE "idle",
           limit = 1 => p = "absent" \/ place[s] # "absent" \/ Alive = {}
    PROVE  Control' /\ place' \in [Sessions -> InPlaces] /\ io' \in Sessions \cup {"idle"}
  <1>1. /\ place' \in [Sessions -> InPlaces] /\ place'[s] = p
        /\ \A u \in Sessions \ {s} : place'[u] = place[u]
    BY DEF GotoPlace
  <1>2. io' \in Sessions \cup {"idle"}
    OBVIOUS
  <1>3. \A u \in Sessions : (place[u] \in OnIO <=> io = u)'
    BY <1>1, ThreadsAssumption DEF Control
  <1>4. (limit = 1 => Alive = {} \/ \E u \in Sessions : Alive = {u})'
    <2> SUFFICES ASSUME limit = 1
                 PROVE  Alive' = {} \/ \E u \in Sessions : Alive' = {u}
      OBVIOUS
    <2>1. Alive' = IF p = "absent" THEN Alive \ {s} ELSE Alive \cup {s}
      BY <1>1 DEF Alive
    <2>2. Alive = {} \/ \E u \in Sessions : Alive = {u}
      BY DEF Control
    <2>3. CASE p = "absent"
      BY <2>1, <2>2, <2>3
    <2>4. CASE p # "absent"
      <3>1. Alive = {} \/ s \in Alive
        BY <2>4 DEF Alive
      <3> QED
        BY <2>1, <2>2, <2>4, <3>1
    <2> QED
      BY <2>3, <2>4
  <1> QED
    BY <1>1, <1>2, <1>3, <1>4 DEF Control

\* Nothing of the stream changes.
LEMMA SteadyTypes ==
    ASSUME TypeOK, Steady
    PROVE  TypeOK' /\ UNCHANGED <<at, next, fault>> /\ \A h \in Holders : Leased(h)' = Leased(h)
  BY DEF Steady, vars, TypeOK, Leased

\* With fewer than one session there is none.
LEMMA NoneAlive == ASSUME Cardinality(Alive) < 1 PROVE Alive = {}
  <1>1. IsFiniteSet(Alive)
    BY ThreadsAssumption, FS_Subset DEF Alive
  <1>2. Cardinality(Alive) \in Nat
    BY <1>1, FS_CardinalityType
  <1>3. Cardinality(Alive) = 0
    BY <1>2
  <1> QED
    BY <1>1, <1>3, FS_EmptySet

\* Steps of a session that do not touch the stream.
LEMMA SteadySteps ==
    ASSUME SessInv, fault = "none", ~crashed, NEW s \in Sessions,
           \/ Accept(s) \/ PrepareFails(s) \/ StartPipeline(s) \/ Disconnect(s)
           \/ IsDone(s) \/ Yield(s) \/ (Drop(s) /\ ~Leased(s))
           \/ (Resume(s) \/ Join(s)) /\ Steady /\ ~(place[s] = "body" /\ kind[s] = "stream")
    PROVE  SessInv'
  <1> USE DEF SessInv
  <1>1. /\ TypeOK' /\ UNCHANGED <<at, next, fault>>
        /\ \A h \in Sessions : Leased(h)' = Leased(h)
    BY SteadyTypes, ThreadsAssumption DEF SessTypeOK, Accept, PrepareFails, StartPipeline,
       Disconnect, IsDone, Yield, Drop
  <1>2. place \in [Sessions -> InPlaces] /\ place[s] \in InPlaces
    BY DEF SessTypeOK, InPlaces
  <1>3. PICK p \in InPlaces :
          /\ GotoPlace(s, p) /\ UNCHANGED setting /\ io \in {s, "idle"}
          /\ io' = IF p \in OnIO THEN s ELSE "idle"
          /\ p = "absent" \/ place[s] # "absent" \/ (place[s] = "absent" /\ Accept(s))
    <2>1. CASE Accept(s)
      BY <2>1 DEF Accept, InPlaces, OnIO
    <2>2. CASE PrepareFails(s) \/ StartPipeline(s)
      BY <2>2 DEF PrepareFails, StartPipeline, InPlaces, OnIO
    <2>3. CASE Disconnect(s) \/ IsDone(s) \/ Yield(s)
      BY <2>3 DEF Disconnect, IsDone, Yield, InPlaces, OnIO
    <2>4. CASE Resume(s)
      BY <2>4 DEF Resume, InPlaces, OnIO
    <2>5. CASE Drop(s) /\ ~Leased(s)
      BY <2>5 DEF Drop, InPlaces, OnIO
    <2>6. CASE Join(s)
      BY <2>6 DEF Join, InPlaces, OnIO
    <2> QED
      BY <2>1, <2>2, <2>3, <2>4, <2>5, <2>6
  <1>4. Accept(s) => Alive = {} \/ limit # 1
    BY NoneAlive DEF Accept
  <1>5. Control' /\ place' \in [Sessions -> InPlaces] /\ io' \in Sessions \cup {"idle"}
    BY <1>2, <1>3, <1>4, PlaceMoves DEF setting
  <1>6. /\ kind' \in [Sessions -> {"stream", "snapshot"}]
        /\ shots' \in [Sessions -> 0 .. Discards]
        /\ pipeline' \in [Sessions -> {"none", "running", "stopping"}]
        /\ stop' \in [Sessions -> BOOLEAN]
        /\ UNCHANGED <<chain, limit, crashed>>
    <2>1. CASE Accept(s) \/ PrepareFails(s) \/ Disconnect(s) \/ Yield(s)
      BY <2>1 DEF SessTypeOK, Accept, PrepareFails, Disconnect, Yield, setting
    <2>2. CASE StartPipeline(s)
      BY <2>2, ThreadsAssumption DEF SessTypeOK, StartPipeline, setting
    <2>3. CASE IsDone(s) \/ Resume(s) \/ (Drop(s) /\ ~Leased(s)) \/ Join(s)
      BY <2>3 DEF SessTypeOK, IsDone, Resume, Drop, Join, setting
    <2> QED
      BY <2>1, <2>2, <2>3
  <1>7. SessTypeOK'
    BY <1>1, <1>5, <1>6 DEF SessTypeOK, InPlaces
  <1>8. \A u \in Sessions \ {s} :
          place'[u] = place[u] /\ pipeline'[u] = pipeline[u] /\ stop'[u] = stop[u]
    BY <1>3 DEF SessTypeOK, GotoPlace, Accept, PrepareFails, StartPipeline, Disconnect,
                IsDone, Yield, Drop, Resume, Join
  <1>9. /\ fault = "none" /\ Leased(s) => place'[s] \in {"got", "body", "drop"}
        /\ at[s] # "outside" => pipeline'[s] = "stopping"
        /\ place[s] # "next"
    <2> USE DEF SessTypeOK, Callers, Ends, GotoPlace
    <2>1. CASE Accept(s) \/ PrepareFails(s) \/ Disconnect(s)
      BY <2>1 DEF Accept, PrepareFails, Disconnect
    <2>2. CASE StartPipeline(s)
      BY <2>2 DEF StartPipeline
    <2>3. CASE IsDone(s) \/ Yield(s)
      BY <2>3 DEF IsDone, Yield
    <2>4. CASE Drop(s) /\ ~Leased(s)
      BY <2>4, <1>1 DEF Drop
    <2>5. CASE Resume(s) /\ Steady /\ ~(place[s] = "body" /\ kind[s] = "stream")
      BY <2>5 DEF Resume
    <2>6. CASE Join(s) /\ Steady
      BY <2>6 DEF Join
    <2> QED
      BY <2>1, <2>2, <2>3, <2>4, <2>5, <2>6
  <1>10. Callers'
    BY <1>1, <1>8, <1>9 DEF Callers
  <1>11. /\ pipeline'[s] = "stopping" => stop'[s]
         /\ stop'[s] /\ pipeline'[s] # "none" => place'[s] \in {"drop", "join"} /\ ~Leased(s)
         /\ pipeline'[s] # "none" => place'[s] \notin {"absent", "prepare"}
    <2> USE DEF SessTypeOK, Callers, Ends, GotoPlace
    <2>1. CASE Accept(s) \/ PrepareFails(s) \/ Disconnect(s)
      BY <2>1 DEF Accept, PrepareFails, Disconnect
    <2>2. CASE StartPipeline(s)
      BY <2>2 DEF StartPipeline
    <2>3. CASE IsDone(s) \/ Yield(s)
      BY <2>3 DEF IsDone, Yield
    <2>4. CASE Drop(s) /\ ~Leased(s)
      BY <2>4, <1>1 DEF Drop
    <2>5. CASE Resume(s) /\ Steady /\ ~(place[s] = "body" /\ kind[s] = "stream")
      BY <2>5 DEF Resume
    <2>6. CASE Join(s) /\ Steady
      BY <2>6 DEF Join
    <2> QED
      BY <2>1, <2>2, <2>3, <2>4, <2>5, <2>6
  <1>12. Ends'
    BY <1>1, <1>8, <1>11 DEF Ends
  <1> QED
    BY <1>5, <1>7, <1>10, <1>12

\* A frame goes back while a session's coroutine runs.
LEMMA ReleaseSteps ==
    ASSUME SessInv, fault = "none", ~crashed, NEW s \in Sessions, GiveBack(s),
           \/ Resume(s) /\ place[s] = "body" /\ kind[s] = "stream"
           \/ Discard(s)
           \/ Drop(s) /\ Leased(s)
    PROVE  SessInv'
  <1> USE DEF SessInv
  <1>1. IO \in Threads /\ s \in Holders /\ Holders = Sessions /\ TypeOK
    BY ThreadsAssumption DEF SessTypeOK
  <1>2. /\ TypeOK' /\ UNCHANGED <<at, next>>
        /\ fault' # "none" \/ ~Leased(s)'
        /\ \A g \in Sessions \ {s} : Leased(g)' = Leased(g)
        /\ Leased(s)' => Leased(s)
    BY <1>1, ReleaseTypes DEF GiveBack
  <1>3. place \in [Sessions -> InPlaces] /\ place[s] \in InPlaces
    BY DEF SessTypeOK, InPlaces
  <1>4. CASE Drop(s) /\ Leased(s)
    <2>1. UNCHANGED <<io, place, kind, shots, pipeline, stop, crashed, setting>>
      BY <1>4 DEF Drop
    <2>2. SessTypeOK' /\ Control'
      BY <1>2, <2>1 DEF SessTypeOK, setting, Control, Alive
    <2>3. Callers'
      BY <1>2, <2>1 DEF Callers
    <2>4. Ends'
      BY <1>2, <2>1 DEF Ends
    <2> QED
      BY <2>2, <2>3, <2>4
  <1>5. CASE \/ Resume(s) /\ place[s] = "body" /\ kind[s] = "stream"
             \/ Discard(s)
    <2>1. /\ GotoPlace(s, "loop") /\ UNCHANGED <<kind, pipeline, stop, crashed, setting>>
          /\ io \in {s, "idle"} /\ io' = s /\ place[s] \in {"body", "got"}
          /\ shots' \in [Sessions -> 0 .. Discards]
      BY <1>5, ThreadsAssumption DEF Resume, Discard, SessTypeOK
    <2>2. Control' /\ place' \in [Sessions -> InPlaces] /\ io' \in Sessions \cup {"idle"}
      BY <1>3, <2>1, PlaceMoves DEF setting, OnIO, InPlaces
    <2>3. SessTypeOK'
      BY <1>2, <2>1, <2>2 DEF SessTypeOK, InPlaces, setting
    <2>4. place'[s] = "loop" /\ \A u \in Sessions \ {s} : place'[u] = place[u]
      BY <1>3, <2>1 DEF GotoPlace
    <2>5. Callers'
      BY <1>2, <2>1, <2>4 DEF Callers
    <2>6. Ends'
      BY <1>2, <2>1, <2>4 DEF Ends
    <2> QED
      BY <2>2, <2>3, <2>5, <2>6
  <1> QED
    BY <1>4, <1>5

\* What the io thread does inside Next.
LEMMA NextSteps ==
    ASSUME SessInv, fault = "none", ~crashed, NEW s \in Sessions,
           AskNext(s) \/ InsideNext(s) \/ NextReturns(s) \/ NextThrows(s)
    PROVE  SessInv'
  <1> USE DEF SessInv
  <1>1. /\ IO \in Threads /\ s \in Holders /\ Holders = Sessions /\ TypeOK /\ IO \notin Sessions
        /\ Sessions \subseteq Threads
    BY ThreadsAssumption DEF SessTypeOK
  <1>2. place \in [Sessions -> InPlaces] /\ place[s] \in InPlaces
    BY DEF SessTypeOK, InPlaces
  <1>3. io = s /\ place[s] \in {"loop", "next"} /\ ~Leased(s)
    BY <1>1 DEF AskNext, InsideNext, NextReturns, NextThrows, Callers
  <1>4. /\ UNCHANGED <<kind, shots, pipeline, stop, crashed, setting>>
        /\ stop[s] => pipeline[s] = "none"
    BY <1>3 DEF AskNext, InsideNext, NextReturns, NextThrows, control, Ends
  <1>5. PICK p \in {"next", "got", "drop", "error"} :
          /\ place' = [place EXCEPT ![s] = p]
          /\ io' = IF p \in OnIO THEN s ELSE "idle"
          /\ NextReturns(s) => p = "got"
          /\ p \notin {"drop", "error"} \/ NextThrows(s)
          /\ p # "got" \/ NextReturns(s)
    <2>1. CASE AskNext(s)
      <3>1. ~NextReturns(s)
        BY <2>1 DEF AskNext, NextReturns
      <3> QED
        BY <2>1, <3>1, <1>3 DEF AskNext, GotoPlace, OnIO
    <2>2. CASE InsideNext(s)
      <3>1. place' = place /\ io' = io /\ place[s] = "next"
        BY <2>2 DEF InsideNext, control
      <3>2. place' = [place EXCEPT ![s] = "next"]
        BY <1>2, <3>1
      <3>3. ~NextReturns(s) 
        BY <3>1, <1>2 DEF NextReturns, GotoPlace
      <3> QED
        BY <1>3, <3>1, <3>2, <3>3 DEF OnIO
    <2>3. CASE NextReturns(s)
      BY <2>3 DEF NextReturns, GotoPlace, OnIO
    <2>4. CASE NextThrows(s)
      <3>1. ~NextReturns(s)
        BY <2>4, <1>2 DEF NextThrows, NextReturns, GotoPlace
      <3> QED
        BY <2>4, <3>1, <1>3 DEF NextThrows, GotoPlace, OnIO
    <2> QED
      BY <2>1, <2>2, <2>3, <2>4
  <1>6. Control' /\ place' \in [Sessions -> InPlaces] /\ io' \in Sessions \cup {"idle"}
    BY <1>2, <1>3, <1>4, <1>5, PlaceMoves DEF setting, InPlaces, GotoPlace
  <1>7. place'[s] = p /\ \A u \in Sessions \ {s} : place'[u] = place[u]
    BY <1>2, <1>5
  <1>8. CASE NextReturns(s)
    <2>1. Wrap(IO, s) /\ p = "got"
      BY <1>5, <1>8 DEF NextReturns
    <2>2. next[IO] \in Indices(MaxBufs)
      BY <2>1 DEF Wrap, Callers
    <2>3. /\ TypeOK' /\ at'[IO] = "outside" /\ UNCHANGED fault
          /\ \A u \in Threads \ {IO} : at'[u] = at[u] /\ next'[u] = next[u]
          /\ \A g \in Sessions \ {s} : Leased(g)' = Leased(g)
      BY <1>1, <2>1, <2>2, WrapTypes
    <2>4. SessTypeOK'
      BY <1>4, <1>6, <2>3 DEF SessTypeOK, InPlaces, setting
    <2>5. Callers'
      BY <1>1, <1>4, <1>7, <2>1, <2>3 DEF Callers
    <2>6. Ends'
      BY <1>4, <1>7, <2>1, <2>3 DEF Ends
    <2> QED
      BY <1>6, <2>4, <2>5, <2>6
  <1>9. CASE ~NextReturns(s)
    <2>1. \/ Alloc(IO) \/ QueueAll(IO) \/ StartStreaming(IO) \/ MarkStarted(IO)
          \/ FetchNext(IO) \/ Dequeue(IO) \/ UseUnbacked(IO) \/ CallNext(IO) \/ Throw(IO)
      BY <1>9 DEF AskNext, InsideNext, NextThrows
    <2>2. at[IO] = "wrap" => next[IO] \in Indices(MaxBufs)
      BY DEF Callers
    <2>3. /\ TypeOK'
          /\ \A u \in Threads \ {IO} : at'[u] = at[u] /\ next'[u] = next[u]
          /\ \A h \in Holders : Leased(h)' = Leased(h)
          /\ at'[IO] = "wrap" => next'[IO] \in Indices(MaxBufs)
      BY <1>1, <2>1, <2>2, InsideTypes
    <2>4. SessTypeOK'
      BY <1>4, <1>6, <2>3 DEF SessTypeOK, InPlaces, setting
    <2>5. p = "next" \/ at'[IO] = "outside"
      BY <1>1, <1>5, <1>9 DEF NextThrows, Throw, Goto, TypeOK
    <2>6. Callers'
      BY <1>1, <1>3, <1>4, <1>7, <2>3, <2>5 DEF Callers
    <2>7. Ends'
      BY <1>1, <1>3, <1>4, <1>5, <1>7, <1>9, <2>3 DEF Ends
    <2> QED
      BY <1>6, <2>4, <2>6, <2>7
  <1> QED
    BY <1>8, <1>9

\* What a pipeline thread does with the sink.
LEMMA PipelineSteps ==
    ASSUME SessInv, fault = "none", ~crashed, NEW s \in Sessions,
           PipelineStops(s) \/ InsideStop(s) \/ StopReturns(s) \/ PipelineThrows(s)
    PROVE  SessInv'
  <1> USE DEF SessInv
  <1>1. /\ s \in Threads /\ IO \in Threads /\ Holders = Sessions /\ TypeOK /\ IO \notin Sessions
        /\ Sessions \subseteq Threads
    BY ThreadsAssumption DEF SessTypeOK
  <1>2. /\ UNCHANGED <<io, place, kind, shots, stop, setting>>
        /\ \A u \in Sessions \ {s} : pipeline'[u] = pipeline[u]
        /\ pipeline' \in [Sessions -> {"none", "running", "stopping"}]
        /\ crashed' \in BOOLEAN
    BY DEF PipelineStops, InsideStop, StopReturns, PipelineThrows, control, SessTypeOK
  <1>3. pipeline'[s] = "stopping" => stop[s]
    BY DEF PipelineStops, InsideStop, StopReturns, PipelineThrows, control, SessTypeOK, Ends
  <1>4. pipeline[s] # "none"
    BY DEF PipelineStops, InsideStop, StopReturns, PipelineThrows
  <1>5. /\ TypeOK'
        /\ \A u \in Threads \ {s} : at'[u] = at[u] /\ next'[u] = next[u]
        /\ \A h \in Holders : Leased(h)' = Leased(h)
        /\ at'[s] # "outside" => pipeline'[s] = "stopping"
        /\ UNCHANGED fault
    <2>1. CASE PipelineThrows(s) /\ Steady
      <3>1. pipeline[s] = "running" \/ Throw(s)
        BY <2>1 DEF PipelineThrows
      <3>2. at[s] = "outside" \/ Throw(s)
        BY <3>1 DEF Callers
      <3>3. TypeOK' /\ UNCHANGED <<at, next, fault>> /\ \A h \in Holders : Leased(h)' = Leased(h)
        BY <1>1, <2>1, SteadyTypes
      <3>4. Throw(s) => at'[s] = "outside"
        BY <1>1 DEF Throw, Goto, TypeOK
      <3> QED
        BY <3>2, <3>3, <3>4
    <2>2. CASE ~(PipelineThrows(s) /\ Steady)
      <3>1. \/ CallStop(s) \/ StopStreaming(s) \/ FreeBuffers(s) \/ ResetBuffers(s)
            \/ MarkStopped(s) \/ Throw(s)
        BY <2>2 DEF PipelineStops, InsideStop, StopReturns, PipelineThrows
      <3>2. at[s] # "wrap"
        BY <3>1 DEF CallStop, StopStreaming, FreeBuffers, ResetBuffers, MarkStopped, Throw
      <3>3. /\ TypeOK'
            /\ \A u \in Threads \ {s} : at'[u] = at[u] /\ next'[u] = next[u]
            /\ \A h \in Holders : Leased(h)' = Leased(h)
            /\ UNCHANGED fault
        BY <1>1, <3>1, <3>2, InsideTypes
           DEF CallStop, StopStreaming, FreeBuffers, ResetBuffers, MarkStopped, Throw
      <3>4. CASE PipelineStops(s)
        BY <3>3, <3>4 DEF PipelineStops, SessTypeOK
      <3>5. CASE InsideStop(s)
        BY <3>3, <3>5 DEF InsideStop, control
      <3>6. CASE StopReturns(s)
        BY <1>1, <3>3, <3>6 DEF StopReturns, MarkStopped, Goto, TypeOK
      <3>7. CASE PipelineThrows(s)
        <4>1. at'[s] = "outside"
          BY <1>1, <2>2, <3>7 DEF PipelineThrows, Throw, Goto, TypeOK
        <4> QED
          BY <3>3, <4>1
      <3> QED
        BY <3>3, <3>4, <3>5, <3>6, <3>7
    <2> QED
      BY <2>1, <2>2
  <1>6. SessTypeOK' /\ Control'
    BY <1>2, <1>5 DEF SessTypeOK, setting, Control, Alive
  <1>7. Callers'
    BY <1>1, <1>2, <1>5 DEF Callers
  <1>8. Ends'
    BY <1>1, <1>2, <1>3, <1>4, <1>5 DEF Ends
  <1> QED
    BY <1>6, <1>7, <1>8

\* The device and the destructor touch neither threads nor frames.
LEMMA FillTypes ==
    ASSUME TypeOK, Destroy \/ \E i \in Indices(MaxBufs) : Fill(i)
    PROVE  /\ TypeOK' /\ UNCHANGED <<at, next, fault>>
           /\ \A h \in Holders : Leased(h)' = Leased(h)
  <1>1. CASE Destroy
    <2>1. 0 \in 0 .. MaxBufs
      BY MaxBufsAssumption
    <2>2. q' \in Queues(MaxBufs)
      BY <1>1, <2>1, IdleTypes DEF Destroy, NewQueue
    <2> QED
      BY <1>1, <2>1, <2>2 DEF Destroy, TypeOK, Leased
  <1>2. ASSUME NEW i \in Indices(MaxBufs), Fill(i)
        PROVE  q' \in Queues(MaxBufs)
    BY <1>2 DEF Fill, Complete, Queues, TypeOK
  <1> QED
    BY <1>1, <1>2 DEF Fill, TypeOK, Leased

LEMMA OtherSteps ==
    ASSUME SessInv, fault = "none", ~crashed,
           Device \/ \E s \in Sessions : Join(s) /\ Destroy
    PROVE  SessInv'
  <1> USE DEF SessInv
  <1>1. /\ TypeOK' /\ UNCHANGED <<at, next, fault>>
        /\ \A h \in Sessions : Leased(h)' = Leased(h)
    BY FillTypes, ThreadsAssumption DEF SessTypeOK, Device
  <1>2. CASE Device
    <2>1. UNCHANGED control
      BY <1>2 DEF Device
    <2> QED
      BY <1>1, <2>1 DEF SessTypeOK, Control, Callers, Ends, control, setting, Alive
  <1>3. ASSUME NEW s \in Sessions, Join(s) PROVE SessInv'
    <2>1. /\ GotoPlace(s, "absent") /\ io = s /\ io' = "idle" /\ pipeline[s] = "none"
          /\ place[s] = "join" /\ UNCHANGED <<kind, shots, pipeline, stop, crashed, setting>>
      BY <1>3 DEF Join
    <2>2. place \in [Sessions -> InPlaces]
      BY DEF SessTypeOK, InPlaces
    <2>3. Control' /\ place' \in [Sessions -> InPlaces] /\ io' \in Sessions \cup {"idle"}
      BY <2>1, <2>2, PlaceMoves DEF setting, OnIO, InPlaces
    <2>4. SessTypeOK'
      BY <1>1, <2>1, <2>3 DEF SessTypeOK, InPlaces, setting
    <2>5. place'[s] = "absent" /\ \A u \in Sessions \ {s} : place'[u] = place[u]
      BY <2>1, <2>2 DEF GotoPlace
    <2>6. Callers' /\ Ends'
      BY <1>1, <2>1, <2>5 DEF Callers, Ends
    <2> QED
      BY <2>3, <2>4, <2>6
  <1> QED
    BY <1>2, <1>3

\* Every step keeps the invariant.
LEMMA NextSessInv == SessInv /\ [SessNext]_sessVars => SessInv'
  <1> SUFFICES ASSUME SessInv, [SessNext]_sessVars PROVE SessInv'
    OBVIOUS
  <1>1. CASE UNCHANGED sessVars
    <2>1. UNCHANGED <<started, buffers, q, frame, at, next, fault, io, place, kind, shots,
                      pipeline, stop, crashed, chain, limit>>
      BY <1>1 DEF sessVars, vars, control, setting
    <2> QED
      BY <2>1 DEF SessInv, SessTypeOK, TypeOK, Control, Alive, Callers, Leased, Ends
  <1>2. CASE SessNext
    <2>1. fault = "none" /\ ~crashed
      BY <1>2 DEF SessNext
    <2>2. CASE Device
      BY <2>1, <2>2, OtherSteps
    <2>3. ASSUME NEW s \in Sessions,
                 \/ Accept(s) \/ Resume(s) \/ Disconnect(s) \/ IoStep(s) \/ NextThrows(s)
                 \/ PipelineStep(s) \/ PipelineThrows(s)
          PROVE  SessInv'
      <3>1. CASE Accept(s) \/ Disconnect(s) \/ PrepareFails(s) \/ StartPipeline(s)
                 \/ IsDone(s) \/ Yield(s)
        BY <2>1, <3>1, SteadySteps
      <3>2. CASE Resume(s) \/ Discard(s) \/ Drop(s)
        <4>1. \/ GiveBack(s) /\ \/ Resume(s) /\ place[s] = "body" /\ kind[s] = "stream"
                                \/ Discard(s)
                                \/ Drop(s) /\ Leased(s)
              \/ Drop(s) /\ ~Leased(s)
              \/ Resume(s) /\ Steady /\ ~(place[s] = "body" /\ kind[s] = "stream")
          BY <3>2 DEF Resume, Discard, Drop
        <4> QED
          BY <2>1, <4>1, SteadySteps, ReleaseSteps
      <3>3. CASE AskNext(s) \/ InsideNext(s) \/ NextReturns(s) \/ NextThrows(s)
        BY <2>1, <3>3, NextSteps
      <3>4. CASE Join(s)
        <4>1. \/ Join(s) /\ Destroy
              \/ Join(s) /\ Steady /\ ~(place[s] = "body" /\ kind[s] = "stream")
          BY <3>4 DEF Join
        <4> QED
          BY <2>1, <4>1, SteadySteps, OtherSteps
      <3>5. CASE PipelineStops(s) \/ InsideStop(s) \/ StopReturns(s) \/ PipelineThrows(s)
        BY <2>1, <3>5, PipelineSteps
      <3> QED
        BY <2>3, <3>1, <3>2, <3>3, <3>4, <3>5 DEF IoStep, PipelineStep
    <2> QED
      BY <1>2, <2>2, <2>3 DEF SessNext
  <1> QED
    BY <1>1, <1>2

-----------------------------------------------------------------------------
THEOREM SessionsInvariant == SessSpec => []SessInv
  BY InitSessInv, NextSessInv, PTL DEF SessSpec

\* Sessions keep every variable in its type, however they overlap and fail.
THEOREM SessionsTypeCorrect == SessSpec => []SessTypeOK
  BY SessionsInvariant, PTL DEF SessInv

\* No pipeline thread stops the sink while its own session holds a frame.
THEOREM StopsAfterFrame == SessSpec => []StopsAfterOwnFrame
  <1>1. SessInv => StopsAfterOwnFrame
    BY DEF SessInv, Ends, StopsAfterOwnFrame
  <1> QED
    BY <1>1, SessionsInvariant, PTL

\* No pipeline thread is left behind by its session.
THEOREM ThreadsJoined == SessSpec => []NoThreadOutlives
  <1>1. SessInv => NoThreadOutlives
    BY DEF SessInv, Ends, NoThreadOutlives
  <1> QED
    BY <1>1, SessionsInvariant, PTL

-----------------------------------------------------------------------------
\* While the io thread runs a session that is not at its end, or none, nobody is
\* inside Stop; while it is not in Next, nobody is inside Next.
LEMMA NobodyInside ==
    ASSUME SessInv, \A s \in Sessions : io = s => place[s] \notin {"next", "drop", "join"}
    PROVE  Quiet
  <1>1. at[IO] = "outside"
    BY DEF SessInv, Callers, Control, OnIO
  <1>2. ASSUME NEW s \in Sessions PROVE at[s] = "outside"
    <2> SUFFICES ASSUME at[s] # "outside" PROVE FALSE
      OBVIOUS
    <2>1. place[s] \in {"drop", "join"}
      BY DEF SessInv, Callers, Ends
    <2> QED
      BY <2>1 DEF SessInv, Control, OnIO
  <1> QED
    BY <1>1, <1>2, ThreadsAssumption DEF Quiet

\* A step of sessions that do not overlap is one of MMapStream's discipline.
LEMMA SerialStep == SessInv /\ limit = 1 /\ [SessNext]_sessVars => [Next]_vars
  <1> SUFFICES ASSUME SessInv, limit = 1, SessNext, ~UNCHANGED vars PROVE Next
    BY DEF sessVars
  <1>1. fault = "none" /\ ~Steady
    BY DEF SessNext, Steady
  <1>2. CASE Device
    BY <1>1, <1>2 DEF Device, Next
  <1>3. ASSUME NEW s \in Sessions,
               \/ Accept(s) \/ Resume(s) \/ Disconnect(s) \/ IoStep(s) \/ NextThrows(s)
               \/ PipelineStep(s) \/ PipelineThrows(s)
        PROVE  Next
    <2>0. s \in Threads /\ IO \in Threads /\ s \in Holders /\ Holders = Sessions
      BY ThreadsAssumption
    <2>6. \/ GiveBack(s) /\ (Resume(s) \/ Discard(s) \/ Drop(s))
          \/ AskNext(s) \/ InCall(IO) \/ InCall(s) \/ PipelineStops(s) \/ Destroy
      BY <1>1, <1>3, <2>0
         DEF Accept, Resume, Disconnect, IoStep, NextThrows, PipelineStep, PipelineThrows,
             PrepareFails, StartPipeline, IsDone, InsideNext, NextReturns, Discard, Yield,
             Drop, Join, InsideStop, StopReturns, InCall
    <2>1. CASE GiveBack(s) /\ (Resume(s) \/ Discard(s) \/ Drop(s))
      <3>1. Leased(s)
        BY <2>1 DEF GiveBack, Releases, Release, ReleaseRefused, ReleaseUnbacked, ReleaseFails
      <3>2. Quiet
        <4>1. CASE Resume(s) \/ Discard(s)
          BY <4>1, NobodyInside, ThreadsAssumption DEF Resume, Discard
        <4>2. CASE Drop(s)
          <5>1. io = s /\ place[s] = "drop"
            BY <4>2 DEF Drop
          <5>2. at[IO] = "outside"
            BY <5>1 DEF SessInv, Callers, Control, OnIO
          <5>3. ASSUME NEW u \in Sessions, at[u] # "outside" PROVE FALSE
            <6>1. place[u] \in {"drop", "join"} /\ ~Leased(u)
              BY <5>3 DEF SessInv, Callers, Ends
            <6> QED
              BY <3>1, <5>1, <6>1 DEF SessInv, Control, OnIO
          <5> QED
            BY <5>2, <5>3, ThreadsAssumption DEF Quiet
        <4> QED
          BY <2>1, <4>1, <4>2
      <3> QED
        BY <1>1, <2>0, <2>1, <3>2 DEF Next, GiveBack
    <2>2. CASE AskNext(s)
      <3>1. io = s /\ place[s] = "loop" /\ CallNext(IO)
        BY <2>2 DEF AskNext
      <3>2. Quiet
        BY <3>1, NobodyInside
      <3>3. ~Leased(s)
        BY <1>1, <3>1 DEF SessInv, Callers
      <3> QED
        BY <1>1, <2>0, <3>1, <3>2, <3>3 DEF Next
    <2>3. CASE InCall(IO) \/ InCall(s)
      BY <1>1, <2>0, <2>3 DEF Next
    <2>4. CASE PipelineStops(s)
      <3>1. CallStop(s) /\ at[s] = "outside" /\ ~Leased(s) /\ place[s] \in {"drop", "join"}
        BY <2>4 DEF PipelineStops, CallStop, SessInv, Ends
      <3>2. io = s
        BY <3>1 DEF SessInv, Control, OnIO
      <3>3. at[IO] = "outside"
        BY <3>1, <3>2 DEF SessInv, Callers, Control, OnIO
      <3>4. ASSUME NEW u \in Sessions \ {s} PROVE at[u] = "outside" /\ ~Leased(u)
        <4>1. place[u] = "absent"
          BY <3>1 DEF SessInv, Control, Alive
        <4> QED
          BY <1>1, <4>1 DEF SessInv, Callers, Ends
      <3>5. Quiet /\ \A h \in Holders : ~Leased(h)
        BY <2>0, <3>1, <3>3, <3>4, ThreadsAssumption DEF Quiet
      <3> QED
        BY <1>1, <2>0, <3>1, <3>5 DEF Next
    <2>5. CASE Destroy
      BY <1>1, <2>5 DEF Next
    <2> QED
      BY <2>1, <2>2, <2>3, <2>4, <2>5, <2>6
  <1> QED
    BY <1>2, <1>3 DEF SessNext

\* Sessions that do not overlap keep the discipline of the sink.
THEOREM SerialSessions == SessSpec => FollowsDiscipline
  <1>1. SessInv /\ [SessNext]_sessVars => [limit = 1 => Next]_vars
    <2> SUFFICES ASSUME SessInv, [SessNext]_sessVars PROVE [limit = 1 => Next]_vars
      OBVIOUS
    <2> QED
      BY SerialStep
  <1>2. SessInit => Init
    BY DEF SessInit
  <1> QED
    BY <1>1, <1>2, SessionsInvariant, PTL DEF SessSpec, FollowsDiscipline

\* The number of sessions that may be open is the clients', and stays.
LEMMA LimitStays == [SessNext]_sessVars => limit' = limit
  BY DEF SessNext, sessVars, control, setting, Accept, Resume, Disconnect, IoStep,
         NextThrows, PipelineStep, PipelineThrows, PrepareFails, StartPipeline, IsDone,
         AskNext, InsideNext, NextReturns, Discard, Yield, Drop, Join, PipelineStops,
         InsideStop, StopReturns, Device

\* While they keep it, MMapStream's invariant holds.
LEMMA SerialIInv == SessSpec => [](limit = 1 => IInv)
  <1>1. SessInit => (limit = 1 => IInv)
    BY InitIInv DEF SessInit
  <1>2. SessInv /\ (limit = 1 => IInv) /\ [SessNext]_sessVars => (limit = 1 => IInv)'
    <2> SUFFICES ASSUME SessInv, limit = 1 => IInv, [SessNext]_sessVars, limit' = 1
                 PROVE  IInv'
      OBVIOUS
    <2> QED
      BY LimitStays, SerialStep, NextIInv
  <1> QED
    BY <1>1, <1>2, SessionsInvariant, PTL DEF SessSpec

\* So they have what MMapStream promises: unless the device fails at the very QBUF of a
\* frame's destructor, the program does not die there, nor over buffers that are gone;
\* frames are exclusive, none is lost.
THEOREM SerialSessionsSafe == SessSpec => [](limit = 1 => OnlyDeviceKills /\ OneOwner)
  <1>1. IInv => OnlyDeviceKills /\ OneOwner
    BY DEF IInv, OneOwner
  <1> QED
    BY <1>1, SerialIInv, PTL

\* And such sessions, with the pipeline's Stop and the sink's device, use the sink as
\* Supply allows: this is what Pipeline's client does.
THEOREM SerialSessionsSupply ==
    SessSpec => Supplies!Init /\ [][limit = 1 => SupplyStep]_vars
  <1>1. Init => Supplies!Init
    BY InitSupplies
  <1>2. /\ SessInv /\ [SessNext]_sessVars
        /\ (limit = 1 => IInv) /\ (limit = 1 => IInv)'
        => [limit = 1 => SupplyStep]_vars
    <2> SUFFICES ASSUME SessInv, [SessNext]_sessVars, limit = 1 => IInv, (limit = 1 => IInv)',
                        limit = 1
                 PROVE  SupplyStep
      OBVIOUS
    <2>1. IInv /\ IInv' /\ [Next]_vars
      BY LimitStays, SerialStep
    <2> QED
      BY <2>1, SupplyNext
  <1>3. SessInit => Init
    BY DEF SessInit
  <1> QED
    BY <1>1, <1>2, <1>3, SessionsInvariant, SerialIInv, PTL DEF SessSpec

=============================================================================
