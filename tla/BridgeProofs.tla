----------------------------- MODULE BridgeProofs ----------------------------
(***************************************************************************)
(* Theorems about Bridge for every number of buffers and of runs.          *)
(***************************************************************************)
EXTENDS Bridge, FiniteSetTheorems, TLAPS

-----------------------------------------------------------------------------
\* The buffers the kernel holds are finitely many.
LEMMA HeldFinite ==
    ASSUME NEW max \in Nat, NEW q \in Queues(max)
    PROVE  IsFiniteSet(KernelHolds(q))
  <1>1. IsFiniteSet(Indices(max))
    BY FS_Interval DEF Indices
  <1>2. KernelHolds(q) \subseteq Indices(max)
    BY DEF Queues, KernelHolds
  <1> QED
    BY <1>1, <1>2, FS_Subset

\* Queueing a buffer the program owns adds one to what the kernel holds...
LEMMA QBufCard ==
    ASSUME NEW max \in Nat, NEW q \in Queues(max), NEW i, CanQBuf(q, i)
    PROVE  Cardinality(KernelHolds(QBuf(q, i))) = Cardinality(KernelHolds(q)) + 1
  <1>1. KernelHolds(QBuf(q, i)) = KernelHolds(q) \cup {i}
    BY DEF QBuf, KernelHolds
  <1>2. i \notin KernelHolds(q)
    BY DEF CanQBuf, Free
  <1> QED
    BY <1>1, <1>2, HeldFinite, FS_AddElement

\* ...and dequeueing one takes it away.
LEMMA DQBufCard ==
    ASSUME NEW max \in Nat, NEW q \in Queues(max), NEW i \in q.done,
           q.queued \cap q.done = {}
    PROVE  /\ Cardinality(KernelHolds(DQBuf(q, i))) = Cardinality(KernelHolds(q)) - 1
           /\ Cardinality(KernelHolds(q)) \in Nat \ {0}
  <1>1. KernelHolds(DQBuf(q, i)) = KernelHolds(q) \ {i}
    BY DEF DQBuf, KernelHolds
  <1>2. i \in KernelHolds(q)
    BY DEF KernelHolds
  <1>3. Cardinality(KernelHolds(q) \ {i}) = Cardinality(KernelHolds(q)) - 1
    BY <1>2, HeldFinite, FS_RemoveElement
  <1>4. IsFiniteSet(KernelHolds(q)) /\ KernelHolds(q) # {}
    BY <1>2, HeldFinite
  <1>5. Cardinality(KernelHolds(q)) \in Nat \ {0}
    BY <1>4, FS_CardinalityType, FS_EmptySet
  <1> QED
    BY <1>1, <1>3, <1>5

-----------------------------------------------------------------------------

\* What a queue's fields have to do with each other.
WellFormed(q) ==
    /\ KernelHolds(q) \subseteq Indices(q.alloc)
    /\ q.queued \cap q.done = {}

\* Where the thread is tells what the queues hold.
Phases ==
    /\ WellFormed(cap) /\ WellFormed(out)
    /\ ~out.streaming => KernelHolds(out) = {}
    /\ pc \notin {"forward", "recycle"} => held = {}
    /\ pc \in {"forward", "recycle"} => \E i \in Indices(fds) : held = {i}
    /\ open >= fds
    /\ pc = "export" => next <= cap.alloc /\ open >= fds + next
    /\ pc \in {"export", "reqout"} =>
         ~cap.streaming /\ KernelHolds(cap) = {} /\ cap.alloc > 0
    /\ pc \in {"reqout", "queue", "capon"} \cup Loop => cap.alloc = fds
    /\ pc \in {"queue", "capon"} \cup Loop => out.alloc = fds /\ stale = {}
    /\ pc \in {"capon"} \cup Loop => out.streaming
    /\ pc \in {"queue", "capon"} => KernelHolds(out) = {}
    /\ pc = "queue" =>
         next <= fds /\ KernelHolds(cap) = Indices(next) /\ ~cap.streaming
    /\ pc = "capon" => KernelHolds(cap) = Indices(fds)
    /\ pc \in {"capfree", "outoff", "outfree"} =>
         ~cap.streaming /\ KernelHolds(cap) = {}
    /\ pc \in {"outfree", "idle"} => ~out.streaming
    /\ pc = "idle" => fds = 0 /\ KernelHolds(cap) = {}

\* The inductive invariant.
IInv ==
    /\ TypeOK
    /\ Exclusive
    /\ Conserved
    /\ Phases
    /\ GaugesCoverQueues

THEOREM InitIInv == Init => IInv
  <1> SUFFICES ASSUME Init PROVE IInv
    OBVIOUS
  <1>1. TypeOK /\ Exclusive /\ Conserved /\ Phases
    BY MaxBufsAssumption, MaxRunsAssumption
    DEF Init, TypeOK, Exclusive, Conserved, Phases, WellFormed, KernelHolds,
        NewQueue, IdleQueue, Queues, Indices, Places, Loop, Starting, Stopping
  <1>2. KernelHolds(cap) = {} /\ KernelHolds(out) = {}
    BY DEF Init, KernelHolds, NewQueue, IdleQueue
  <1>3. GaugesCoverQueues
    BY <1>2, FS_EmptySet DEF Init, GaugesCoverQueues
  <1> QED
    BY <1>1, <1>3 DEF IInv

\* A gauge that is about to be decremented is positive.
LEMMA GaugeRoom ==
    ASSUME IInv
    PROVE  /\ \A i \in cap.done : capCount - 1 \in Nat
           /\ \A i \in out.done : outCount - 1 \in Nat
  <1>1. /\ MaxBufs \in Nat /\ cap \in Queues(MaxBufs) /\ out \in Queues(MaxBufs)
        /\ cap.queued \cap cap.done = {} /\ out.queued \cap out.done = {}
        /\ capCount \in Nat /\ outCount \in Nat
    BY MaxBufsAssumption DEF IInv, TypeOK, Phases, WellFormed
  <1>2. /\ capCount >= Cardinality(KernelHolds(cap))
        /\ outCount >= Cardinality(KernelHolds(out))
    BY DEF IInv, GaugesCoverQueues
  <1>3. ASSUME NEW i \in cap.done PROVE capCount - 1 \in Nat
    <2>1. Cardinality(KernelHolds(cap)) \in Nat \ {0}
      BY <1>1, <1>3, DQBufCard
    <2> QED
      BY <1>1, <1>2, <2>1
  <1>4. ASSUME NEW i \in out.done PROVE outCount - 1 \in Nat
    <2>1. Cardinality(KernelHolds(out)) \in Nat \ {0}
      BY <1>1, <1>4, DQBufCard
    <2> QED
      BY <1>1, <1>2, <2>1
  <1> QED
    BY <1>3, <1>4

THEOREM Shape == IInv /\ Next => (TypeOK /\ Exclusive /\ Conserved /\ Phases)'
  <1> SUFFICES ASSUME IInv, Next PROVE (TypeOK /\ Exclusive /\ Conserved /\ Phases)'
    OBVIOUS
  <1> USE MaxBufsAssumption, MaxRunsAssumption DEF IInv, TypeOK, Exclusive, Conserved, Phases, WellFormed, KernelHolds,
        NewQueue, IdleQueue, Queues, Indices, Places, Loop, Starting, Stopping, counters
  <1>1. CASE Start
    BY <1>1 DEF Start
  <1>2. CASE AllocCapture
    BY <1>2 DEF AllocCapture, ReqBufs, CanReqBufs
  <1>20. CASE ExportBuffer
    BY <1>20 DEF ExportBuffer
  <1>3. CASE Export
    BY <1>3 DEF Export
  <1>4. CASE AllocOutput
    BY <1>4 DEF AllocOutput, ReqBufs, CanReqBufs
  <1>5. CASE QueueCapture
    BY <1>5 DEF QueueCapture, QueueBuffer, QBuf, CanQBuf, Free
  <1>6. CASE StreamOnOutput
    BY <1>6 DEF StreamOnOutput, CanStreamOn, StreamOn
  <1>7. CASE StreamOnCapture
    BY <1>7 DEF StreamOnCapture, CanStreamOn, StreamOn
  <1>9. CASE ReadQueue
    <2>1. PICK i \in held : CanQBuf(out, i) /\ out' = QBuf(out, i)
      BY <1>9 DEF ReadQueue
    <2>2. held = {i} /\ i \in Indices(fds)
      BY <1>9 DEF ReadQueue
    <2>3. out' = [alloc |-> out.alloc, streaming |-> out.streaming,
                  queued |-> out.queued \cup {i}, done |-> out.done]
      BY <2>1 DEF QBuf
    <2>4. pc' = "poll" /\ held' = {} /\ outCount' = outCount + 1
          /\ UNCHANGED <<next, fds, open, cap, stale, capCount, runs>>
      BY <1>9 DEF ReadQueue
    <2>5. TypeOK'
      BY <2>2, <2>3, <2>4
    <2>6. Exclusive' /\ Conserved'
      BY <1>9, <2>2, <2>3, <2>4 DEF ReadQueue
    <2>7. Phases'
      <3>1. pc = "forward" /\ out.alloc = fds /\ cap.alloc = fds /\ stale = {}
        BY <1>9 DEF ReadQueue
      <3>2. out'.streaming
        BY <2>3, <3>1
      <3>3. WellFormed(cap)' /\ WellFormed(out)'
        BY <2>1, <2>2, <2>3, <2>4, <3>1 DEF CanQBuf, Free
      <3> QED
        BY <2>3, <2>4, <3>1, <3>2, <3>3
    <2> QED
      BY <2>5, <2>6, <2>7
  <1>11. CASE WriteQueue
    BY <1>11 DEF WriteQueue, QueueBuffer, QBuf, CanQBuf, Free
  <1>12. CASE Stop
    BY <1>12 DEF Stop
  <1>13. CASE StopCapture
    BY <1>13 DEF StopCapture, StreamOff
  <1>14. CASE FreeCapture
    BY <1>14 DEF FreeCapture, ReqBufs, CanReqBufs
  <1>15. CASE StopOutput
    BY <1>15 DEF StopOutput, StreamOff
  <1>16. CASE FreeOutput
    BY <1>16 DEF FreeOutput, ReqBufs, CanReqBufs
  <1>17. CASE Throw
    BY <1>17 DEF Throw
  <1>18. CASE Release
    BY <1>18 DEF Release
  <1>19. CASE DeviceStep
    <2>1. PICK i \in Indices(MaxBufs) : CaptureFills(i) \/ OutputConsumes(i)
      BY <1>19 DEF DeviceStep
    <2>2. CASE CaptureFills(i)
      BY <2>1, <2>2 DEF CaptureFills, CanComplete, Complete
    <2>3. CASE OutputConsumes(i)
      BY <2>1, <2>3 DEF OutputConsumes, CanComplete, Complete
    <2> QED
      BY <2>1, <2>2, <2>3
  <1>8. CASE ReadDequeue
    <2>1. PICK i \in cap.done : CanDQBuf(cap, i) /\ cap' = DQBuf(cap, i) /\ held' = {i}
      BY <1>8 DEF ReadDequeue
    <2>2. cap' = [alloc |-> cap.alloc, streaming |-> cap.streaming,
                  queued |-> cap.queued, done |-> cap.done \ {i}]
      BY <2>1 DEF DQBuf
    <2>3. capCount - 1 \in Nat
      BY <2>1, GaugeRoom
    <2>4. pc = "poll" /\ pc' = "forward" /\ capCount' = capCount - 1
          /\ UNCHANGED <<next, fds, open, out, stale, outCount, runs>>
      BY <1>8 DEF ReadDequeue
    <2>5. TypeOK'
      BY <2>1, <2>2, <2>3, <2>4
    <2>6. Exclusive' /\ Conserved'
      BY <2>1, <2>2, <2>4
    <2>7. Phases'
      BY <2>1, <2>2, <2>4
    <2> QED
      BY <2>5, <2>6, <2>7
  <1>10. CASE WriteDequeue
    <2>1. PICK i \in out.done : CanDQBuf(out, i) /\ out' = DQBuf(out, i) /\ held' = {i}
      BY <1>10 DEF WriteDequeue
    <2>2. out' = [alloc |-> out.alloc, streaming |-> out.streaming,
                  queued |-> out.queued, done |-> out.done \ {i}]
      BY <2>1 DEF DQBuf
    <2>3. outCount - 1 \in Nat
      BY <2>1, GaugeRoom
    <2>4. pc = "poll" /\ pc' = "recycle" /\ outCount' = outCount - 1
          /\ UNCHANGED <<next, fds, open, cap, stale, capCount, runs>>
      BY <1>10 DEF WriteDequeue
    <2>5. TypeOK'
      BY <2>1, <2>2, <2>3, <2>4
    <2>6. Exclusive' /\ Conserved'
      BY <2>1, <2>2, <2>4
    <2>7. Phases'
      BY <2>1, <2>2, <2>4
    <2> QED
      BY <2>5, <2>6, <2>7
  <1> QED
    BY <1>1, <1>2, <1>3, <1>4, <1>5, <1>6, <1>7, <1>8, <1>9, <1>10, <1>11, <1>12, <1>13, <1>14, <1>15, <1>16, <1>17, <1>18, <1>19, <1>20 DEF Next, BridgeStep

-----------------------------------------------------------------------------
\* How one step moves a gauge together with the queue it counts.
Tracks(count, q) ==
    \/ count' = count /\ Cardinality(KernelHolds(q))' = Cardinality(KernelHolds(q))
    \/ count' = count + 1 /\ Cardinality(KernelHolds(q))' = Cardinality(KernelHolds(q)) + 1
    \/ count' = count - 1 /\ Cardinality(KernelHolds(q))' = Cardinality(KernelHolds(q)) - 1

\* A queue emptied behind the gauge's back.
Drops(count, q) == count' = count /\ KernelHolds(q)' = {}

\* In every step each gauge follows its queue, or the queue is emptied: by a
\* REQBUFS before the loop, by Stop, or by the destructor.
LEMMA GaugeSteps ==
    ASSUME IInv, Next
    PROVE  /\ \/ Tracks(capCount, cap)
              \/ Drops(capCount, cap) /\ (AllocCapture \/ StopCapture \/ FreeCapture \/ Release)
           /\ \/ Tracks(outCount, out)
              \/ Drops(outCount, out) /\ (AllocOutput \/ StopOutput \/ FreeOutput \/ Release)
  <1>1. /\ MaxBufs \in Nat /\ cap \in Queues(MaxBufs) /\ out \in Queues(MaxBufs)
        /\ cap.queued \cap cap.done = {} /\ out.queued \cap out.done = {}
    BY MaxBufsAssumption DEF IInv, TypeOK, Phases, WellFormed
  <1> USE DEF Tracks, Drops, counters
  <1>2. CASE Start \/ ExportBuffer \/ Export \/ StreamOnOutput \/ StreamOnCapture \/ Stop \/ Throw
    <2>1. UNCHANGED <<capCount, outCount, cap.queued, cap.done, out.queued, out.done>>
      BY <1>1, <1>2 DEF Start, ExportBuffer, Export, StreamOnOutput, StreamOnCapture,
                   Stop, Throw, StreamOn, Queues
    <2>2. UNCHANGED <<KernelHolds(cap), KernelHolds(out)>>
      BY <2>1 DEF KernelHolds
    <2> QED
      BY <2>1, <2>2
  <1>3. CASE AllocCapture \/ StopCapture \/ FreeCapture
    <2>1. \E n \in Nat : cap' = IdleQueue(n)
      BY <1>1, <1>3 DEF AllocCapture, StopCapture, FreeCapture, StreamOff, ReqBufs, Queues
    <2>2. KernelHolds(cap)' = {}
      BY <2>1 DEF IdleQueue, KernelHolds
    <2>3. UNCHANGED <<out, capCount, outCount>>
      BY <1>3 DEF AllocCapture, StopCapture, FreeCapture
    <2>4. UNCHANGED KernelHolds(out)
      BY <2>3 DEF KernelHolds
    <2> QED
      BY <1>3, <2>2, <2>3, <2>4
  <1>4. CASE AllocOutput \/ StopOutput \/ FreeOutput
    <2>1. \E n \in Nat : out' = IdleQueue(n)
      BY <1>1, <1>4 DEF AllocOutput, StopOutput, FreeOutput, StreamOff, ReqBufs, Queues
    <2>2. KernelHolds(out)' = {}
      BY <2>1 DEF IdleQueue, KernelHolds
    <2>3. UNCHANGED <<cap, capCount, outCount>>
      BY <1>4 DEF AllocOutput, StopOutput, FreeOutput
    <2>4. UNCHANGED KernelHolds(cap)
      BY <2>3 DEF KernelHolds
    <2> QED
      BY <1>4, <2>2, <2>3, <2>4
  <1>5. CASE Release
    BY <1>5 DEF Release, NewQueue, IdleQueue, KernelHolds
  <1>6. CASE QueueCapture
    BY <1>1, <1>6, QBufCard DEF QueueCapture, QueueBuffer
  <1>7. CASE WriteQueue
    BY <1>1, <1>7, QBufCard DEF WriteQueue, QueueBuffer
  <1>8. CASE ReadQueue
    BY <1>1, <1>8, QBufCard DEF ReadQueue
  <1>9. CASE ReadDequeue
    BY <1>1, <1>9, DQBufCard DEF ReadDequeue
  <1>10. CASE WriteDequeue
    BY <1>1, <1>10, DQBufCard DEF WriteDequeue
  <1>11. CASE DeviceStep
    <2>1. PICK i \in Indices(MaxBufs) : CaptureFills(i) \/ OutputConsumes(i)
      BY <1>11 DEF DeviceStep
    <2>2. CASE CaptureFills(i)
      BY <2>2 DEF CaptureFills, CanComplete, Complete, KernelHolds
    <2>3. CASE OutputConsumes(i)
      BY <2>3 DEF OutputConsumes, CanComplete, Complete, KernelHolds
    <2> QED
      BY <2>1, <2>2, <2>3
  <1> QED
    BY <1>2, <1>3, <1>4, <1>5, <1>6, <1>7, <1>8, <1>9, <1>10, <1>11
       DEF Next, BridgeStep

THEOREM GaugesNext == IInv /\ Next => GaugesCoverQueues'
  <1> SUFFICES ASSUME IInv, Next PROVE GaugesCoverQueues'
    OBVIOUS
  <1>1. Tracks(capCount, cap) \/ Drops(capCount, cap)
    BY GaugeSteps
  <1>2. Tracks(outCount, out) \/ Drops(outCount, out)
    BY GaugeSteps
  <1>3. cap \in Queues(MaxBufs) /\ out \in Queues(MaxBufs) /\ capCount \in Nat /\ outCount \in Nat
    BY DEF IInv, TypeOK
  <1>4. Cardinality(KernelHolds(cap)) \in Nat /\ Cardinality(KernelHolds(out)) \in Nat
    BY <1>3, HeldFinite, FS_CardinalityType, MaxBufsAssumption
  <1>5. capCount >= Cardinality(KernelHolds(cap)) /\ outCount >= Cardinality(KernelHolds(out))
    BY DEF IInv, GaugesCoverQueues
  <1>6. Cardinality({}) = 0
    BY FS_EmptySet
  <1>7. capCount' >= Cardinality(KernelHolds(cap))'
    BY <1>1, <1>3, <1>4, <1>5, <1>6 DEF Tracks, Drops
  <1>8. outCount' >= Cardinality(KernelHolds(out))'
    BY <1>2, <1>3, <1>4, <1>5, <1>6 DEF Tracks, Drops
  <1> QED
    BY <1>7, <1>8 DEF GaugesCoverQueues

\* IInv is inductive.
THEOREM IInvInductive == IInv /\ [Next]_vars => IInv'
  <1> SUFFICES ASSUME IInv, [Next]_vars PROVE IInv'
    OBVIOUS
  <1>1. CASE Next
    BY <1>1, Shape, GaugesNext DEF IInv
  <1>2. CASE UNCHANGED vars
    BY <1>2 DEF vars, IInv, TypeOK, Exclusive, Conserved, Phases, WellFormed,
                GaugesCoverQueues, KernelHolds
  <1> QED
    BY <1>1, <1>2

THEOREM Invariance == Spec => []IInv
  <1> QED
    BY InitIInv, IInvInductive, PTL DEF Spec

\* Every variable keeps its type and no gauge becomes negative.
THEOREM TypeCorrect == Spec => []TypeOK
  BY Invariance, PTL DEF IInv

\* No buffer ever has two owners.
THEOREM ExclusiveOwnership == Spec => []Exclusive
  BY Invariance, PTL DEF IInv

\* The poll loop never loses a buffer.
THEOREM Conservation == Spec => []Conserved
  BY Invariance, PTL DEF IInv

\* Each buffer of a running loop has exactly one owner.
THEOREM OneOwnerEach == Spec => []OneOwner
  BY ExclusiveOwnership, Conservation, PTL DEF OneOwner

\* The loop never runs over buffers imported from closed fds.
THEOREM FreshImports == Spec => []NoStaleImport
  <1>1. IInv => NoStaleImport
    BY DEF IInv, Phases, NoStaleImport
  <1> QED
    BY <1>1, Invariance, PTL

\* The gauges never show fewer buffers than the devices hold.
THEOREM GaugesCover == Spec => []GaugesCoverQueues
  BY Invariance, PTL DEF IInv

\* Outside a failure the DMA fds are closed only when no device holds a buffer.
THEOREM ClosesIdle == Spec => ClosesIdleBuffers
  <1>1. ASSUME IInv, [Next]_vars
        PROVE  [pc # "thrown" /\ fds > 0 /\ fds' = 0 =>
                  KernelHolds(cap) = {} /\ KernelHolds(out) = {}]_vars
    <2> SUFFICES ASSUME Next, pc # "thrown", fds > 0, fds' = 0
                 PROVE  KernelHolds(cap) = {} /\ KernelHolds(out) = {}
      BY <1>1
    <2>1. fds' # fds
      OBVIOUS
    <2>2. Export \/ FreeOutput \/ Release
      BY <2>1 DEF Next, BridgeStep, Start, AllocCapture, ExportBuffer, AllocOutput, QueueCapture,
          StreamOnOutput, StreamOnCapture, ReadDequeue, ReadQueue, WriteDequeue,
          WriteQueue, Stop, StopCapture, FreeCapture, StopOutput, Throw,
          DeviceStep, CaptureFills, OutputConsumes
    <2>3. CASE Export
      BY <1>1, <2>3 DEF Export, IInv, TypeOK, Queues, Phases
    <2>4. CASE FreeOutput
      BY <1>1, <2>4 DEF FreeOutput, IInv, Phases
    <2>5. CASE Release
      BY <1>1, <2>5 DEF Release, IInv, Phases, TypeOK
    <2> QED
      BY <2>2, <2>3, <2>4, <2>5
  <1> QED
    BY <1>1, Invariance, PTL DEF Spec, ClosesIdleBuffers

\* Closing takes no more fds than are open, and only an EXPBUF that fails after
\* others succeeded leaves fds nobody closes.
THEOREM LosesHalfExports == Spec => LosesOnlyHalfExports
  <1>1. ASSUME IInv, [Next]_vars
        PROVE  [Lost' # Lost => pc = "export" /\ pc' = "thrown" /\ Lost' = Lost + next]_vars
    <2> SUFFICES ASSUME Next
                 PROVE  Lost' # Lost => pc = "export" /\ pc' = "thrown" /\ Lost' = Lost + next
      BY <1>1
    <2>1. open \in Nat /\ fds \in Nat /\ next \in Nat /\ cap.alloc \in Nat
      BY <1>1, MaxBufsAssumption DEF IInv, TypeOK, Queues
    <2>2. CASE AllocCapture \/ ExportBuffer \/ Export
      BY <2>1, <2>2 DEF AllocCapture, ExportBuffer, Export, Lost
    <2>3. CASE FreeOutput \/ Release
      BY <2>1, <2>3 DEF FreeOutput, Release, Lost
    <2>4. CASE Throw
      BY <2>1, <2>4 DEF Throw, Lost
    <2>5. CASE Start \/ AllocOutput \/ QueueCapture \/ StreamOnOutput \/ StreamOnCapture
      BY <2>5 DEF Start, AllocOutput, QueueCapture, StreamOnOutput, StreamOnCapture, Lost
    <2>6. CASE ReadDequeue \/ ReadQueue \/ WriteDequeue \/ WriteQueue
      BY <2>6 DEF ReadDequeue, ReadQueue, WriteDequeue, WriteQueue, Lost
    <2>7. CASE Stop \/ StopCapture \/ FreeCapture \/ StopOutput
      BY <2>7 DEF Stop, StopCapture, FreeCapture, StopOutput, Lost
    <2>8. CASE DeviceStep
      BY <2>8 DEF DeviceStep, CaptureFills, OutputConsumes, Lost
    <2> QED
      BY <2>2, <2>3, <2>4, <2>5, <2>6, <2>7, <2>8 DEF Next, BridgeStep
  <1> QED
    BY <1>1, Invariance, PTL DEF Spec, LosesOnlyHalfExports

\* DMA fds are closed when their buffers are idle, and lost by half-made exports only.
THEOREM FdsFollow == Spec => FdsFollowBuffers
  BY ClosesIdle, LosesHalfExports, PTL DEF FdsFollowBuffers

-----------------------------------------------------------------------------
\* A strengthening for the first run: nothing is dropped behind the gauges
\* before the loop is left.
FirstRun ==
    /\ runs = 0 => pc = "idle"
    /\ runs = 1 /\ pc \in {"plan", "export", "reqout"} =>
         KernelHolds(cap) = {} /\ KernelHolds(out) = {}
    /\ runs = 0 \/ (runs = 1 /\ pc \in Starting \cup Loop) =>
         /\ capCount = Cardinality(KernelHolds(cap))
         /\ outCount = Cardinality(KernelHolds(out))

LEMMA FirstRunInductive == IInv /\ FirstRun /\ [Next]_vars => FirstRun'
  <1> SUFFICES ASSUME IInv, FirstRun, [Next]_vars PROVE FirstRun'
    OBVIOUS
  <1>1. runs \in Nat /\ capCount \in Nat /\ outCount \in Nat
    BY MaxRunsAssumption DEF IInv, TypeOK
  <1>2. CASE UNCHANGED vars
    BY <1>2 DEF vars, FirstRun, KernelHolds
  <1>3. CASE Start
    <2>1. UNCHANGED <<cap, out, capCount, outCount>> /\ runs' = runs + 1 /\ pc' = "plan"
      BY <1>3 DEF Start, counters
    <2>2. runs = 0 => KernelHolds(cap) = {} /\ KernelHolds(out) = {}
      BY DEF FirstRun, IInv, Phases
    <2>3. UNCHANGED <<KernelHolds(cap), KernelHolds(out)>>
      BY <2>1 DEF KernelHolds
    <2> QED
      BY <1>1, <2>1, <2>2, <2>3 DEF FirstRun
  <1>4. CASE Release
    BY <1>1, <1>4 DEF Release, FirstRun, Starting, Loop
  <1>5. ASSUME Next, ~Start, ~Release PROVE FirstRun'
    <2>1. runs' = runs
      BY <1>5 DEF Next, BridgeStep, AllocCapture, ExportBuffer, Export, AllocOutput,
          QueueCapture, StreamOnOutput, StreamOnCapture, ReadDequeue, ReadQueue,
          WriteDequeue, WriteQueue, Stop, StopCapture, FreeCapture, StopOutput,
          FreeOutput, Throw, DeviceStep, CaptureFills, OutputConsumes
    <2>2. runs # 0
      <3> SUFFICES ASSUME runs = 0 PROVE FALSE
        OBVIOUS
      <3>1. pc = "idle" /\ cap.queued = {} /\ out.queued = {}
        BY DEF FirstRun, IInv, Phases, KernelHolds
      <3>2. DeviceStep
        BY <1>5, <3>1 DEF Next, BridgeStep, AllocCapture, ExportBuffer, Export, AllocOutput,
          QueueCapture, StreamOnOutput, StreamOnCapture, ReadDequeue, ReadQueue,
          WriteDequeue, WriteQueue, Stop, StopCapture, FreeCapture, StopOutput,
          FreeOutput, Throw, Starting, Loop, Stopping
      <3> QED
        BY <3>1, <3>2 DEF DeviceStep, CaptureFills, OutputConsumes, CanComplete
    <2> SUFFICES ASSUME runs = 1, pc' \in Starting \cup Loop
                 PROVE  FirstRun'
      BY <1>1, <2>1, <2>2 DEF FirstRun, Starting
    <2>3. pc \in Starting \cup Loop
      BY <1>5 DEF Next, BridgeStep, AllocCapture, ExportBuffer, Export, AllocOutput,
          QueueCapture, StreamOnOutput, StreamOnCapture, ReadDequeue, ReadQueue,
          WriteDequeue, WriteQueue, Stop, StopCapture, FreeCapture, StopOutput,
          FreeOutput, Throw, DeviceStep, CaptureFills, OutputConsumes,
          Starting, Loop
    <2>4. /\ capCount = Cardinality(KernelHolds(cap))
          /\ outCount = Cardinality(KernelHolds(out))
      BY <2>3 DEF FirstRun
    <2>5. Tracks(capCount, cap) \/ (Drops(capCount, cap) /\ KernelHolds(cap) = {})
      BY <1>5, <2>3, GaugeSteps DEF FirstRun, AllocCapture, StopCapture, FreeCapture,
         Starting, Loop
    <2>6. Tracks(outCount, out) \/ (Drops(outCount, out) /\ KernelHolds(out) = {})
      BY <1>5, <2>3, GaugeSteps DEF FirstRun, AllocOutput, StopOutput, FreeOutput,
         Starting, Loop
    <2>7. /\ capCount' = Cardinality(KernelHolds(cap))'
          /\ outCount' = Cardinality(KernelHolds(out))'
      BY <2>4, <2>5, <2>6 DEF Tracks, Drops
    <2>8. pc' \in {"plan", "export", "reqout"} =>
            (KernelHolds(cap) = {} /\ KernelHolds(out) = {})'
      <3> SUFFICES ASSUME pc' \in {"plan", "export", "reqout"}
                   PROVE  KernelHolds(cap)' = {} /\ KernelHolds(out)' = {}
        OBVIOUS
      <3>1. AllocCapture \/ ExportBuffer \/ Export \/ (DeviceStep /\ pc' = pc)
        BY <1>5 DEF Next, BridgeStep, AllocOutput,
          QueueCapture, StreamOnOutput, StreamOnCapture, ReadDequeue, ReadQueue,
          WriteDequeue, WriteQueue, Stop, StopCapture, FreeCapture, StopOutput,
          FreeOutput, Throw, DeviceStep, CaptureFills, OutputConsumes
      <3>2. KernelHolds(cap) = {} /\ KernelHolds(out) = {}
        BY <3>1 DEF AllocCapture, ExportBuffer, Export, FirstRun
      <3>3. CASE AllocCapture
        BY <3>2, <3>3 DEF AllocCapture, ReqBufs, IdleQueue, KernelHolds
      <3>4. CASE ExportBuffer \/ Export
        BY <3>2, <3>4 DEF ExportBuffer, Export, KernelHolds
      <3>5. CASE DeviceStep
        BY <3>2, <3>5 DEF DeviceStep, CaptureFills, OutputConsumes, CanComplete,
                          KernelHolds
      <3> QED
        BY <3>1, <3>3, <3>4, <3>5
    <2> QED
      BY <2>1, <2>7, <2>8 DEF FirstRun
  <1> QED
    BY <1>2, <1>3, <1>4, <1>5

-----------------------------------------------------------------------------
(***************************************************************************)
(* Refinement of BufferRing                                                *)
(***************************************************************************)
Placement == [i \in Indices(MaxBufs) |-> Place(i)]

\* A step that moves one buffer to its successor is a step of the ring.
LEMMA RingAdvance ==
    ASSUME NEW b \in Indices(MaxBufs),
           Place(b) \in Ring!Places,
           Place(b)' = Ring!Successor[Place(b)],
           \A i \in Indices(MaxBufs) \ {b} : Place(i)' = Place(i)
    PROVE  [Ring!Next]_Placement
  <1>1. Placement' = [Placement EXCEPT ![b] = Ring!Successor[Placement[b]]]
    BY DEF Placement
  <1> QED
    BY <1>1 DEF Placement, Ring!Next, Ring!Advance

\* So is one that sends some buffers to "idle", or none.
LEMMA RingRetire ==
    ASSUME \A i \in Indices(MaxBufs) : Place(i)' = Place(i) \/ Place(i)' = "idle"
    PROVE  [Ring!Next]_Placement
  <1> DEFINE S == {i \in Indices(MaxBufs) : Place(i)' = "idle"}
  <1>1. Placement' = [b \in Indices(MaxBufs) |-> IF b \in S THEN "idle" ELSE Placement[b]]
    BY DEF Placement
  <1>2. S \in SUBSET Indices(MaxBufs)
    OBVIOUS
  <1> QED
    BY <1>1, <1>2 DEF Placement, Ring!Next, Ring!Retire

LEMMA RingSuccessors ==
    /\ Ring!Successor["idle"] = "filling"
    /\ Ring!Successor["filling"] = "full"
    /\ Ring!Successor["full"] = "forwarding"
    /\ Ring!Successor["forwarding"] = "draining"
    /\ Ring!Successor["draining"] = "spent"
    /\ Ring!Successor["spent"] = "recycling"
    /\ Ring!Successor["recycling"] = "filling"
  BY DEF Ring!Successor, Ring!Places

LEMMA RingStep == IInv /\ [Next]_vars => [Ring!Next]_Placement
  <1> SUFFICES ASSUME IInv, [Next]_vars PROVE [Ring!Next]_Placement
    OBVIOUS
  <1> USE DEF Place, counters
  <1>0. /\ MaxBufs \in Nat /\ cap \in Queues(MaxBufs) /\ out \in Queues(MaxBufs)
        /\ WellFormed(cap) /\ WellFormed(out)
    BY MaxBufsAssumption DEF IInv, TypeOK, Phases
  <1>1. CASE UNCHANGED vars
    BY <1>1, RingRetire DEF vars
  <1>2. CASE Start \/ ExportBuffer \/ Export \/ Stop
    BY <1>2, RingRetire DEF Start, ExportBuffer, Export, Stop, IInv, Phases
  <1>3. CASE AllocCapture \/ StopCapture \/ FreeCapture
    <2>1. \E n \in Nat : cap' = IdleQueue(n)
      BY <1>0, <1>3 DEF AllocCapture, StopCapture, FreeCapture, StreamOff, ReqBufs, Queues
    <2>2. UNCHANGED <<out, held>> /\ held = {}
      BY <1>3 DEF AllocCapture, StopCapture, FreeCapture, IInv, Phases
    <2>3. KernelHolds(cap) \cap KernelHolds(out) = {}
      BY DEF IInv, Exclusive
    <2> QED
      BY <2>1, <2>2, <2>3, RingRetire DEF IdleQueue, KernelHolds
  <1>4. CASE AllocOutput \/ StopOutput \/ FreeOutput
    <2>1. \E n \in Nat : out' = IdleQueue(n)
      BY <1>0, <1>4 DEF AllocOutput, StopOutput, FreeOutput, StreamOff, ReqBufs, Queues
    <2>2. UNCHANGED <<cap, held>> /\ held = {}
      BY <1>4 DEF AllocOutput, StopOutput, FreeOutput, IInv, Phases
    <2> QED
      BY <2>1, <2>2, RingRetire DEF IdleQueue
  <1>5. CASE Throw
    BY <1>5, RingRetire DEF Throw, IInv, Exclusive, KernelHolds
  <1>6. CASE Release
    BY <1>6, RingRetire DEF Release, NewQueue, IdleQueue, IInv, Phases
  <1>7. CASE StreamOnOutput \/ StreamOnCapture
    BY <1>7, RingRetire DEF StreamOnOutput, StreamOnCapture, StreamOn, IInv, Phases
  <1>8. CASE QueueCapture
    <2>1. PICK b \in Indices(MaxBufs) : b = next
      BY <1>0, <1>8 DEF QueueCapture, IInv, TypeOK, Indices
    <2>2. /\ cap'.queued = cap.queued \cup {b} /\ cap'.done = cap.done
          /\ held = {} /\ KernelHolds(out) = {} /\ b \notin KernelHolds(cap)
          /\ UNCHANGED <<pc, out, held>>
      BY <1>0, <1>8, <2>1
         DEF QBuf, QueueCapture, QueueBuffer, CanQBuf, Free, IInv, Phases
    <2>3. Place(b) = "idle" /\ Place(b)' = "filling"
      BY <2>2 DEF KernelHolds
    <2>4. \A i \in Indices(MaxBufs) \ {b} : Place(i)' = Place(i)
      BY <2>2 DEF KernelHolds
    <2> QED
      BY <2>1, <2>3, <2>4, RingAdvance, RingSuccessors DEF Ring!Places
  <1>9. CASE ReadDequeue
    <2>1. PICK b \in cap.done : cap' = DQBuf(cap, b) /\ held' = {b}
      BY <1>9 DEF ReadDequeue
    <2>2. b \in Indices(MaxBufs)
      BY <1>0, <2>1 DEF Queues
    <2>3. /\ cap'.queued = cap.queued /\ cap'.done = cap.done \ {b}
          /\ held = {} /\ b \notin cap.queued /\ pc' = "forward" /\ UNCHANGED out
      BY <1>0, <1>9, <2>1 DEF DQBuf, ReadDequeue, IInv, Phases, WellFormed
    <2>4. Place(b) = "full" /\ Place(b)' = "forwarding"
      BY <2>1, <2>3
    <2>5. \A i \in Indices(MaxBufs) \ {b} : Place(i)' = Place(i)
      BY <2>1, <2>3
    <2> QED
      BY <2>2, <2>4, <2>5, RingAdvance, RingSuccessors DEF Ring!Places
  <1>10. CASE ReadQueue
    <2>1. PICK b \in held : out' = QBuf(out, b)
      BY <1>10 DEF ReadQueue
    <2>2. b \in Indices(MaxBufs) /\ held = {b}
      BY <1>10, <2>1 DEF ReadQueue, IInv, TypeOK, Phases
    <2>3. /\ out'.queued = out.queued \cup {b} /\ out'.done = out.done
          /\ held' = {} /\ pc = "forward" /\ UNCHANGED cap
          /\ b \notin KernelHolds(cap) /\ b \notin KernelHolds(out)
      BY <1>0, <1>10, <2>1, <2>2 DEF QBuf, ReadQueue, IInv, Exclusive
    <2>4. Place(b) = "forwarding" /\ Place(b)' = "draining"
      BY <2>2, <2>3 DEF KernelHolds
    <2>5. \A i \in Indices(MaxBufs) \ {b} : Place(i)' = Place(i)
      BY <2>2, <2>3
    <2> QED
      BY <2>2, <2>4, <2>5, RingAdvance, RingSuccessors DEF Ring!Places
  <1>11. CASE WriteDequeue
    <2>1. PICK b \in out.done : out' = DQBuf(out, b) /\ held' = {b}
      BY <1>11 DEF WriteDequeue
    <2>2. b \in Indices(MaxBufs)
      BY <1>0, <2>1 DEF Queues
    <2>3. /\ out'.queued = out.queued /\ out'.done = out.done \ {b}
          /\ held = {} /\ b \notin out.queued /\ pc' = "recycle" /\ UNCHANGED cap
      BY <1>0, <1>11, <2>1 DEF DQBuf, WriteDequeue, IInv, Phases, WellFormed
    <2>4. b \notin KernelHolds(cap)
      BY <2>1 DEF IInv, Exclusive, KernelHolds
    <2>5. Place(b) = "spent" /\ Place(b)' = "recycling"
      BY <2>1, <2>3, <2>4 DEF KernelHolds
    <2>6. \A i \in Indices(MaxBufs) \ {b} : Place(i)' = Place(i)
      BY <2>1, <2>3
    <2> QED
      BY <2>2, <2>5, <2>6, RingAdvance, RingSuccessors DEF Ring!Places
  <1>12. CASE WriteQueue
    <2>1. PICK b \in held : cap' = QBuf(cap, b)
      BY <1>12 DEF WriteQueue, QueueBuffer
    <2>2. b \in Indices(MaxBufs) /\ held = {b}
      BY <1>12, <2>1 DEF WriteQueue, IInv, TypeOK, Phases
    <2>3. /\ cap'.queued = cap.queued \cup {b} /\ cap'.done = cap.done
          /\ held' = {} /\ pc = "recycle" /\ UNCHANGED out
          /\ b \notin KernelHolds(cap) /\ b \notin KernelHolds(out)
      BY <1>0, <1>12, <2>1, <2>2 DEF QBuf, WriteQueue, IInv, Exclusive
    <2>4. Place(b) = "recycling" /\ Place(b)' = "filling"
      BY <2>2, <2>3 DEF KernelHolds
    <2>5. \A i \in Indices(MaxBufs) \ {b} : Place(i)' = Place(i)
      BY <2>2, <2>3
    <2> QED
      BY <2>2, <2>4, <2>5, RingAdvance, RingSuccessors DEF Ring!Places
  <1>13. CASE DeviceStep
    <2>1. PICK b \in Indices(MaxBufs) : CaptureFills(b) \/ OutputConsumes(b)
      BY <1>13 DEF DeviceStep
    <2>2. CASE CaptureFills(b)
      <3>1. /\ b \in cap.queued /\ cap'.queued = cap.queued \ {b}
            /\ cap'.done = cap.done \cup {b} /\ UNCHANGED <<pc, held, out>>
        BY <2>2 DEF CaptureFills, CanComplete, Complete
      <3>2. Place(b) = "filling" /\ Place(b)' = "full"
        BY <3>1
      <3>3. \A i \in Indices(MaxBufs) \ {b} : Place(i)' = Place(i)
        BY <3>1
      <3> QED
        BY <3>2, <3>3, RingAdvance, RingSuccessors DEF Ring!Places
    <2>3. CASE OutputConsumes(b)
      <3>1. /\ b \in out.queued /\ out'.queued = out.queued \ {b}
            /\ out'.done = out.done \cup {b} /\ UNCHANGED <<pc, held, cap>>
        BY <2>3 DEF OutputConsumes, CanComplete, Complete
      <3>2. b \notin KernelHolds(cap) /\ b \notin held
        BY <3>1 DEF IInv, Exclusive, KernelHolds
      <3>3. Place(b) = "draining" /\ Place(b)' = "spent"
        BY <3>1, <3>2 DEF KernelHolds
      <3>4. \A i \in Indices(MaxBufs) \ {b} : Place(i)' = Place(i)
        BY <3>1
      <3> QED
        BY <3>3, <3>4, RingAdvance, RingSuccessors DEF Ring!Places
    <2> QED
      BY <2>1, <2>2, <2>3
  <1> QED
    BY <1>1, <1>2, <1>3, <1>4, <1>5, <1>6, <1>7, <1>8, <1>9, <1>10, <1>11,
       <1>12, <1>13 DEF Next, BridgeStep

\* The bridge implements the buffer ring.
THEOREM Refinement == Spec => ImplementsRing
  <1>1. Init => Ring!Init
    BY DEF Init, Ring!Init, Place, NewQueue, IdleQueue
  <1>2. IInv /\ [Next]_vars => [Ring!Next]_Placement
    BY RingStep
  <1> QED
    BY <1>1, <1>2, Invariance, PTL DEF Spec, Ring!Spec, ImplementsRing, Placement

\* In the first run the gauges are exact.
THEOREM GaugesExact == Spec => []GaugesExactInFirstRun
  <1>1. Init => FirstRun
    BY FS_EmptySet DEF Init, FirstRun, KernelHolds, NewQueue, IdleQueue
  <1>2. FirstRun => GaugesExactInFirstRun
    BY DEF FirstRun, GaugesExactInFirstRun
  <1> QED
    BY <1>1, <1>2, FirstRunInductive, Invariance, PTL DEF Spec

\* The gauges are exact in the first run, and never too low later.
THEOREM GaugesTrackQueues == Spec => []GaugesTrack
  BY GaugesCover, GaugesExact, PTL DEF GaugesTrack

-----------------------------------------------------------------------------
(***************************************************************************)
(* Refinement of Relay                                                     *)
(***************************************************************************)

\* What the refinement adds to the invariant: a queue is on only when it should be.
Calm ==
    /\ ~cap.streaming => cap.done = {}
    /\ pc = "queue" => ~out.streaming
    /\ pc = "capon" => ~cap.streaming

LEMMA CalmInductive == IInv /\ Calm /\ [Next]_vars => Calm'
  <1> SUFFICES ASSUME IInv, Calm, [Next]_vars PROVE Calm'
    OBVIOUS
  <1> USE DEF counters
  <1>1. CASE UNCHANGED vars
    BY <1>1 DEF vars, Calm
  <1>2. CASE Start \/ ExportBuffer \/ Export \/ Stop \/ Throw
    BY <1>2 DEF Start, ExportBuffer, Export, Stop, Throw, Calm
  <1>3. CASE AllocCapture \/ StopCapture \/ FreeCapture \/ StopOutput \/ FreeOutput \/ Release
    BY <1>3 DEF AllocCapture, StopCapture, FreeCapture, StopOutput, FreeOutput, Release, Calm,
       ReqBufs, StreamOff, NewQueue, IdleQueue
  <1>4. CASE AllocOutput
    BY <1>4 DEF AllocOutput, Calm, ReqBufs, IdleQueue
  <1>5. CASE StreamOnOutput \/ StreamOnCapture
    BY <1>5 DEF StreamOnOutput, StreamOnCapture, StreamOn, Calm, IInv, Phases
  <1>6. CASE QueueCapture \/ WriteQueue
    BY <1>6 DEF QueueCapture, WriteQueue, QueueBuffer, QBuf, Calm
  <1>7. CASE ReadDequeue \/ ReadQueue \/ WriteDequeue
    BY <1>7 DEF ReadDequeue, ReadQueue, WriteDequeue, DQBuf, QBuf, CanDQBuf, Calm
  <1>8. CASE DeviceStep
    BY <1>8 DEF DeviceStep, CaptureFills, OutputConsumes, CanComplete, Complete, Calm
  <1> QED
    BY <1>1, <1>2, <1>3, <1>4, <1>5, <1>6, <1>7, <1>8 DEF Next, BridgeStep

\* The two sets of a queue are finite.
LEMMA QueueFinite ==
    ASSUME NEW max \in Nat, NEW q \in Queues(max)
    PROVE  /\ IsFiniteSet(q.queued) /\ IsFiniteSet(q.done)
           /\ Cardinality(q.queued) \in Nat /\ Cardinality(q.done) \in Nat
  <1>1. IsFiniteSet(Indices(max))
    BY FS_Interval DEF Indices
  <1>2. q.queued \subseteq Indices(max) /\ q.done \subseteq Indices(max)
    BY DEF Queues
  <1> QED
    BY <1>1, <1>2, FS_Subset, FS_CardinalityType

\* The counts of a queue after each of the kernel's operations.
LEMMA CompleteCounted ==
    ASSUME NEW max \in Nat, NEW q \in Queues(max), NEW i, CanComplete(q, i),
           q.queued \cap q.done = {}, NEW taken \in BOOLEAN
    PROVE  /\ Loops!CanFinish(Counted(q, taken))
           /\ Counted(Complete(q, i), taken) = Loops!Finish(Counted(q, taken))
  <1>1. i \in q.queued /\ i \notin q.done /\ q.streaming
    BY DEF CanComplete
  <1>2. Cardinality(q.queued \ {i}) = Cardinality(q.queued) - 1
    BY <1>1, QueueFinite, FS_RemoveElement
  <1>3. Cardinality(q.done \cup {i}) = Cardinality(q.done) + 1
    BY <1>1, QueueFinite, FS_AddElement
  <1>4. Cardinality(q.queued \ {i}) \in Nat
    BY QueueFinite, FS_Subset, FS_CardinalityType
  <1>5. /\ Complete(q, i).streaming = q.streaming
        /\ Complete(q, i).queued = q.queued \ {i} /\ Complete(q, i).done = q.done \cup {i}
    BY DEF Complete
  <1> DEFINE t == IF taken THEN 1 ELSE 0
  <1>6. /\ Counted(q, taken) = [on |-> q.streaming, queued |-> Cardinality(q.queued),
                                done |-> Cardinality(q.done) + t]
        /\ Counted(Complete(q, i), taken) =
             [on |-> q.streaming, queued |-> Cardinality(q.queued) - 1,
              done |-> Cardinality(q.done) + 1 + t]
    BY <1>2, <1>3, <1>5 DEF Counted
  <1>7. Cardinality(q.done) + 1 + t = Cardinality(q.done) + t + 1
    BY QueueFinite
  <1>8. Cardinality(q.queued) > 0
    BY <1>2, <1>4, QueueFinite
  <1> HIDE DEF t
  <1>9. /\ Counted(q, taken).on = q.streaming
        /\ Counted(q, taken).queued = Cardinality(q.queued)
        /\ Counted(q, taken).done = Cardinality(q.done) + t
    BY <1>6
  <1> HIDE DEF Counted
  <1>10. Loops!CanFinish(Counted(q, taken))
    BY <1>1, <1>8, <1>9 DEF Loops!CanFinish
  <1>11. Loops!Finish(Counted(q, taken)) =
           [on |-> q.streaming, queued |-> Cardinality(q.queued) - 1,
            done |-> Cardinality(q.done) + t + 1]
    BY <1>9 DEF Loops!Finish
  <1> QED
    BY <1>6, <1>7, <1>10, <1>11

LEMMA DQBufCounted ==
    ASSUME NEW max \in Nat, NEW q \in Queues(max), NEW i \in q.done
    PROVE  Counted(DQBuf(q, i), TRUE) = Counted(q, FALSE)
  <1>1. Cardinality(q.done \ {i}) = Cardinality(q.done) - 1
    BY QueueFinite, FS_RemoveElement
  <1> QED
    BY <1>1, QueueFinite DEF Counted, DQBuf

LEMMA QBufCounted ==
    ASSUME NEW max \in Nat, NEW q \in Queues(max), NEW i, i \notin q.queued
    PROVE  Counted(QBuf(q, i), FALSE) = Loops!Give(Counted(q, FALSE))
  <1>1. Cardinality(q.queued \cup {i}) = Cardinality(q.queued) + 1
    BY QueueFinite, FS_AddElement
  <1> QED
    BY <1>1, QueueFinite DEF Counted, QBuf, Loops!Give

LEMMA TakenCounted ==
    ASSUME NEW max \in Nat, NEW q \in Queues(max)
    PROVE  /\ Counted(q, TRUE).done > 0
           /\ Counted(q, FALSE) = Loops!Take(Counted(q, TRUE))
  BY QueueFinite DEF Counted, Loops!Take

\* A queue that the first n buffers were queued to.
LEMMA FilledCounted ==
    ASSUME NEW max \in Nat, NEW q \in Queues(max), NEW n \in Nat,
           KernelHolds(q) = Indices(n), q.done = {}
    PROVE  Counted(q, FALSE) = [on |-> q.streaming, queued |-> n, done |-> 0]
  <1>1. q.queued = 0 .. n - 1
    BY DEF KernelHolds, Indices
  <1>2. Cardinality(q.queued) = n
    BY <1>1, FS_Interval
  <1> QED
    BY <1>2, FS_EmptySet DEF Counted

LEMMA EmptyCounted ==
    ASSUME NEW max \in Nat, NEW q \in Queues(max), KernelHolds(q) = {}
    PROVE  /\ Counted(q, FALSE) = [on |-> q.streaming, queued |-> 0, done |-> 0]
           /\ ~q.streaming => Counted(q, FALSE) = Loops!Off
           /\ q.streaming => Counted(q, FALSE) = Loops!Started(0)
  <1>1. q.queued = {} /\ q.done = {} /\ q.streaming \in BOOLEAN
    BY DEF KernelHolds, Queues
  <1>2. Counted(q, FALSE) = [on |-> q.streaming, queued |-> 0, done |-> 0]
    BY <1>1, FS_EmptySet DEF Counted
  <1> QED
    BY <1>1, <1>2 DEF Loops!Off, Loops!Idle, Loops!Started

\* The mapping, and a step of Bridge as a step of Relay.
CapCount == Counted(cap, pc = "forward")
OutCount == Counted(out, pc = "recycle")
Works == pc \in Loop \cup {"capoff"}
RelayStep == [Loops!Next]_<<CapCount, OutCount, Works>>

\* Counts of the two queues while the thread has no buffer in hand.
LEMMA CountsIdle ==
    /\ pc # "forward" => CapCount = Counted(cap, FALSE)
    /\ pc # "recycle" => OutCount = Counted(out, FALSE)
    /\ pc' # "forward" => CapCount' = Counted(cap', FALSE)
    /\ pc' # "recycle" => OutCount' = Counted(out', FALSE)
  BY DEF CapCount, OutCount, Counted

LEMMA RelayStutters ==
    ASSUME CapCount' = CapCount, OutCount' = OutCount, Works' <=> Works
    PROVE  RelayStep
  BY DEF RelayStep, Works

\* What every step needs of the invariant.
Known ==
    /\ MaxBufs \in Nat /\ cap \in Queues(MaxBufs) /\ out \in Queues(MaxBufs)
    /\ cap' \in Queues(MaxBufs) /\ out' \in Queues(MaxBufs)
    /\ cap.queued \cap cap.done = {} /\ out.queued \cap out.done = {}
    /\ ~out.streaming => OutCount = Loops!Off \/ pc = "recycle"

LEMMA KnownHolds == IInv /\ [Next]_vars => Known
  <1> SUFFICES ASSUME IInv, [Next]_vars PROVE Known
    OBVIOUS
  <1>1. MaxBufs \in Nat /\ cap \in Queues(MaxBufs) /\ out \in Queues(MaxBufs)
    BY MaxBufsAssumption DEF IInv, TypeOK
  <1>2. cap' \in Queues(MaxBufs) /\ out' \in Queues(MaxBufs)
    BY IInvInductive DEF IInv, TypeOK
  <1>3. ~out.streaming => KernelHolds(out) = {}
    BY DEF IInv, Phases
  <1>4. ~out.streaming => OutCount = Loops!Off \/ pc = "recycle"
    BY <1>1, <1>3, EmptyCounted, CountsIdle
  <1> QED
    BY <1>1, <1>2, <1>4 DEF Known, IInv, Phases, WellFormed

\* Steps that move no buffer and switch no queue.
LEMMA QuietRelay ==
    ASSUME IInv, Start \/ ExportBuffer \/ Export \/ Stop \/ UNCHANGED vars
    PROVE  RelayStep
  <1>1. UNCHANGED <<cap, out>>
    BY DEF Start, ExportBuffer, Export, Stop, vars
  <1>2. /\ pc' = "forward" <=> pc = "forward"
        /\ pc' = "recycle" <=> pc = "recycle"
        /\ Works' <=> Works
    BY DEF Start, ExportBuffer, Export, Stop, vars, Works, Loop
  <1> QED
    BY <1>1, <1>2, RelayStutters DEF CapCount, OutCount, Counted

\* An exception while the bridge works is Relay's Fail, and loses the buffer in hand.
LEMMA ThrowRelay ==
    ASSUME IInv, Known, Throw
    PROVE  RelayStep
  <1>1. UNCHANGED <<cap, out>> /\ ~Works' /\ pc' \notin {"forward", "recycle"}
    BY DEF Throw, Works, Loop
  <1>2. CapCount' = Counted(cap, FALSE) /\ OutCount' = Counted(out, FALSE)
    BY <1>1, CountsIdle
  <1>3. CASE pc \notin {"forward", "recycle"}
    <2>1. CapCount' = CapCount /\ OutCount' = OutCount
      BY <1>2, <1>3, CountsIdle
    <2>2. CASE Works
      <3>1. Loops!Fail
        BY <1>1, <2>1, <2>2 DEF Loops!Fail, CapCount, OutCount, Works
      <3> QED BY <3>1 DEF RelayStep, Loops!Next
    <2>3. CASE ~Works
      BY <1>1, <2>1, <2>3, RelayStutters
    <2> QED BY <2>2, <2>3
  <1>4. CASE pc = "forward"
    <2>1. CapCount = Counted(cap, TRUE) /\ OutCount' = OutCount
      BY <1>2, <1>4, CountsIdle DEF CapCount, Counted
    <2>2. CapCount.done > 0 /\ CapCount' = Loops!Take(CapCount)
      BY <1>2, <2>1, TakenCounted DEF Known
    <2>3. Loops!Fail
      BY <1>1, <1>4, <2>1, <2>2 DEF Loops!Fail, CapCount, OutCount, Works, Loop
    <2> QED BY <2>3 DEF RelayStep, Loops!Next
  <1>5. CASE pc = "recycle"
    <2>1. OutCount = Counted(out, TRUE) /\ CapCount' = CapCount
      BY <1>2, <1>5, CountsIdle DEF OutCount, Counted
    <2>2. OutCount.done > 0 /\ OutCount' = Loops!Take(OutCount)
      BY <1>2, <2>1, TakenCounted DEF Known
    <2>3. Loops!Fail
      BY <1>1, <1>5, <2>1, <2>2 DEF Loops!Fail, CapCount, OutCount, Works, Loop
    <2> QED BY <2>3 DEF RelayStep, Loops!Next
  <1> QED BY <1>3, <1>4, <1>5

\* Allocating, queueing and the output device's start prepare a start...
LEMMA PrepareRelay ==
    ASSUME IInv, Calm, Known, AllocCapture \/ AllocOutput \/ QueueCapture \/ StreamOnOutput
    PROVE  RelayStep
  <1>1. pc \in {"plan", "reqout", "queue"} /\ pc' \notin {"forward", "recycle"}
    BY DEF AllocCapture, AllocOutput, QueueCapture, StreamOnOutput
  <1>2. ~Works /\ ~Works'
    BY DEF AllocCapture, AllocOutput, QueueCapture, StreamOnOutput, Works, Loop
  <1>3. /\ CapCount = Counted(cap, FALSE) /\ CapCount' = Counted(cap', FALSE)
        /\ OutCount = Counted(out, FALSE) /\ OutCount' = Counted(out', FALSE)
    BY <1>1, CountsIdle
  <1>4. CASE AllocCapture
    <2>1. ~cap.streaming /\ ~cap'.streaming /\ KernelHolds(cap') = {} /\ out' = out
      BY <1>4 DEF AllocCapture, CanReqBufs, ReqBufs, IdleQueue, KernelHolds
    <2>2. CapCount' = Loops!Off /\ OutCount' = OutCount /\ ~CapCount.on
      BY <1>3, <2>1, EmptyCounted DEF Known, Counted
    <2>3. Loops!Prepare
      BY <1>2, <2>2 DEF Loops!Prepare, CapCount, OutCount, Works
    <2> QED BY <2>3 DEF RelayStep, Loops!Next
  <1>5. CASE AllocOutput
    <2>1. ~out.streaming /\ ~out'.streaming /\ KernelHolds(out') = {} /\ cap' = cap
      BY <1>5 DEF AllocOutput, CanReqBufs, ReqBufs, IdleQueue, KernelHolds
    <2>2. OutCount' = Loops!Off /\ OutCount = Loops!Off /\ CapCount' = CapCount
      BY <1>1, <1>3, <2>1, EmptyCounted DEF Known
    <2> QED BY <1>2, <2>2, RelayStutters
  <1>6. CASE QueueCapture
    <2>1. /\ ~cap.streaming /\ cap.done = {} /\ KernelHolds(cap) = Indices(next)
          /\ next \in Nat /\ next < fds /\ fds <= MaxBufs /\ fds \in Nat /\ ~out.streaming
      BY <1>6 DEF QueueCapture, IInv, Phases, Calm, TypeOK
    <2>2. cap' = QBuf(cap, next) /\ next \notin cap.queued /\ out' = out
      BY <1>6 DEF QueueCapture, QueueBuffer, CanQBuf, Free, KernelHolds
    <2>3. CapCount = [on |-> cap.streaming, queued |-> next, done |-> 0]
      BY <1>3, <2>1, FilledCounted DEF Known
    <2>4. CapCount' = Loops!Give(CapCount)
      BY <1>3, <2>2, QBufCounted DEF Known
    <2>5. cap.streaming = FALSE
      BY <2>1 DEF Known, Queues
    <2>6. CapCount' = Loops!Idle(next + 1)
      BY <2>3, <2>4, <2>5 DEF Loops!Give, Loops!Idle
    <2>7. next + 1 \in 0 .. MaxBufs
      BY <2>1 DEF Known
    <2>8. OutCount = Loops!Off /\ OutCount' = OutCount
      BY <1>1, <1>3, <2>1, <2>2 DEF Known
    <2>9. Loops!Prepare
      BY <1>2, <2>3, <2>5, <2>6, <2>7, <2>8 DEF Loops!Prepare, CapCount, OutCount, Works
    <2> QED BY <2>9 DEF RelayStep, Loops!Next
  <1>7. CASE StreamOnOutput
    <2>1. /\ ~cap.streaming /\ cap.done = {} /\ KernelHolds(cap) = Indices(next)
          /\ next = fds /\ fds \in 0 .. MaxBufs /\ fds \in Nat /\ ~out.streaming
          /\ KernelHolds(out) = {}
      BY <1>7, MaxBufsAssumption DEF StreamOnOutput, IInv, Phases, Calm, TypeOK
    <2>2. out'.streaming /\ KernelHolds(out') = {} /\ cap' = cap
      BY <1>7, <2>1 DEF StreamOnOutput, StreamOn, KernelHolds
    <2>3. CapCount = [on |-> cap.streaming, queued |-> next, done |-> 0]
      BY <1>3, <2>1, FilledCounted DEF Known
    <2>4. cap.streaming = FALSE
      BY <2>1 DEF Known, Queues
    <2>5. CapCount' = CapCount
      BY <1>3, <2>2
    <2>6. CapCount = Loops!Idle(fds) /\ ~CapCount.on
      BY <2>1, <2>3, <2>4 DEF Loops!Idle
    <2>7. OutCount = Loops!Off /\ OutCount' = Loops!Started(0)
      BY <1>3, <2>1, <2>2, EmptyCounted DEF Known
    <2>8. Loops!Prepare
      BY <1>2, <2>1, <2>5, <2>6, <2>7 DEF Loops!Prepare, CapCount, OutCount, Works
    <2> QED BY <2>8 DEF RelayStep, Loops!Next
  <1> QED BY <1>4, <1>5, <1>6, <1>7

\* ...which the capture device completes.
LEMMA StartRelay ==
    ASSUME IInv, Calm, Known, StreamOnCapture
    PROVE  RelayStep
  <1>1. /\ pc = "capon" /\ pc' = "poll" /\ out' = out /\ out.streaming /\ KernelHolds(out) = {}
        /\ ~cap.streaming /\ cap.done = {} /\ KernelHolds(cap) = Indices(fds)
        /\ cap.alloc = fds /\ cap.alloc > 0 /\ fds \in 0 .. MaxBufs
    BY DEF StreamOnCapture, CanStreamOn, IInv, Phases, Calm, TypeOK
  <1>2. cap'.streaming = TRUE /\ cap'.done = {} /\ KernelHolds(cap') = Indices(fds)
    BY <1>1 DEF StreamOnCapture, StreamOn, KernelHolds
  <1>3. fds \in Nat /\ fds \in 1 .. MaxBufs
    BY <1>1 DEF Known
  <1>4. CapCount' = Loops!Started(fds)
    BY <1>1, <1>2, <1>3, CountsIdle, FilledCounted DEF Known, Loops!Started
  <1>5. ~CapCount.on
    BY <1>1 DEF CapCount, Counted
  <1>6. OutCount = Loops!Started(0) /\ OutCount' = Loops!Started(0)
    BY <1>1, CountsIdle, EmptyCounted DEF Known
  <1>7. ~Works /\ Works'
    BY <1>1 DEF Works, Loop
  <1>8. Loops!Start
    BY <1>3, <1>4, <1>5, <1>6, <1>7 DEF Loops!Start, CapCount, OutCount, Works
  <1> QED BY <1>8 DEF RelayStep, Loops!Next

\* A callback is one step, at its second ioctl.
LEMMA CallbackRelay ==
    ASSUME IInv, Known, ReadDequeue \/ ReadQueue \/ WriteDequeue \/ WriteQueue
    PROVE  RelayStep
  <1>1. Works /\ Works'
    BY DEF ReadDequeue, ReadQueue, WriteDequeue, WriteQueue, Works, Loop
  <1>2. CASE ReadDequeue
    <2>1. /\ pc = "poll" /\ pc' = "forward" /\ out' = out
          /\ \E i \in cap.done : cap' = DQBuf(cap, i)
      BY <1>2 DEF ReadDequeue
    <2>2. CapCount' = Counted(cap', TRUE) /\ CapCount = Counted(cap, FALSE)
      BY <2>1, CountsIdle DEF CapCount, Counted
    <2>3. CapCount' = CapCount /\ OutCount' = OutCount
      BY <2>1, <2>2, CountsIdle, DQBufCounted DEF Known
    <2> QED BY <1>1, <2>3, RelayStutters
  <1>3. CASE WriteDequeue
    <2>1. /\ pc = "poll" /\ pc' = "recycle" /\ cap' = cap
          /\ \E i \in out.done : out' = DQBuf(out, i)
      BY <1>3 DEF WriteDequeue
    <2>2. OutCount' = Counted(out', TRUE) /\ OutCount = Counted(out, FALSE)
      BY <2>1, CountsIdle DEF OutCount, Counted
    <2>3. CapCount' = CapCount /\ OutCount' = OutCount
      BY <2>1, <2>2, CountsIdle, DQBufCounted DEF Known
    <2> QED BY <1>1, <2>3, RelayStutters
  <1>4. CASE ReadQueue
    <2>1. PICK i \in held : CanQBuf(out, i) /\ out' = QBuf(out, i)
      BY <1>4 DEF ReadQueue
    <2>2. pc = "forward" /\ pc' = "poll" /\ cap' = cap /\ i \notin out.queued
      BY <1>4, <2>1 DEF ReadQueue, CanQBuf, Free, KernelHolds
    <2>3. CapCount = Counted(cap, TRUE) /\ CapCount' = Counted(cap, FALSE)
      BY <2>2, CountsIdle DEF CapCount, Counted
    <2>4. CapCount.done > 0 /\ CapCount' = Loops!Take(CapCount)
      BY <2>3, TakenCounted DEF Known
    <2>5. OutCount' = Loops!Give(OutCount)
      BY <2>1, <2>2, CountsIdle, QBufCounted DEF Known
    <2>6. Loops!Forward
      BY <1>1, <2>4, <2>5 DEF Loops!Forward, CapCount, OutCount, Works
    <2> QED BY <2>6 DEF RelayStep, Loops!Next
  <1>5. CASE WriteQueue
    <2>1. PICK i \in held : CanQBuf(cap, i) /\ cap' = QBuf(cap, i)
      BY <1>5 DEF WriteQueue, QueueBuffer
    <2>2. pc = "recycle" /\ pc' = "poll" /\ out' = out /\ i \notin cap.queued
      BY <1>5, <2>1 DEF WriteQueue, CanQBuf, Free, KernelHolds
    <2>3. OutCount = Counted(out, TRUE) /\ OutCount' = Counted(out, FALSE)
      BY <2>2, CountsIdle DEF OutCount, Counted
    <2>4. OutCount.done > 0 /\ OutCount' = Loops!Take(OutCount)
      BY <2>3, TakenCounted DEF Known
    <2>5. CapCount' = Loops!Give(CapCount)
      BY <2>1, <2>2, CountsIdle, QBufCounted DEF Known
    <2>6. Loops!Recycle
      BY <1>1, <2>4, <2>5 DEF Loops!Recycle, CapCount, OutCount, Works
    <2> QED BY <2>6 DEF RelayStep, Loops!Next
  <1> QED BY <1>2, <1>3, <1>4, <1>5

\* Stop empties the capture queue first; a destroyed bridge has neither queue.
LEMMA StopRelay ==
    ASSUME IInv, Known, StopCapture \/ FreeCapture \/ StopOutput \/ FreeOutput \/ Release
    PROVE  RelayStep
  <1>1. ~Works' /\ pc \notin {"forward", "recycle"} /\ pc' \notin {"forward", "recycle"}
    BY DEF StopCapture, FreeCapture, StopOutput, FreeOutput, Release, Works, Loop
  <1>2. ~cap'.streaming /\ KernelHolds(cap') = {}
    BY DEF StopCapture, FreeCapture, StopOutput, FreeOutput, Release, StreamOff, ReqBufs,
       NewQueue, IdleQueue, KernelHolds, IInv, Phases
  <1>3. out' = out \/ (~out'.streaming /\ KernelHolds(out') = {})
    BY DEF StopCapture, FreeCapture, StopOutput, FreeOutput, Release, StreamOff, ReqBufs,
       NewQueue, IdleQueue, KernelHolds
  <1>4. CapCount' = Loops!Off
    BY <1>1, <1>2, CountsIdle, EmptyCounted DEF Known
  <1>5. OutCount' = OutCount \/ OutCount' = Loops!Off
    BY <1>1, <1>3, CountsIdle, EmptyCounted DEF Known
  <1>6. Loops!Stop
    BY <1>1, <1>4, <1>5 DEF Loops!Stop, CapCount, OutCount, Works
  <1> QED BY <1>6 DEF RelayStep, Loops!Next

\* The two devices.
LEMMA DevicesRelay ==
    ASSUME IInv, Known, DeviceStep
    PROVE  RelayStep
  <1>1. PICK i \in Indices(MaxBufs) : CaptureFills(i) \/ OutputConsumes(i)
    BY DEF DeviceStep
  <1>2. pc' = pc /\ (Works' <=> Works)
    BY <1>1 DEF CaptureFills, OutputConsumes, Works
  <1>3. CASE CaptureFills(i)
    <2>1. CanComplete(cap, i) /\ cap' = Complete(cap, i) /\ out' = out
      BY <1>3 DEF CaptureFills
    <2>2. Loops!CanFinish(CapCount) /\ CapCount' = Loops!Finish(CapCount)
      BY <1>2, <2>1, CompleteCounted DEF Known, CapCount
    <2>3. OutCount' = OutCount
      BY <1>2, <2>1 DEF OutCount, Counted
    <2>4. Loops!Fill
      BY <1>2, <2>2, <2>3 DEF Loops!Fill, CapCount, OutCount, Works
    <2> QED BY <2>4 DEF RelayStep, Loops!Next
  <1>4. CASE OutputConsumes(i)
    <2>1. CanComplete(out, i) /\ out' = Complete(out, i) /\ cap' = cap
      BY <1>4 DEF OutputConsumes
    <2>2. Loops!CanFinish(OutCount) /\ OutCount' = Loops!Finish(OutCount)
      BY <1>2, <2>1, CompleteCounted DEF Known, OutCount
    <2>3. CapCount' = CapCount
      BY <1>2, <2>1 DEF CapCount, Counted
    <2>4. Loops!Drain
      BY <1>2, <2>2, <2>3 DEF Loops!Drain, CapCount, OutCount, Works
    <2> QED BY <2>4 DEF RelayStep, Loops!Next
  <1> QED BY <1>1, <1>3, <1>4

LEMMA RelayNext == IInv /\ Calm /\ [Next]_vars => RelayStep
  <1> SUFFICES ASSUME IInv, Calm, [Next]_vars PROVE RelayStep
    OBVIOUS
  <1>1. Known
    BY KnownHolds
  <1> QED
    BY <1>1, QuietRelay, ThrowRelay, PrepareRelay, StartRelay, CallbackRelay, StopRelay,
       DevicesRelay DEF Next, BridgeStep

\* The poll loop may count a bridge's buffers and take each call of it for one step.
THEOREM RelayRefinement == Spec => ImplementsRelay
  <1>1. Init => Calm
    BY DEF Init, Calm, NewQueue, IdleQueue
  <1>2. Init => Loops!Init
    <2> SUFFICES ASSUME Init PROVE Loops!Init
      OBVIOUS
    <2>1. /\ MaxBufs \in Nat /\ NewQueue \in Queues(MaxBufs)
          /\ KernelHolds(NewQueue) = {} /\ ~NewQueue.streaming
      BY MaxBufsAssumption DEF NewQueue, IdleQueue, Queues, KernelHolds
    <2>2. CapCount = Loops!Off /\ OutCount = Loops!Off
      BY <2>1, CountsIdle, EmptyCounted DEF Init
    <2> QED BY <2>2 DEF Init, Loops!Init, CapCount, OutCount, Loop
  <1>3. IInv /\ Calm /\ [Next]_vars => [Loops!Next]_(Loops!vars)
    BY RelayNext DEF RelayStep, Loops!vars, CapCount, OutCount, Works
  <1> QED
    BY <1>1, <1>2, <1>3, CalmInductive, Invariance, PTL
       DEF Spec, Loops!Spec, ImplementsRelay

=============================================================================
