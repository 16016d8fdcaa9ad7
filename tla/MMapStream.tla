----------------------------- MODULE MMapStream ------------------------------
(***************************************************************************)
(* v4s::Stream and v4s::MMapStream (libs/v4l): the capture queue frames    *)
(* are read from, started by the first Next, and MMapFrame, the lease of a *)
(* buffer that its destructor queues again.                                *)
(*                                                                         *)
(* One ioctl, or one use of the member "buffers", is one step; "at" is the *)
(* place of each thread inside the stream's code.  Any ioctl may fail: the *)
(* exception leaves the call and undoes nothing.  An exception in          *)
(* ~MMapFrame, or the use of "buffers" after its reset, ends the program:  *)
(* that is a fault.                                                        *)
(*                                                                         *)
(* Next (and Spec) is the discipline under which the class is safe: calls  *)
(* do not overlap, and no frame is out when Stop is called.  The code does *)
(* not enforce it ("todo lock"); Sessions checks who follows it.           *)
(***************************************************************************)
EXTENDS V4L2Queue, FiniteSets

CONSTANTS
    MaxBufs,    \* the largest buffer count a driver grants (the code asks for 5)
    Threads,    \* threads that call the stream
    Holders     \* who may hold a frame

ASSUME MaxBufsAssumption == MaxBufs \in Nat \ {0}
ASSUME CallersAssumption == IsFiniteSet(Threads) /\ IsFiniteSet(Holders)

VARIABLES
    started,    \* Stream::started_
    buffers,    \* buffers->NumBuffers(), 0 while the pointer is null
    q,          \* the kernel queue of the device
    frame,      \* the frame each holder has out
    at,         \* place of each thread in the stream's code
    next,       \* loop index of DoStart's thread, index dequeued by FetchNext's
    fault       \* how the program died

vars == <<started, buffers, q, frame, at, next, fault>>

NoFrame == [idx |-> 0, fresh |-> FALSE, out |-> FALSE]

\* fresh: the frame's buffer belongs to the present "buffers".
Frames == [idx : Indices(MaxBufs), fresh : BOOLEAN, out : BOOLEAN]

InStart == {"alloc", "queue", "on", "mark"}
InNext == {"nalloc", "nqueue", "non", "nmark", "fetch", "dequeue", "wrap"}
InStop == {"off", "free", "reset", "unmark"}
Places == {"outside"} \cup InStart \cup InNext \cup InStop

Leased(h) == frame[h].out
Goto(t, p) == at' = [at EXCEPT ![t] = p]

\* Every frame that is out belongs to buffers that are gone.
Outdate ==
    frame' = [h \in Holders |-> [idx |-> frame[h].idx, fresh |-> FALSE, out |-> frame[h].out]]

-----------------------------------------------------------------------------
Init ==
    /\ started = FALSE /\ buffers = 0 /\ q = NewQueue
    /\ frame = [h \in Holders |-> NoFrame]
    /\ at = [t \in Threads |-> "outside"]
    /\ next = [t \in Threads |-> 0]
    /\ fault = "none"

(***************************************************************************)
(* Stream::Start, also the first part of Next                              *)
(***************************************************************************)
CallStart(t) ==
    /\ at[t] = "outside"
    /\ Goto(t, "alloc")
    /\ UNCHANGED <<started, buffers, q, frame, next, fault>>

CallNext(t) ==
    /\ at[t] = "outside"
    /\ Goto(t, IF started THEN "fetch" ELSE "nalloc")
    /\ UNCHANGED <<started, buffers, q, frame, next, fault>>

\* MMapBuffers is built (REQBUFS, mmap), then replaces an earlier one.
Alloc(t) ==
    /\ at[t] \in {"alloc", "nalloc"} /\ CanReqBufs(q)
    /\ \E granted \in 1 .. MaxBufs : q' = ReqBufs(granted) /\ buffers' = granted
    /\ Outdate
    /\ next' = [next EXCEPT ![t] = 0]
    /\ Goto(t, IF at[t] = "alloc" THEN "queue" ELSE "nqueue")
    /\ UNCHANGED <<started, fault>>

QueueAll(t) ==
    /\ at[t] \in {"queue", "nqueue"}
    /\ next[t] < buffers /\ CanQBuf(q, next[t])
    /\ q' = QBuf(q, next[t])
    /\ next' = [next EXCEPT ![t] = @ + 1]
    /\ UNCHANGED <<started, buffers, frame, at, fault>>

StartStreaming(t) ==
    /\ at[t] \in {"queue", "nqueue"} /\ buffers > 0
    /\ next[t] = buffers /\ CanStreamOn(q)
    /\ q' = StreamOn(q)
    /\ next' = [next EXCEPT ![t] = 0]
    /\ Goto(t, IF at[t] = "queue" THEN "mark" ELSE "nmark")
    /\ UNCHANGED <<started, buffers, frame, fault>>

MarkStarted(t) ==
    /\ at[t] \in {"mark", "nmark"}
    /\ started' = TRUE
    /\ Goto(t, IF at[t] = "mark" THEN "outside" ELSE "fetch")
    /\ UNCHANGED <<buffers, q, frame, next, fault>>

(***************************************************************************)
(* FetchNext                                                               *)
(***************************************************************************)
FetchNext(t) ==
    /\ at[t] = "fetch" /\ buffers > 0
    /\ Goto(t, "dequeue")
    /\ UNCHANGED <<started, buffers, q, frame, next, fault>>

Dequeue(t) ==
    /\ at[t] = "dequeue"
    /\ \E i \in q.done :
        /\ CanDQBuf(q, i)
        /\ q' = DQBuf(q, i)
        /\ next' = [next EXCEPT ![t] = i]
    /\ Goto(t, "wrap")
    /\ UNCHANGED <<started, buffers, frame, fault>>

Wrap(t, h) ==
    /\ at[t] = "wrap" /\ buffers > 0 /\ ~Leased(h)
    /\ frame' = [frame EXCEPT ![h] = [idx |-> next[t], fresh |-> TRUE, out |-> TRUE]]
    /\ next' = [next EXCEPT ![t] = 0]
    /\ Goto(t, "outside")
    /\ UNCHANGED <<started, buffers, q, fault>>

(***************************************************************************)
(* ~MMapFrame queues the buffer by its index, whatever "buffers" is now.   *)
(***************************************************************************)

\* Mutant: the frame goes without queueing its buffer.
ReleaseKept(t, h) ==
    /\ at[t] = "outside" /\ Leased(h) /\ buffers > 0
    /\ frame' = [frame EXCEPT ![h] = NoFrame]
    /\ UNCHANGED <<started, buffers, q, at, next, fault>>

\* Mutant: some buffer is queued, not the frame's own.
ReleaseAnother(t, h) ==
    /\ at[t] = "outside" /\ Leased(h) /\ buffers > 0
    /\ \E i \in Free(q) : q' = QBuf(q, i)
    /\ frame' = [frame EXCEPT ![h] = NoFrame]
    /\ UNCHANGED <<started, buffers, at, next, fault>>

Release(t, h) ==
    /\ at[t] = "outside" /\ Leased(h) /\ buffers > 0 /\ CanQBuf(q, frame[h].idx)
    /\ q' = QBuf(q, frame[h].idx)
    /\ frame' = [frame EXCEPT ![h] = NoFrame]
    /\ UNCHANGED <<started, buffers, at, next, fault>>

\* The kernel refuses the buffer: the exception leaves a destructor.
ReleaseRefused(t, h) ==
    /\ at[t] = "outside" /\ Leased(h) /\ buffers > 0 /\ ~CanQBuf(q, frame[h].idx)
    /\ fault' = "terminate"
    /\ UNCHANGED <<started, buffers, q, frame, at, next>>

\* The kernel could take the buffer, but the ioctl fails (EIO, ENODEV): that exception
\* leaves the destructor as well.
ReleaseFails(t, h) ==
    /\ at[t] = "outside" /\ Leased(h) /\ buffers > 0 /\ CanQBuf(q, frame[h].idx)
    /\ fault' = "device"
    /\ UNCHANGED <<started, buffers, q, frame, at, next>>

ReleaseUnbacked(t, h) ==
    /\ at[t] = "outside" /\ Leased(h) /\ buffers = 0
    /\ fault' = "null"
    /\ UNCHANGED <<started, buffers, q, frame, at, next>>

\* So do QueueBuffer and FetchNext, when "buffers" was reset under them.
UseUnbacked(t) ==
    /\ at[t] \in {"queue", "nqueue", "fetch", "wrap"} /\ buffers = 0
    /\ fault' = "null"
    /\ UNCHANGED <<started, buffers, q, frame, at, next>>

(***************************************************************************)
(* Stream::Stop                                                            *)
(***************************************************************************)
CallStop(t) ==
    /\ at[t] = "outside"
    /\ Goto(t, IF started THEN "off" ELSE "unmark")
    /\ UNCHANGED <<started, buffers, q, frame, next, fault>>

StopStreaming(t) ==
    /\ at[t] = "off"
    /\ q' = StreamOff(q)
    /\ Goto(t, "free")
    /\ UNCHANGED <<started, buffers, frame, next, fault>>

FreeBuffers(t) ==
    /\ at[t] = "free" /\ CanReqBufs(q)
    /\ q' = ReqBufs(0)
    /\ Goto(t, "reset")
    /\ UNCHANGED <<started, buffers, frame, next, fault>>

ResetBuffers(t) ==
    /\ at[t] = "reset"
    /\ buffers' = 0 /\ Outdate
    /\ Goto(t, "unmark")
    /\ UNCHANGED <<started, q, next, fault>>

\* Mutant: the flag is not cleared.
MarkStoppedForgotten(t) ==
    /\ at[t] = "unmark"
    /\ Goto(t, "outside")
    /\ UNCHANGED <<started, buffers, q, frame, next, fault>>

MarkStopped(t) ==
    /\ at[t] = "unmark"
    /\ started' = FALSE
    /\ Goto(t, "outside")
    /\ UNCHANGED <<buffers, q, frame, next, fault>>

\* The kernel is bound to refuse the next ioctl of the call.
Refused(t) ==
    \/ at[t] \in {"alloc", "nalloc", "free"} /\ ~CanReqBufs(q)
    \/ at[t] \in {"queue", "nqueue"} /\ next[t] < buffers /\ ~CanQBuf(q, next[t])
    \/ at[t] \in {"queue", "nqueue"} /\ next[t] = buffers /\ ~CanStreamOn(q)
    \/ at[t] = "dequeue" /\ ~q.streaming

\* An ioctl of the call fails, because it is refused or for another reason.  The
\* constructor of MMapBuffers may also fail after its REQBUFS, in QUERYBUF: the
\* kernel has new buffers then, and "buffers" the old ones.
Throw(t) ==
    /\ at[t] \in {"alloc", "nalloc", "queue", "nqueue", "dequeue", "off", "free"}
    /\ Goto(t, "outside")
    /\ next' = [next EXCEPT ![t] = 0]
    /\ \/ UNCHANGED q
       \/ /\ at[t] \in {"alloc", "nalloc"} /\ CanReqBufs(q)
          /\ \E granted \in 1 .. MaxBufs : q' = ReqBufs(granted)
    /\ UNCHANGED <<started, buffers, frame, fault>>

\* The last reference goes: ~MMapStream, and the closed device frees its queue.
Destroy ==
    /\ \A t \in Threads : at[t] = "outside"
    /\ \A h \in Holders : ~Leased(h)
    /\ started' = FALSE /\ buffers' = 0 /\ q' = NewQueue
    /\ UNCHANGED <<frame, at, next, fault>>

\* The device fills a buffer.
Fill(i) ==
    /\ CanComplete(q, i)
    /\ q' = Complete(q, i)
    /\ UNCHANGED <<started, buffers, frame, at, next, fault>>

\* What a thread does inside a call.
InCall(t) ==
    \/ Alloc(t) \/ QueueAll(t) \/ StartStreaming(t) \/ MarkStarted(t)
    \/ FetchNext(t) \/ Dequeue(t) \/ (\E h \in Holders : Wrap(t, h))
    \/ StopStreaming(t) \/ FreeBuffers(t) \/ ResetBuffers(t) \/ MarkStopped(t)
    \/ UseUnbacked(t) \/ Throw(t)

Releases(t, h) == Release(t, h) \/ ReleaseRefused(t, h) \/ ReleaseUnbacked(t, h)

\* The discipline: one call at a time, Stop only when every frame is back.
Quiet == \A t \in Threads : at[t] = "outside"

Next ==
    /\ fault = "none"
    /\ \/ \E t \in Threads : InCall(t)
       \/ Quiet /\ \E t \in Threads : CallStart(t)
       \/ Quiet /\ (\E h \in Holders : ~Leased(h)) /\ \E t \in Threads : CallNext(t)
       \/ Quiet /\ \E t \in Threads, h \in Holders : Releases(t, h) \/ ReleaseFails(t, h)
       \/ Quiet /\ (\A h \in Holders : ~Leased(h)) /\ \E t \in Threads : CallStop(t)
       \/ Destroy
       \/ \E i \in Indices(MaxBufs) : Fill(i)

Spec == Init /\ [][Next]_vars

-----------------------------------------------------------------------------
(***************************************************************************)
(* Properties                                                              *)
(***************************************************************************)

TypeOK ==
    /\ started \in BOOLEAN /\ buffers \in 0 .. MaxBufs
    /\ q \in Queues(MaxBufs)
    /\ frame \in [Holders -> Frames]
    /\ at \in [Threads -> Places]
    /\ next \in [Threads -> 0 .. MaxBufs]
    /\ fault \in {"none", "null", "terminate", "device"}

\* The stream ends the program only when the device fails at the very QBUF of
\* ~MMapFrame.  Whatever ioctl failed before, "buffers" is not used after its reset,
\* and no frame hands the kernel a buffer that the kernel is bound to refuse.
OnlyDeviceKills == fault \in {"none", "device"}

\* The memory a frame shows belongs to the present buffers, and neither the
\* device nor another frame has it.
LeasesExclusive ==
    \A h \in Holders : Leased(h) =>
        /\ frame[h].fresh
        /\ frame[h].idx \in Free(q)
        /\ \A g \in Holders \ {h} : Leased(g) => frame[g].idx # frame[h].idx

\* While the device streams, every buffer is with the kernel, in a frame, or in
\* the hands of FetchNext: none is lost, the device cannot starve.
NothingLost ==
    q.streaming => \A i \in Indices(q.alloc) :
        \/ i \in KernelHolds(q)
        \/ \E h \in Holders : Leased(h) /\ frame[h].idx = i
        \/ \E t \in Threads : at[t] = "wrap" /\ next[t] = i

\* So each buffer of a stream that is on has exactly one owner.
OneOwner == LeasesExclusive /\ NothingLost

(***************************************************************************)
(* Counted, its buffers are those of Supply, with which Pipeline works.  A *)
(* buffer is lent from the dequeueing until it is queued again.            *)
(***************************************************************************)
Lent == {h \in Holders : Leased(h)}
Fetching == {t \in Threads : at[t] = "wrap"}
OnLoan == Cardinality(Lent) + Cardinality(Fetching)

Counts == [on |-> q.streaming, queued |-> Cardinality(q.queued), done |-> Cardinality(q.done)]

Supplies == INSTANCE Supply WITH Bufs <- MaxBufs, queue <- Counts, lent <- OnLoan

\* Under the discipline each call is one step of Supply, whatever it fails at: a frame takes
\* one buffer and brings it back, and the stream is never started or stopped under one.
ImplementsSupply == Supplies!Spec

=============================================================================
