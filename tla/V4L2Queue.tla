------------------------------ MODULE V4L2Queue ------------------------------
(***************************************************************************)
(* One V4L2 buffer queue of a device node, as the ioctls of src/ see it.   *)
(* The queue itself lives in the kernel (videobuf2): it is external, and   *)
(* what is modelled is what the callers in libs/v4l rely on.               *)
(*                                                                         *)
(* A buffer index is either free (dequeued, the program may touch it),     *)
(* queued (handed to the driver), or done (the driver has finished with it *)
(* and VIDIOC_DQBUF may return it).  The order in which a driver finishes  *)
(* buffers is its own, so queued and done are sets.                        *)
(***************************************************************************)
EXTENDS Naturals

Indices(n) == 0 .. (n - 1)

Queues(max) == [alloc : 0 .. max, streaming : BOOLEAN,
                queued : SUBSET Indices(max), done : SUBSET Indices(max)]

\* A queue of n buffers, all of them with the program.
IdleQueue(n) == [alloc |-> n, streaming |-> FALSE, queued |-> {}, done |-> {}]
NewQueue == IdleQueue(0)

\* Buffers the kernel owns: the program must not touch their memory.
KernelHolds(q) == q.queued \cup q.done

\* Buffers the program owns.
Free(q) == Indices(q.alloc) \ KernelHolds(q)

\* VIDIOC_REQBUFS: refused (EBUSY) while streaming.  A driver may grant another
\* count than the one asked for; 0 frees the buffers.
CanReqBufs(q) == ~q.streaming
ReqBufs(n) == IdleQueue(n)

\* VIDIOC_QBUF: refused (EINVAL) for a buffer the kernel already owns.
CanQBuf(q, i) == i \in Free(q)
QBuf(q, i) == [alloc |-> q.alloc, streaming |-> q.streaming,
              queued |-> q.queued \cup {i}, done |-> q.done]

\* The driver finishes a buffer: filled (capture) or consumed (output).
CanComplete(q, i) == q.streaming /\ i \in q.queued
Complete(q, i) == [alloc |-> q.alloc, streaming |-> q.streaming,
                   queued |-> q.queued \ {i}, done |-> q.done \cup {i}]

\* VIDIOC_DQBUF: takes one done buffer, and blocks while there is none.
CanDQBuf(q, i) == q.streaming /\ i \in q.done
DQBuf(q, i) == [alloc |-> q.alloc, streaming |-> q.streaming,
               queued |-> q.queued, done |-> q.done \ {i}]

\* VIDIOC_STREAMON and VIDIOC_STREAMOFF; the latter returns every buffer.
CanStreamOn(q) == q.alloc > 0
StreamOn(q) == [alloc |-> q.alloc, streaming |-> TRUE,
                queued |-> q.queued, done |-> q.done]
StreamOff(q) == IdleQueue(q.alloc)

=============================================================================
