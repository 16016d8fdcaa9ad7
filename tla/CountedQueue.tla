---------------------------- MODULE CountedQueue -----------------------------
(***************************************************************************)
(* A V4L2 queue (V4L2Queue, external) whose buffers are only counted.      *)
(***************************************************************************)
EXTENDS Naturals

\* on: the device streams; queued and done: buffers the kernel holds.
Idle(n) == [on |-> FALSE, queued |-> n, done |-> 0]
Off == Idle(0)
Started(n) == [on |-> TRUE, queued |-> n, done |-> 0]
Queues(n) == [on : BOOLEAN, queued : 0 .. n, done : 0 .. n]

CanFinish(q) == q.on /\ q.queued > 0
Finish(q) == [on |-> q.on, queued |-> q.queued - 1, done |-> q.done + 1]
Take(q) == [on |-> q.on, queued |-> q.queued, done |-> q.done - 1]
Give(q) == [on |-> q.on, queued |-> q.queued + 1, done |-> q.done]

=============================================================================
