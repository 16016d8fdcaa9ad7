------------------------------- MODULE Supply --------------------------------
(***************************************************************************)
(* What the users of a stream rely on, its buffers only counted.  All of   *)
(* them start at the device, each frame that is lent takes one and brings  *)
(* it back, and neither a start nor a stop finds a frame out.  A start     *)
(* that fails may leave buffers queued, but the device off.                *)
(*                                                                         *)
(* MMapStream implements this ioctl by ioctl and buffer by buffer; the     *)
(* sink and the streams of statistics of Pipeline implement it call by     *)
(* call.                                                                   *)
(***************************************************************************)
EXTENDS CountedQueue

CONSTANT Bufs       \* the largest number of buffers

VARIABLES
    queue,          \* queue of the device
    lent            \* number of frames that are out

vars == <<queue, lent>>

Init == queue = Off /\ lent = 0

Start ==
    /\ ~queue.on /\ lent = 0
    /\ \E n \in 1 .. Bufs : queue' = Started(n)
    /\ UNCHANGED lent

\* What a start has done when it fails.
Prepare ==
    /\ ~queue.on /\ lent = 0
    /\ \E n \in 0 .. Bufs : queue' = Idle(n)
    /\ UNCHANGED lent

Fill == CanFinish(queue) /\ queue' = Finish(queue) /\ UNCHANGED lent

Lend ==
    /\ queue.on /\ queue.done > 0
    /\ queue' = Take(queue) /\ lent' = lent + 1

Return ==
    /\ queue.on /\ lent > 0
    /\ queue' = Give(queue) /\ lent' = lent - 1

\* A frame that comes and goes within a callback.
Use ==
    /\ queue.on /\ queue.done > 0
    /\ queue' = Give(Take(queue)) /\ UNCHANGED lent

Stop == lent = 0 /\ queue' = Off /\ UNCHANGED lent

Next == Start \/ Prepare \/ Fill \/ Lend \/ Return \/ Use \/ Stop

Spec == Init /\ [][Next]_vars

=============================================================================
