-------------------------------- MODULE Relay --------------------------------
(***************************************************************************)
(* What a poll loop relies on of each of its bridges, whose buffers it     *)
(* only counts.  A bridge starts with all buffers at the capture device    *)
(* and none at the output device.  While it runs a buffer only goes from   *)
(* the front of one queue to the back of the other.  A failure ends the    *)
(* run and may lose the one buffer in hand; the devices go on with theirs, *)
(* until they are stopped: the output device never before the capture      *)
(* device.  No run begins while the capture device streams, or the output  *)
(* device holds buffers of an earlier run.                                 *)
(*                                                                         *)
(* Bridge implements this ioctl by ioctl, Pipeline callback by callback.   *)
(***************************************************************************)
EXTENDS CountedQueue

CONSTANT Bufs       \* the largest number of buffers

VARIABLES
    cap,            \* queue of the capture device
    out,            \* queue of the output device
    running         \* started, and neither stopped nor failed since

vars == <<cap, out, running>>

Init == cap = Off /\ out = Off /\ running = FALSE

Start ==
    /\ ~running /\ ~cap.on /\ out \in {Off, Started(0)}
    /\ \E n \in 1 .. Bufs : cap' = Started(n)
    /\ out' = Started(0) /\ running' = TRUE

\* What a start has done when it fails, before the capture device streams.
Prepare ==
    /\ ~running /\ ~cap.on
    /\ \/ cap' = Off /\ UNCHANGED out
       \/ /\ out = Off /\ out' \in {Off, Started(0)}
          /\ \E n \in 0 .. Bufs : cap' = Idle(n)
    /\ UNCHANGED running

\* The devices.
Fill == CanFinish(cap) /\ cap' = Finish(cap) /\ UNCHANGED <<out, running>>
Drain == CanFinish(out) /\ out' = Finish(out) /\ UNCHANGED <<cap, running>>

\* The callbacks.
Forward ==
    /\ running /\ cap.done > 0
    /\ cap' = Take(cap) /\ out' = Give(out) /\ UNCHANGED running

Recycle ==
    /\ running /\ out.done > 0
    /\ out' = Take(out) /\ cap' = Give(cap) /\ UNCHANGED running

Fail ==
    /\ running /\ running' = FALSE
    /\ \/ UNCHANGED <<cap, out>>
       \/ cap.done > 0 /\ cap' = Take(cap) /\ UNCHANGED out
       \/ out.done > 0 /\ out' = Take(out) /\ UNCHANGED cap

\* Capture device first: the output device may be left for later.
Stop == cap' = Off /\ out' \in {out, Off} /\ running' = FALSE

Next ==
    \/ Start \/ Prepare \/ Fill \/ Drain \/ Forward \/ Recycle \/ Fail \/ Stop

Spec == Init /\ [][Next]_vars

=============================================================================
