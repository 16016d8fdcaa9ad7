----------------------------- MODULE BufferRing ------------------------------
(***************************************************************************)
(* What a bridge promises for each DMA buffer it shares between a capture  *)
(* and an output device: the buffer goes round one fixed cycle             *)
(*                                                                         *)
(*   filling -> full -> forwarding -> draining -> spent -> recycling -+    *)
(*      ^                                                             |    *)
(*      +-------------------------------------------------------------+    *)
(*                                                                         *)
(* and leaves it only by being retired (the stream stops or fails).  The   *)
(* capture device therefore never writes a buffer the output device has    *)
(* not finished reading, and no filled buffer is skipped or sent twice.    *)
(***************************************************************************)
CONSTANT Buffers
VARIABLE place

Places == {"idle", "filling", "full", "forwarding", "draining", "spent",
           "recycling"}

Successor == [p \in Places |->
    CASE p = "idle"       -> "filling"
      [] p = "filling"    -> "full"
      [] p = "full"       -> "forwarding"
      [] p = "forwarding" -> "draining"
      [] p = "draining"   -> "spent"
      [] p = "spent"      -> "recycling"
      [] p = "recycling"  -> "filling"]

Init == place = [b \in Buffers |-> "idle"]

\* A buffer takes the next step of the cycle.
Advance(b) == place' = [place EXCEPT ![b] = Successor[place[b]]]

\* A stop or a failure takes a set of buffers out of the cycle.
Retire(S) == place' = [b \in Buffers |-> IF b \in S THEN "idle" ELSE place[b]]

Next == \/ \E b \in Buffers : Advance(b)
        \/ \E S \in SUBSET Buffers : Retire(S)

Spec == Init /\ [][Next]_place

=============================================================================
