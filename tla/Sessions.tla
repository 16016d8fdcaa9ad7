------------------------------ MODULE Sessions -------------------------------
(***************************************************************************)
(* The /stream and /snapshot handlers over one sink stream                 *)
(* (v4l2-stream/src/stream.cpp, snapshot.cpp).                             *)
(*                                                                         *)
(* main runs one io_context thread, IO: the handlers are coroutines of it, *)
(* so a session runs until it yields a part of its response, and blocks    *)
(* every other session while it sleeps, waits for a frame or joins.  Each  *)
(* session starts a pipeline thread of its own, which calls sink_->Stop    *)
(* when it is told to stop.  LoadPipeline gives overlapping sessions the   *)
(* same PipelineImpl, hence the same sink.                                 *)
(*                                                                         *)
(* The sink is MMapStream, step by step, without its discipline: the       *)
(* property FollowsDiscipline says that sessions keep it.  What the        *)
(* pipeline thread does besides (the bridges) is in Pipeline.              *)
(***************************************************************************)
EXTENDS MMapStream, FiniteSets

CONSTANTS
    Sessions,       \* a session is also the name of its pipeline thread
    IO,             \* the thread of the io_context
    Limits,         \* see limit
    Discards,       \* frames a snapshot throws away first (20 in the code)
    Kinds,          \* of pipelines: "bridged", where frames reach the sink only through
                    \* bridges, and "plain", where the camera fills it
    PipelineFails,  \* may a pipeline thread throw (poll, a bridge, a control)?
    IoctlFails      \* may an ioctl of the sink fail though the kernel could do it?

ASSUME ThreadsAssumption ==
    /\ IO \notin Sessions /\ Threads = Sessions \cup {IO} /\ Holders = Sessions
    /\ IsFiniteSet(Sessions) /\ "idle" \notin Sessions /\ Discards \in Nat
    /\ Kinds \subseteq {"bridged", "plain"} /\ Limits \subseteq Nat

VARIABLES
    io,             \* the session whose coroutine IO runs, or "idle"
    place,          \* where the session's coroutine is
    kind,           \* "stream" or "snapshot"
    shots,          \* frames a snapshot has thrown away
    pipeline,       \* the session's pipeline thread
    stop,           \* its stop token
    chain,          \* the kind of pipeline that is configured
    limit,          \* how many sessions clients have open at once
    crashed         \* an exception left a thread that does not catch it

setting == <<chain, limit>>
control == <<io, place, kind, shots, pipeline, stop, crashed, setting>>
sessVars == <<vars, control>>

\* The frame of session s goes.
GiveBack(s) == Releases(IO, s) \/ (IoctlFails /\ ReleaseFails(IO, s))

Alive == {s \in Sessions : place[s] # "absent"}
GotoPlace(s, p) == place' = [place EXCEPT ![s] = p]
Steady == UNCHANGED vars

SessTypeOK ==
    /\ TypeOK
    /\ io \in Sessions \cup {"idle"}
    /\ place \in [Sessions -> {"absent", "prepare", "head", "loop", "next", "got",
                               "body", "error", "drop", "join"}]
    /\ kind \in [Sessions -> {"stream", "snapshot"}]
    /\ shots \in [Sessions -> 0 .. Discards]
    /\ pipeline \in [Sessions -> {"none", "running", "stopping"}]
    /\ stop \in [Sessions -> BOOLEAN]
    /\ crashed \in BOOLEAN /\ chain \in Kinds /\ limit \in Limits

-----------------------------------------------------------------------------
SessInit ==
    /\ Init
    /\ io = "idle"
    /\ place = [s \in Sessions |-> "absent"]
    /\ kind = [s \in Sessions |-> "stream"]
    /\ shots = [s \in Sessions |-> 0]
    /\ pipeline = [s \in Sessions |-> "none"]
    /\ stop = [s \in Sessions |-> FALSE]
    /\ crashed = FALSE /\ chain \in Kinds /\ limit \in Limits

(***************************************************************************)
(* A request arrives: Route::GetHandler loads the pipeline, Handle begins. *)
(***************************************************************************)
Accept(s) ==
    /\ io = "idle" /\ place[s] = "absent" /\ Cardinality(Alive) < limit
    /\ io' = s
    /\ GotoPlace(s, "prepare")
    /\ \E k \in {"stream", "snapshot"} : kind' = [kind EXCEPT ![s] = k]
    /\ UNCHANGED <<shots, pipeline, stop, crashed, setting>> /\ Steady

\* pipeline.Prepare threw: the handler goes before it started anything.
PrepareFails(s) ==
    /\ io = s /\ place[s] = "prepare"
    /\ GotoPlace(s, "join")
    /\ UNCHANGED <<io, kind, shots, pipeline, stop, crashed, setting>> /\ Steady

\* The thread is started; /stream yields its status and headers, /snapshot
\* sleeps on the io thread and goes on.
StartPipeline(s) ==
    /\ io = s /\ place[s] = "prepare"
    /\ pipeline' = [pipeline EXCEPT ![s] = "running"]
    /\ stop' = [stop EXCEPT ![s] = FALSE]
    /\ shots' = [shots EXCEPT ![s] = 0]
    /\ IF kind[s] = "stream" THEN GotoPlace(s, "head") /\ io' = "idle"
                             ELSE GotoPlace(s, "loop") /\ UNCHANGED io
    /\ UNCHANGED <<kind, crashed, setting>> /\ Steady

\* The response part was written, the coroutine goes on.  After its body a
\* stream lets go of the frame and looks for the next, a snapshot is finished.
Resume(s) ==
    /\ io = "idle"
    /\ io' = s
    /\ \/ place[s] = "head" /\ GotoPlace(s, "loop") /\ Steady
       \/ place[s] = "body" /\ kind[s] = "stream" /\ GotoPlace(s, "loop")
                            /\ GiveBack(s)
       \/ place[s] = "body" /\ kind[s] = "snapshot" /\ GotoPlace(s, "drop") /\ Steady
       \/ place[s] = "error" /\ GotoPlace(s, "drop") /\ Steady
    /\ UNCHANGED <<kind, shots, pipeline, stop, crashed, setting>>

\* The part could not be written: the server destroys the coroutine.
Disconnect(s) ==
    /\ io = "idle" /\ place[s] \in {"head", "body", "error"}
    /\ io' = s
    /\ GotoPlace(s, "drop")
    /\ UNCHANGED <<kind, shots, pipeline, stop, crashed, setting>> /\ Steady

(***************************************************************************)
(* The loops of the two handlers                                           *)
(***************************************************************************)
IsDone(s) ==
    /\ io = s /\ place[s] = "loop" /\ kind[s] = "stream"
    /\ stop' = [stop EXCEPT ![s] = TRUE]
    /\ GotoPlace(s, "drop")
    /\ UNCHANGED <<io, kind, shots, pipeline, crashed, setting>> /\ Steady

AskNext(s) ==
    /\ io = s /\ place[s] = "loop"
    /\ CallNext(IO)
    /\ GotoPlace(s, "next")
    /\ UNCHANGED <<io, kind, shots, pipeline, stop, crashed, setting>>

InsideNext(s) ==
    /\ io = s /\ place[s] = "next"
    /\ \/ Alloc(IO) \/ QueueAll(IO) \/ StartStreaming(IO) \/ MarkStarted(IO)
       \/ FetchNext(IO) \/ Dequeue(IO) \/ UseUnbacked(IO)
    /\ UNCHANGED control

NextReturns(s) ==
    /\ io = s /\ place[s] = "next"
    /\ Wrap(IO, s)
    /\ GotoPlace(s, "got")
    /\ UNCHANGED <<io, kind, shots, pipeline, stop, crashed, setting>>

\* Each handler catches what Next throws; /snapshot answers with an error.
NextThrows(s) ==
    /\ io = s /\ place[s] = "next"
    /\ IoctlFails \/ Refused(IO)
    /\ Throw(IO)
    /\ IF kind[s] = "stream" THEN GotoPlace(s, "drop") /\ UNCHANGED io
                             ELSE GotoPlace(s, "error") /\ io' = "idle"
    /\ UNCHANGED <<kind, shots, pipeline, stop, crashed, setting>>

\* Mutant: one frame too many.
DiscardOneMore(s) ==
    /\ io = s /\ place[s] = "got" /\ kind[s] = "snapshot" /\ shots[s] <= Discards
    /\ GiveBack(s)
    /\ shots' = [shots EXCEPT ![s] = @ + 1]
    /\ GotoPlace(s, "loop")
    /\ UNCHANGED <<io, kind, pipeline, stop, crashed, setting>>

\* A snapshot drops its first frames at once...
Discard(s) ==
    /\ io = s /\ place[s] = "got" /\ kind[s] = "snapshot" /\ shots[s] < Discards
    /\ GiveBack(s)
    /\ shots' = [shots EXCEPT ![s] = @ + 1]
    /\ GotoPlace(s, "loop")
    /\ UNCHANGED <<io, kind, pipeline, stop, crashed, setting>>

\* ...every other frame is written out, and held until that is done.
Yield(s) ==
    /\ io = s /\ place[s] = "got" /\ (kind[s] = "snapshot" => shots[s] = Discards)
    /\ GotoPlace(s, "body")
    /\ io' = "idle"
    /\ UNCHANGED <<kind, shots, pipeline, stop, crashed, setting>> /\ Steady

(***************************************************************************)
(* The end of a session: the frame goes with the coroutine, then the       *)
(* pipeline thread is told to stop and joined, on the io thread.  That the *)
(* server destroys the coroutine before the handler it belongs to is taken *)
(* from its use of "this": the server itself is not in src/.               *)
(***************************************************************************)

\* Mutant: the thread is told to stop before the frame is given back.
DropAfterStop(s) ==
    /\ io = s /\ place[s] = "drop"
    /\ \/ ~stop[s] /\ stop' = [stop EXCEPT ![s] = TRUE] /\ UNCHANGED place /\ Steady
       \/ stop[s] /\ Leased(s) /\ GiveBack(s) /\ UNCHANGED <<place, stop>>
       \/ stop[s] /\ ~Leased(s) /\ GotoPlace(s, "join") /\ UNCHANGED stop /\ Steady
    /\ UNCHANGED <<io, kind, shots, pipeline, crashed, setting>>

\* Mutant: the thread is not told to stop.
DropNeverStops(s) ==
    /\ io = s /\ place[s] = "drop"
    /\ \/ Leased(s) /\ GiveBack(s) /\ UNCHANGED place
       \/ ~Leased(s) /\ Steady /\ GotoPlace(s, "join")
    /\ UNCHANGED <<io, kind, shots, pipeline, stop, crashed, setting>>

Drop(s) ==
    /\ io = s /\ place[s] = "drop"
    /\ \/ Leased(s) /\ GiveBack(s) /\ UNCHANGED <<place, stop>>
       \/ /\ ~Leased(s) /\ Steady
          /\ stop' = [stop EXCEPT ![s] = TRUE]
          /\ GotoPlace(s, "join")
    /\ UNCHANGED <<io, kind, shots, pipeline, crashed, setting>>

\* Mutant: the handler is destroyed without waiting for its thread.
JoinForgotten(s) ==
    /\ io = s /\ place[s] = "join"
    /\ io' = "idle"
    /\ GotoPlace(s, "absent")
    /\ UNCHANGED <<kind, shots, pipeline, stop, crashed, setting>> /\ Steady

\* With the last handler the PipelineImpl goes, unless a control request that
\* is just being answered still holds it.
Join(s) ==
    /\ io = s /\ place[s] = "join" /\ pipeline[s] = "none"
    /\ io' = "idle"
    /\ GotoPlace(s, "absent")
    /\ \/ Steady
       \/ Alive = {s} /\ Destroy
    /\ UNCHANGED <<kind, shots, pipeline, stop, crashed, setting>>

(***************************************************************************)
(* The pipeline threads                                                    *)
(***************************************************************************)
PipelineStops(s) ==
    /\ pipeline[s] = "running" /\ stop[s]
    /\ CallStop(s)
    /\ pipeline' = [pipeline EXCEPT ![s] = "stopping"]
    /\ UNCHANGED <<io, place, kind, shots, stop, crashed, setting>>

InsideStop(s) ==
    /\ pipeline[s] = "stopping"
    /\ StopStreaming(s) \/ FreeBuffers(s) \/ ResetBuffers(s)
    /\ UNCHANGED control

StopReturns(s) ==
    /\ pipeline[s] = "stopping"
    /\ MarkStopped(s)
    /\ pipeline' = [pipeline EXCEPT ![s] = "none"]
    /\ UNCHANGED <<io, place, kind, shots, stop, crashed, setting>>

\* An exception ends the thread before or inside sink_->Stop.  Only the thread
\* of a snapshot catches it.
PipelineThrows(s) ==
    /\ \/ PipelineFails /\ pipeline[s] = "running" /\ Steady
       \/ (IoctlFails \/ Refused(s)) /\ pipeline[s] = "stopping" /\ Throw(s)
    /\ IF kind[s] = "snapshot"
         THEN pipeline' = [pipeline EXCEPT ![s] = "none"] /\ UNCHANGED crashed
         ELSE crashed' = TRUE /\ UNCHANGED pipeline
    /\ UNCHANGED <<io, place, kind, shots, stop, setting>>

\* The device that fills the sink's buffers is the camera, or is fed by bridges
\* that some pipeline thread serves.
Device ==
    /\ chain = "bridged" => \E s \in Sessions : pipeline[s] = "running"
    /\ \E i \in Indices(MaxBufs) : Fill(i)
    /\ UNCHANGED control

\* Steps of the io thread on behalf of session s that depend on no client.
IoStep(s) ==
    \/ PrepareFails(s) \/ StartPipeline(s) \/ IsDone(s) \/ AskNext(s)
    \/ InsideNext(s) \/ NextReturns(s) \/ (Refused(IO) /\ NextThrows(s))
    \/ Discard(s) \/ Yield(s) \/ Drop(s) \/ Join(s)

PipelineStep(s) ==
    \/ PipelineStops(s) \/ InsideStop(s) \/ StopReturns(s)
    \/ Refused(s) /\ PipelineThrows(s)

SessNext ==
    /\ fault = "none" /\ ~crashed
    /\ \/ \E s \in Sessions :
            \/ Accept(s) \/ Resume(s) \/ Disconnect(s) \/ IoStep(s) \/ NextThrows(s)
            \/ PipelineStep(s) \/ PipelineThrows(s)
       \/ Device

SessSpec == SessInit /\ [][SessNext]_sessVars

\* The io thread and the pipeline threads are scheduled, a write to a client
\* succeeds or fails, and the camera goes on filling the buffers it has.
Fairness ==
    /\ WF_sessVars(fault = "none" /\ ~crashed /\ Device)
    /\ \A s \in Sessions :
        /\ WF_sessVars(fault = "none" /\ ~crashed /\ IoStep(s))
        /\ WF_sessVars(fault = "none" /\ ~crashed /\ PipelineStep(s))
        /\ WF_sessVars(fault = "none" /\ ~crashed /\ (Resume(s) \/ Disconnect(s)))

FairSessSpec == SessSpec /\ Fairness

-----------------------------------------------------------------------------
(***************************************************************************)
(* Properties                                                              *)
(***************************************************************************)

\* Sessions that do not overlap use the sink as MMapStream wants to be used: no
\* two calls at once, and every frame back before its thread calls Stop.  All that
\* is proved of MMapStream!Spec holds of them.
FollowsDiscipline == Init /\ [][limit = 1 => Next]_vars

\* A pipeline thread stops the sink only when its own session holds no frame,
\* also when other sessions are open.
StopsAfterOwnFrame ==
    \A s \in Sessions : pipeline[s] = "stopping" => ~Leased(s)

\* No pipeline thread outlives its session: whoever is accepted next does not
\* meet a thread of an earlier session that is still going to stop the sink.
NoThreadOutlives ==
    \A s \in Sessions : place[s] = "absent" => pipeline[s] = "none"

Ended == crashed \/ fault # "none"

\* With bridges nobody fills the sink any more once the pipeline thread has thrown.
Abandoned(s) == chain = "bridged" /\ place[s] = "next" /\ pipeline[s] = "none"

\* A handler that has the sink to itself gets the frame it asks for, or an exception.
NextIsAnswered ==
    \A s \in Sessions :
        limit = 1 /\ place[s] = "next" ~> place[s] # "next" \/ Ended \/ Abandoned(s)

\* A snapshot comes to its end, and with it the io thread is free again.
SnapshotEnds ==
    \A s \in Sessions :
        limit = 1 /\ place[s] # "absent" /\ kind[s] = "snapshot" ~>
            place[s] = "absent" \/ Ended \/ Abandoned(s)

\* A session that lets go of its pipeline ends: the join, which keeps the io thread from
\* everybody else, does not wait forever, whatever another session's thread does.
JoinReturns ==
    \A s \in Sessions : place[s] = "join" ~> place[s] = "absent" \/ Ended

\* No session keeps the io thread for ever, in a snapshot or in a join.
SessionsEnd == SnapshotEnds /\ JoinReturns

=============================================================================
