-------------------------------- MODULE Loader --------------------------------
(***************************************************************************)
(* LoadPipeline (libs/pipeline/src/loader.cpp): every request asks for the *)
(* one PipelineImpl of the program, which lives as long as a request that  *)
(* uses it and is built again, from devices opened again, by the next.     *)
(*                                                                         *)
(* Opening a node twice would be wrong: the two queues of a device belong  *)
(* together only under one file handle, and buffers block its queues for   *)
(* any other handle.                                                       *)
(***************************************************************************)
EXTENDS Integers, Sequences, SequencesExt

CONSTANTS
    Nodes,      \* device nodes
    Configs,    \* configuration files
    Kinds,      \* sets of capabilities that nodes may have
    Algorithms, \* the names that RegisterAlgorithm has seen
    Decoders,   \* and RegisterDecoder
    MaxLoads,   \* bound: how often a pipeline is built
    MaxUsers    \* bound: requests that are served at a time

Capabilities == {"capture", "output", "meta"}

\* The nodes in the order in which LoadDevices comes to them.
Mentioned(c) ==
    FlattenSeq([j \in 1 .. Len(c.bridges) |-> <<c.bridges[j].sink, c.bridges[j].source>>])
      \o <<c.source>>
      \o [j \in 1 .. Len(c.controls) |-> c.controls[j].stats]

ASSUME LoaderAssumption ==
    /\ Kinds \subseteq SUBSET Capabilities
    /\ \A c \in Configs : Mentioned(c) \in Seq(Nodes)
    /\ MaxLoads \in Nat /\ MaxUsers \in Nat \ {0}

VARIABLES
    config,     \* the configuration
    caps,       \* the capabilities of each node
    pc,         \* where LoadPipeline is
    i,          \* loop index
    devices,    \* the nodes that the Devices of LoadDevices hold open
    impl,       \* does the PipelineImpl exist?
    users,      \* the Pipelines that requests hold
    fds,        \* how many file descriptors of each node are open
    leaked,     \* how many of them nothing will close
    loads       \* pipelines begun so far

setting == <<config, caps>>
vars == <<setting, pc, i, devices, impl, users, fds, leaked, loads>>

Needed == Mentioned(config)

Init ==
    /\ config \in Configs /\ caps \in [Nodes -> Kinds]
    /\ pc = "idle" /\ i = 1 /\ devices = {} /\ impl = FALSE /\ users = 0
    /\ fds = [n \in Nodes |-> 0] /\ leaked = [n \in Nodes |-> 0] /\ loads = 0

-----------------------------------------------------------------------------
\* Mutant: the pipeline that exists is not found.
LoadAnew ==
    /\ pc = "idle" /\ users < MaxUsers /\ loads < MaxLoads
    /\ pc' = "open" /\ i' = 1 /\ devices' = {} /\ loads' = loads + 1
    /\ UNCHANGED <<setting, impl, users, fds, leaked>>

\* A request shares the pipeline that exists...
Share ==
    /\ pc = "idle" /\ impl /\ users < MaxUsers
    /\ users' = users + 1
    /\ UNCHANGED <<setting, pc, i, devices, impl, fds, leaked, loads>>

\* ...or builds it.
Load ==
    /\ pc = "idle" /\ ~impl /\ loads < MaxLoads
    /\ pc' = "open" /\ i' = 1 /\ devices' = {} /\ loads' = loads + 1
    /\ UNCHANGED <<setting, impl, users, fds, leaked>>

OpenNode(n) == fds' = [fds EXCEPT ![n] = @ + 1]

\* Mutant: each mention of a node opens it.
OpenEach ==
    /\ pc = "open" /\ i <= Len(Needed)
    /\ OpenNode(Needed[i])
    /\ devices' = devices \cup {Needed[i]} /\ i' = i + 1
    /\ UNCHANGED <<setting, pc, impl, users, leaked, loads>>

\* LoadDevices opens every node that it has not met before.
Open ==
    /\ pc = "open" /\ i <= Len(Needed)
    /\ IF Needed[i] \in devices THEN UNCHANGED fds ELSE OpenNode(Needed[i])
    /\ devices' = devices \cup {Needed[i]} /\ i' = i + 1
    /\ UNCHANGED <<setting, pc, impl, users, leaked, loads>>

\* The next stage of LoadPipeline.
Go(stage) ==
    /\ pc' = stage /\ i' = 1
    /\ UNCHANGED <<setting, devices, impl, users, fds, leaked, loads>>

Opened == pc = "open" /\ i > Len(Needed) /\ Go("bridges")

Continue == i' = i + 1 /\ UNCHANGED <<setting, pc, devices, impl, users, fds, leaked, loads>>

BuildBridge == pc = "bridges" /\ i <= Len(config.bridges) /\ Continue

BridgesBuilt == pc = "bridges" /\ i > Len(config.bridges) /\ Go("source")

SourceFound == pc = "source" /\ "capture" \in caps[config.source] /\ Go("controls")

GetAlgorithm(name) == name \in Algorithms
GetDecoder(name) == name \in Decoders

\* Algorithms need a device that is open already; they and the decoder, a name that
\* is known.
Complete(c) ==
    /\ \A j \in 1 .. Len(c.algorithms) :
         c.algorithms[j].device \in devices /\ GetAlgorithm(c.algorithms[j].name)
    /\ GetDecoder(c.decoder)

BuildControl ==
    /\ pc = "controls" /\ i <= Len(config.controls) /\ Complete(config.controls[i])
    /\ Continue

\* Dereferencing the empty optional of TryCapture, TryOutput or TryMetaCapture is
\* undefined: the program may end, or copy a device out of the uninitialised value
\* and go on, for the checks that follow always find one.
Crash ==
    /\ \/ /\ pc = "bridges" /\ i <= Len(config.bridges)
          /\ \/ "capture" \notin caps[config.bridges[i].source]
             \/ "output" \notin caps[config.bridges[i].sink]
       \/ /\ pc = "controls" /\ i <= Len(config.controls)
          /\ "meta" \notin caps[config.controls[i].stats]
    /\ pc' = "crashed"
    /\ UNCHANGED <<setting, i, devices, impl, users, fds, leaked, loads>>

Built ==
    /\ pc = "controls" /\ i > Len(config.controls)
    /\ pc' = "idle" /\ impl' = TRUE /\ users' = 1
    /\ UNCHANGED <<setting, i, devices, fds, leaked, loads>>

CloseAll == fds' = [n \in Nodes |-> fds[n] - (IF n \in devices THEN 1 ELSE 0)]

\* LoadPipeline throws, and the Devices opened so far are closed: a node that does
\* not open, a source that does not capture, a control that is not complete.
Throw ==
    /\ \/ pc = "open" /\ i <= Len(Needed) /\ Needed[i] \notin devices
       \/ pc = "source" /\ "capture" \notin caps[config.source]
       \/ pc = "controls" /\ i <= Len(config.controls) /\ ~Complete(config.controls[i])
    /\ CloseAll /\ pc' = "idle" /\ devices' = {}
    /\ UNCHANGED <<setting, i, impl, users, leaked, loads>>

\* VIDIOC_QUERYCAP fails on the node just opened, before a Device holds it.
QueryFails ==
    /\ pc = "open" /\ i <= Len(Needed) /\ Needed[i] \notin devices
    /\ fds' = [n \in Nodes |-> fds[n] - (IF n \in devices THEN 1 ELSE 0)
                                      + (IF n = Needed[i] THEN 1 ELSE 0)]
    /\ leaked' = [leaked EXCEPT ![Needed[i]] = @ + 1]
    /\ pc' = "idle" /\ devices' = {}
    /\ UNCHANGED <<setting, i, impl, users, loads>>

\* Mutant: every request closes the devices.
ReleaseEach ==
    /\ pc = "idle" /\ users > 0
    /\ users' = users - 1 /\ impl' = (users > 1)
    /\ CloseAll
    /\ UNCHANGED <<setting, pc, i, devices, leaked, loads>>

\* A request ends; with the last one the PipelineImpl and its Devices.
Release ==
    /\ pc = "idle" /\ users > 0
    /\ users' = users - 1
    /\ IF users = 1
         THEN CloseAll /\ devices' = {} /\ impl' = FALSE
         ELSE UNCHANGED <<fds, devices, impl>>
    /\ UNCHANGED <<setting, pc, i, leaked, loads>>

Next ==
    \/ Share \/ Load \/ Open \/ Opened \/ BuildBridge \/ BridgesBuilt
    \/ SourceFound \/ BuildControl \/ Crash \/ Built \/ Throw \/ QueryFails \/ Release

Spec == Init /\ [][Next]_vars

-----------------------------------------------------------------------------
(***************************************************************************)
(* Properties                                                              *)
(***************************************************************************)

TypeOK ==
    /\ config \in Configs /\ caps \in [Nodes -> Kinds]
    /\ pc \in {"idle", "open", "bridges", "source", "controls", "crashed"}
    /\ i \in Nat \ {0} /\ devices \subseteq Nodes /\ impl \in BOOLEAN
    /\ users \in 0 .. MaxUsers /\ loads \in 0 .. MaxLoads
    /\ fds \in [Nodes -> 0 .. 2 * MaxLoads] /\ leaked \in [Nodes -> 0 .. MaxLoads]

\* Whatever the configuration says twice and however loads failed before, a node
\* is open under one handle at a time, and under none once nobody needs it: only a
\* descriptor whose QUERYCAP failed is never closed.
OneHandlePerNode ==
    \A n \in Nodes : fds[n] = leaked[n] + (IF n \in devices THEN 1 ELSE 0)

\* Requests that are served at the same time share one pipeline: while one of them
\* holds it, no other opens or closes any of its devices.
UsersKeepDevices ==
    [][users > 0 /\ users' > 0 => UNCHANGED <<impl, devices, fds>>]_vars

\* "Bridge needs a capture device and an output device" (loader.cpp:58).
BridgesHaveDevices ==
    impl => \A j \in 1 .. Len(config.bridges) :
        /\ "capture" \in caps[config.bridges[j].source]
        /\ "output" \in caps[config.bridges[j].sink]

=============================================================================
