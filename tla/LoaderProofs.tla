----------------------------- MODULE LoaderProofs ----------------------------
(***************************************************************************)
(* Theorems about Loader for every configuration, set of nodes and number  *)
(* of requests.                                                            *)
(***************************************************************************)
EXTENDS Loader, TLAPS

\* Who holds what: the devices belong to the load that is under way or to the
\* pipeline, and a pipeline to its users.
Ownership ==
    /\ users > 0 <=> impl
    /\ impl => pc = "idle"
    /\ pc = "idle" /\ ~impl => devices = {}
    /\ pc # "idle" => loads > 0
    /\ devices # {} => loads > 0

\* Every load leaks at most once, and the one under way has not yet.
Leaks == \A n \in Nodes : leaked[n] <= loads - (IF pc = "idle" THEN 0 ELSE 1)

\* The inductive invariant.
IInv == TypeOK /\ OneHandlePerNode /\ Ownership /\ Leaks

LEMMA InitIInv == Init => IInv
  <1> SUFFICES ASSUME Init PROVE IInv
    OBVIOUS
  <1>1. TypeOK
    <2>1. 0 \in 0 .. MaxUsers /\ 0 \in 0 .. MaxLoads /\ 0 \in 0 .. 2 * MaxLoads
      BY LoaderAssumption
    <2>2. fds \in [Nodes -> 0 .. 2 * MaxLoads] /\ leaked \in [Nodes -> 0 .. MaxLoads]
      BY <2>1 DEF Init
    <2>3. /\ config \in Configs /\ caps \in [Nodes -> Kinds] /\ pc = "idle"
          /\ devices \subseteq Nodes /\ impl = FALSE
      BY Zenon DEF Init
    <2>4. i \in Nat \ {0}
      BY DEF Init
    <2>5. users \in 0 .. MaxUsers /\ loads \in 0 .. MaxLoads
      BY <2>1 DEF Init
    <2> QED
      BY <2>2, <2>3, <2>4, <2>5 DEF TypeOK
  <1>2. Ownership
    BY DEF Init, Ownership
  <1>3. OneHandlePerNode /\ Leaks
    BY DEF Init, OneHandlePerNode, Leaks
  <1> QED
    BY <1>1, <1>2, <1>3 DEF IInv

\* The nodes that a configuration mentions are nodes.
LEMMA NeededNode ==
    ASSUME TypeOK, i <= Len(Needed)
    PROVE  Needed[i] \in Nodes
  <1>1. Needed \in Seq(Nodes)
    BY LoaderAssumption DEF TypeOK, Needed
  <1> QED
    BY <1>1 DEF TypeOK

\* A pipeline is begun, and its nodes are opened.
LEMMA OpenStep == ASSUME IInv, Load \/ Open PROVE IInv'
  <1>1. CASE Load
    <2>1. loads \in Nat /\ loads + 1 \in 0 .. MaxLoads /\ ~impl /\ devices = {}
      BY <1>1, LoaderAssumption DEF Load, IInv, TypeOK, Ownership
    <2>2. TypeOK'
      BY <1>1, <2>1 DEF Load, IInv, TypeOK, setting
    <2>3. OneHandlePerNode' /\ Ownership'
      BY <1>1, <2>1 DEF Load, IInv, OneHandlePerNode, Ownership, setting
    <2>4. Leaks'
      BY <1>1, <2>1 DEF Load, IInv, TypeOK, Leaks, setting
    <2> QED
      BY <2>2, <2>3, <2>4 DEF IInv
  <1>2. CASE Open
    <2>1. Needed[i] \in Nodes
      BY <1>2, NeededNode DEF Open, IInv
    <2>2. /\ UNCHANGED <<setting, pc, impl, users, leaked, loads>> /\ pc = "open"
          /\ devices' = devices \cup {Needed[i]} /\ i' = i + 1
          /\ fds' = IF Needed[i] \in devices THEN fds
                    ELSE [fds EXCEPT ![Needed[i]] = @ + 1]
      BY <1>2 DEF Open, OpenNode
    <2>3. Needed[i] \in devices \/ fds[Needed[i]] = leaked[Needed[i]]
      BY <2>1 DEF IInv, OneHandlePerNode, TypeOK
    <2>4. loads \in 1 .. MaxLoads /\ \A n \in Nodes : leaked[n] \in 0 .. MaxLoads - 1
      BY <2>1, <2>2, LoaderAssumption DEF IInv, Ownership, Leaks, TypeOK
    <2>5. fds' \in [Nodes -> 0 .. 2 * MaxLoads]
      <3>1. fds \in [Nodes -> 0 .. 2 * MaxLoads]
        BY DEF IInv, TypeOK
      <3>2. Needed[i] \in devices \/ fds[Needed[i]] + 1 \in 0 .. 2 * MaxLoads
        BY <2>1, <2>3, <2>4, LoaderAssumption
      <3> QED
        BY <2>1, <2>2, <3>1, <3>2
    <2>6. TypeOK'
      BY <2>1, <2>2, <2>5 DEF IInv, TypeOK, setting
    <2>7. OneHandlePerNode'
      <3> SUFFICES ASSUME NEW n \in Nodes
                   PROVE  fds'[n] = leaked[n] + (IF n \in devices' THEN 1 ELSE 0)
        BY <2>2 DEF OneHandlePerNode
      <3>1. fds[n] = leaked[n] + (IF n \in devices THEN 1 ELSE 0) /\ leaked[n] \in Nat
        BY DEF IInv, OneHandlePerNode, TypeOK
      <3>2. CASE n = Needed[i]
        BY <2>1, <2>2, <3>1, <3>2 DEF IInv, TypeOK
      <3>3. CASE n # Needed[i]
        BY <2>1, <2>2, <3>1, <3>3 DEF IInv, TypeOK
      <3> QED
        BY <3>2, <3>3
    <2>8. Ownership'
      BY <2>2, <2>4 DEF IInv, Ownership
    <2>9. Leaks'
      BY <2>2 DEF IInv, Leaks
    <2> QED
      BY <2>6, <2>7, <2>8, <2>9 DEF IInv
  <1> QED
    BY <1>1, <1>2

\* A pipeline is built, or the program ends on the way.
LEMMA BuildStep ==
    ASSUME IInv,
           \/ Opened \/ BuildBridge \/ BridgesBuilt \/ SourceFound \/ BuildControl
           \/ Crash \/ Built
    PROVE  IInv'
  <1>1. CASE Built
    <2>1. UNCHANGED <<setting, i, devices, fds, leaked, loads>> /\ pc' = "idle" /\ impl'
          /\ users' = 1 /\ 1 \in 0 .. MaxUsers /\ pc = "controls" /\ impl' \in BOOLEAN
      BY <1>1, LoaderAssumption DEF Built
    <2>2. TypeOK'
      BY <2>1 DEF IInv, TypeOK, setting
    <2>3. OneHandlePerNode' /\ Ownership'
      BY <2>1 DEF IInv, OneHandlePerNode, Ownership
    <2>4. Leaks'
      BY <2>1 DEF IInv, Leaks, TypeOK
    <2> QED
      BY <2>2, <2>3, <2>4 DEF IInv
  <1>2. CASE Opened \/ BuildBridge \/ BridgesBuilt \/ SourceFound \/ BuildControl \/ Crash
    <2>1. /\ UNCHANGED <<setting, devices, impl, users, fds, leaked, loads>>
          /\ pc # "idle" /\ pc' \in {"open", "bridges", "source", "controls", "crashed"}
          /\ i' \in Nat \ {0}
      BY <1>2 DEF Opened, BuildBridge, BridgesBuilt, SourceFound, BuildControl, Crash, Go,
                  Continue, IInv, TypeOK
    <2>2. TypeOK'
      BY <2>1 DEF IInv, TypeOK, setting
    <2>3. OneHandlePerNode' /\ Ownership' /\ Leaks'
      BY <2>1 DEF IInv, OneHandlePerNode, Ownership, Leaks
    <2> QED
      BY <2>2, <2>3 DEF IInv
  <1> QED
    BY <1>1, <1>2

\* Closing the devices leaves each node with what leaked of it.
LEMMA CloseAllKeeps ==
    ASSUME IInv, CloseAll
    PROVE  fds' = leaked /\ leaked \in [Nodes -> 0 .. 2 * MaxLoads]
  <1>1. \A n \in Nodes : fds[n] - (IF n \in devices THEN 1 ELSE 0) = leaked[n]
    BY DEF IInv, OneHandlePerNode, TypeOK
  <1>2. leaked \in [Nodes -> 0 .. 2 * MaxLoads]
    BY LoaderAssumption DEF IInv, TypeOK
  <1> QED
    BY <1>1, <1>2 DEF CloseAll

\* A load fails.
LEMMA FailStep == ASSUME IInv, Throw \/ QueryFails PROVE IInv'
  <1>1. CASE Throw
    <2>1. /\ UNCHANGED <<setting, i, impl, users, leaked, loads>> /\ CloseAll
          /\ pc' = "idle" /\ devices' = {} /\ pc # "idle"
      BY <1>1 DEF Throw
    <2>2. fds' = leaked /\ leaked \in [Nodes -> 0 .. 2 * MaxLoads]
      BY <2>1, CloseAllKeeps
    <2>3. TypeOK'
      BY <2>1, <2>2 DEF IInv, TypeOK, setting
    <2>4. OneHandlePerNode'
      BY <2>1, <2>2 DEF OneHandlePerNode
    <2>5. Ownership' /\ Leaks'
      BY <2>1 DEF IInv, TypeOK, Ownership, Leaks
    <2> QED
      BY <2>3, <2>4, <2>5 DEF IInv
  <1>2. CASE QueryFails
    <2>1. /\ UNCHANGED <<setting, i, impl, users, loads>> /\ pc = "open"
          /\ pc' = "idle" /\ devices' = {} /\ Needed[i] \notin devices
          /\ leaked' = [leaked EXCEPT ![Needed[i]] = @ + 1]
          /\ fds' = [n \in Nodes |-> fds[n] - (IF n \in devices THEN 1 ELSE 0)
                                      + (IF n = Needed[i] THEN 1 ELSE 0)]
      BY <1>2 DEF QueryFails
    <2>2. /\ loads \in 1 .. MaxLoads /\ MaxLoads \in Nat
          /\ \A n \in Nodes : leaked[n] \in Nat /\ leaked[n] + 1 <= loads
      BY <2>1, LoaderAssumption DEF IInv, Ownership, Leaks, TypeOK
    <2>3. leaked' \in [Nodes -> 0 .. MaxLoads] /\ \A n \in Nodes : leaked'[n] <= loads
      <3>1. leaked \in [Nodes -> 0 .. MaxLoads] /\ \A n \in Nodes : leaked[n] + 1 \in 0 .. MaxLoads
        BY <2>2 DEF IInv, TypeOK
      <3>2. leaked' \in [Nodes -> 0 .. MaxLoads]
        BY <2>1, <3>1
      <3>3. \A n \in Nodes : leaked'[n] = leaked[n] \/ leaked'[n] = leaked[n] + 1
        BY <2>1, <3>1
      <3> QED
        BY <2>2, <3>2, <3>3
    <2>4. \A n \in Nodes : fds'[n] = leaked'[n]
      BY <2>1, <2>2 DEF IInv, OneHandlePerNode, TypeOK
    <2>5. fds' \in [Nodes -> 0 .. 2 * MaxLoads]
      <3>1. \A n \in Nodes : fds'[n] \in 0 .. 2 * MaxLoads
        BY <2>2, <2>3, <2>4
      <3> QED
        BY <2>1, <3>1
    <2>6. TypeOK'
      BY <2>1, <2>3, <2>5 DEF IInv, TypeOK, setting
    <2>7. OneHandlePerNode'
      BY <2>1, <2>3, <2>4 DEF OneHandlePerNode
    <2>8. Ownership' /\ Leaks'
      BY <2>1, <2>2, <2>3 DEF IInv, TypeOK, Ownership, Leaks
    <2> QED
      BY <2>6, <2>7, <2>8 DEF IInv
  <1> QED
    BY <1>1, <1>2

\* Requests come and go.
LEMMA UserStep == ASSUME IInv, Share \/ Release PROVE IInv'
  <1>1. CASE Share
    <2>1. UNCHANGED <<setting, pc, i, devices, impl, fds, leaked, loads>> /\ impl
          /\ users' = users + 1 /\ users + 1 \in 0 .. MaxUsers /\ users + 1 > 0
      BY <1>1, LoaderAssumption DEF Share, IInv, TypeOK
    <2> QED
      BY <2>1 DEF IInv, TypeOK, setting, OneHandlePerNode, Ownership, Leaks
  <1>2. CASE Release
    <2>1. /\ UNCHANGED <<setting, pc, i, leaked, loads>> /\ users' = users - 1
          /\ pc = "idle" /\ users - 1 \in 0 .. MaxUsers
          /\ users = 1 => CloseAll /\ devices' = {} /\ impl' = FALSE
          /\ users # 1 => users - 1 > 0 /\ UNCHANGED <<fds, devices, impl>>
      <3>1. users \in 0 .. MaxUsers /\ users > 0 /\ MaxUsers \in Nat
        BY <1>2, LoaderAssumption DEF Release, IInv, TypeOK
      <3>2. users - 1 \in 0 .. MaxUsers /\ (users # 1 => users - 1 > 0)
        BY <3>1
      <3> QED
        BY <1>2, <3>2 DEF Release
    <2>2. CASE users = 1
      <3>1. fds' = leaked /\ leaked \in [Nodes -> 0 .. 2 * MaxLoads]
        BY <2>1, <2>2, CloseAllKeeps
      <3>2. TypeOK'
        BY <2>1, <2>2, <3>1 DEF IInv, TypeOK, setting
      <3>3. OneHandlePerNode'
        BY <2>1, <2>2, <3>1 DEF IInv, TypeOK, OneHandlePerNode
      <3>4. Ownership' /\ Leaks'
        BY <2>1, <2>2 DEF IInv, Ownership, Leaks
      <3> QED
        BY <3>2, <3>3, <3>4 DEF IInv
    <2>3. CASE users # 1
      BY <2>1, <2>3 DEF IInv, TypeOK, setting, OneHandlePerNode, Ownership, Leaks
    <2> QED
      BY <2>2, <2>3
  <1> QED
    BY <1>1, <1>2

LEMMA NextIInv == IInv /\ [Next]_vars => IInv'
  <1> SUFFICES ASSUME IInv, [Next]_vars PROVE IInv'
    OBVIOUS
  <1>1. CASE UNCHANGED vars
    BY <1>1 DEF vars, setting, IInv, TypeOK, OneHandlePerNode, Ownership, Leaks
  <1>2. CASE Next
    BY <1>2, OpenStep, BuildStep, FailStep, UserStep DEF Next
  <1> QED
    BY <1>1, <1>2

-----------------------------------------------------------------------------
THEOREM LoaderInvariant == Spec => []IInv
  BY InitIInv, NextIInv, PTL DEF Spec

\* Every variable keeps its type.
THEOREM LoaderTypeCorrect == Spec => []TypeOK
  BY LoaderInvariant, PTL DEF IInv

\* However often a configuration mentions a node and loads fail, at most one handle
\* of it is in use, and only those whose QUERYCAP failed stay open.
THEOREM OneHandle == Spec => []OneHandlePerNode
  BY LoaderInvariant, PTL DEF IInv

\* While requests hold the pipeline no device of it is opened or closed.
THEOREM DevicesKept == Spec => UsersKeepDevices
  <1>1. ASSUME IInv, [Next]_vars
        PROVE  [users > 0 /\ users' > 0 => UNCHANGED <<impl, devices, fds>>]_vars
    <2> SUFFICES ASSUME Next, users > 0, users' > 0 PROVE UNCHANGED <<impl, devices, fds>>
      BY <1>1
    <2>1. pc = "idle" /\ impl /\ users \in Nat
      BY <1>1, LoaderAssumption DEF IInv, Ownership, TypeOK
    <2>2. Share \/ Release
      BY <2>1 DEF Next, Load, Open, Opened, BuildBridge, BridgesBuilt, SourceFound, BuildControl,
                  Crash, Built, Throw, QueryFails
    <2>3. users - 1 > 0 => users # 1
      BY <2>1
    <2> QED
      BY <2>2, <2>3 DEF Share, Release
  <1> QED
    BY <1>1, LoaderInvariant, PTL DEF Spec, UsersKeepDevices

=============================================================================
