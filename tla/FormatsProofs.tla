---------------------------- MODULE FormatsProofs ----------------------------
(***************************************************************************)
(* Theorems about Formats for every number of bridges, every set of sizes  *)
(* and codecs and every number of calls of Prepare.                        *)
(***************************************************************************)
EXTENDS Formats, TLAPS

\* Bridge b has one format on both sides, of the camera's size.
Agrees(b) == capf[b] = outf[b] /\ capf[b].size = capf[1].size

\* What Prepare is to achieve.
Chain ==
    /\ \A b \in B : Agrees(b)
    /\ Bridges > 0 => capf[Sink] = [size |-> capf[1].size, codec |-> SinkCodec]

\* Queues have formats that they take.
Fitting ==
    /\ \A d \in D : capf[d] \in fits[d]
    /\ \A b \in B : outf[b] \in outfits[b]

\* How far Prepare has come.
Progress ==
    /\ pc \in {"capture", "output"} => bridge \in B
    /\ pc = "sink" => bridge = Bridges + 1 /\ Bridges > 0
    /\ pc \in {"capture", "output", "sink"} => \A b \in 1 .. bridge - 1 : Agrees(b)
    /\ pc \in {"capture", "sink"} => last.size = capf[1].size
    /\ pc = "output" => capf[bridge].size = capf[1].size
    /\ pc = "capture" => bridge > 1
    /\ pc = "prepared" => Chain

\* Who may rely on the chain, and who may not meet.
Reliance ==
    /\ thread => Chain
    /\ thread /\ setting.resets => pc = "idle"

\* The inductive invariant.
IInv == TypeOK /\ Fitting /\ Progress /\ Reliance /\ BridgesAgree /\ SinkIsPrepared

\* Numbers of devices and bridges.
LEMMA Numbers ==
    /\ Bridges \in Nat /\ Sink \in D /\ 1 \in D /\ Sink \notin B
    /\ \A b \in B : b \in D /\ b + 1 \in D /\ b \in Nat /\ b + 1 # 1 /\ b # Sink
    /\ Bridges > 0 => 1 \in B /\ Sink # 1
  BY FormatsAssumption DEF B, D, Sink

LEMMA InitIInv == Init => IInv
  <1> SUFFICES ASSUME Init PROVE IInv
    OBVIOUS
  <1>1. TypeOK
    <2>1. bridge \in 1 .. Bridges + 1 /\ prepares \in 0 .. MaxPrepares
      BY FormatsAssumption DEF Init
    <2>2. last \in Format
      BY Numbers DEF Init
    <2>3. fits \in [D -> SUBSET Format] /\ outfits \in [B -> SUBSET Format]
      BY FormatsAssumption DEF Init
    <2> QED
      BY <2>1, <2>2, <2>3 DEF Init, TypeOK
  <1>2. Fitting /\ Progress /\ Reliance
    BY DEF Init, Fitting, Progress, Reliance
  <1>3. BridgesAgree /\ SinkIsPrepared
    BY DEF Init, BridgesAgree, SinkIsPrepared
  <1> QED
    BY <1>1, <1>2, <1>3 DEF IInv

\* A queue that takes the format has it then.
LEMMA AdjustedExact ==
    ASSUME NEW f \in Format, NEW taken \in SUBSET Format, NEW g \in Adjusted(taken, f)
    PROVE  g \in Format /\ g \in taken /\ (f \in taken => g = f)
  BY DEF Adjusted

-----------------------------------------------------------------------------
\* Steps that change no format.
LEMMA FormatsKept ==
    ASSUME IInv, UNCHANGED formats, UNCHANGED <<drivers, setting>>
    PROVE  /\ Chain' = Chain /\ Fitting' /\ \A b \in B : Agrees(b)' = Agrees(b)
  BY DEF formats, drivers, IInv, Chain, Agrees, Fitting

LEMMA PrepareStep1 == ASSUME IInv, Prepare \/ StartThread \/ PrepareThrows PROVE IInv'
  <1>1. UNCHANGED <<formats, drivers, setting, buffers, last>>
    BY DEF Prepare, StartThread, PrepareThrows
  <1>2. Chain' = Chain /\ Fitting' /\ \A b \in B : Agrees(b)' = Agrees(b)
    BY <1>1, FormatsKept
  <1>3. TypeOK'
    <2>1. bridge' \in 1 .. Bridges + 1 /\ prepares' \in 0 .. MaxPrepares
          /\ pc' \in {"idle", "output", "prepared"} /\ thread' \in BOOLEAN
      <3>1. CASE Prepare
        <4>1. prepares + 1 \in 0 .. MaxPrepares /\ 1 \in 1 .. Bridges + 1
          BY <3>1, FormatsAssumption DEF Prepare, IInv, TypeOK
        <4> QED
          BY <3>1, <4>1 DEF Prepare, IInv, TypeOK
      <3>2. CASE StartThread \/ PrepareThrows
        BY <3>2 DEF StartThread, PrepareThrows, IInv, TypeOK
      <3> QED
        BY <3>1, <3>2
    <2> QED
      BY <1>1, <2>1 DEF IInv, TypeOK, formats, drivers, buffers
  <1>4. BridgesAgree' /\ SinkIsPrepared'
    BY <1>1 DEF IInv, BridgesAgree, SinkIsPrepared, formats, buffers
  <1>5. Progress' /\ Reliance'
    <2>1. CASE Prepare
      <3>1. Bridges = 0 => Chain
        BY DEF Chain, B
      <3>2. Bridges # 0 => 1 \in B
        BY FormatsAssumption DEF B
      <3>3. UNCHANGED <<capf, outf, thread, setting>> /\ bridge' = 1
            /\ pc' = (IF Bridges = 0 THEN "prepared" ELSE "output")
        BY <2>1, <1>1 DEF Prepare, formats
      <3>4. setting.overlap \/ ~thread
        BY <2>1 DEF Prepare
      <3>5. ~(setting.resets /\ setting.overlap)
        BY DriversAssumption DEF IInv, TypeOK
      <3> QED
        BY <1>2, <3>1, <3>2, <3>3, <3>4, <3>5 DEF IInv, Progress, Reliance
    <2>2. CASE StartThread \/ PrepareThrows
      BY <1>1, <1>2, <2>2 DEF StartThread, PrepareThrows, IInv, Progress, Reliance
    <2> QED
      BY <2>1, <2>2
  <1> QED
    BY <1>2, <1>3, <1>4, <1>5 DEF IInv

\* The capture side of a bridge is given the size of the one before.
LEMMA SetCaptureStep == ASSUME IInv, SetCapture PROVE IInv'
  <1>1. PICK got \in Adjusted(fits[bridge], [size |-> last.size, codec |-> capf[bridge].codec]) :
          /\ capf' = [capf EXCEPT ![bridge] = got]
          /\ pc' = IF got = [size |-> last.size, codec |-> capf[bridge].codec]
                     THEN "output" ELSE "idle"
    BY DEF SetCapture
  <1>2. /\ bridge \in B /\ bridge \in D /\ bridge # 1 /\ bridge # Sink /\ bridge \notin capbufs
        /\ last.size = capf[1].size /\ pc = "capture"
    BY Numbers DEF SetCapture, IInv, Progress, B
  <1>3. capf[bridge] \in Format /\ last \in Format
    BY <1>2 DEF IInv, TypeOK
  <1>4. /\ got \in Format /\ got \in fits[bridge]
        /\ [size |-> last.size, codec |-> capf[bridge].codec] \in fits[bridge] =>
             got = [size |-> last.size, codec |-> capf[bridge].codec]
    <2>1. [size |-> last.size, codec |-> capf[bridge].codec] \in Format
      BY <1>3 DEF Format
    <2>2. fits[bridge] \in SUBSET Format
      BY <1>2 DEF IInv, TypeOK
    <2> QED
      BY <2>1, <2>2, AdjustedExact
  <1>5. /\ UNCHANGED <<setting, bridge, last, outf, drivers, buffers, thread, prepares>>
        /\ capf' \in [D -> Format] /\ capf'[bridge] = got
        /\ \A d \in D \ {bridge} : capf'[d] = capf[d]
    BY <1>1, <1>2, <1>4 DEF SetCapture, IInv, TypeOK
  <1>6. TypeOK' /\ Fitting'
    BY <1>1, <1>2, <1>4, <1>5 DEF IInv, TypeOK, Fitting, drivers, buffers
  <1>7. Chain => capf' = capf
    <2> SUFFICES ASSUME Chain PROVE capf'[bridge] = capf[bridge]
      BY <1>5 DEF IInv, TypeOK
    <2>1. capf[bridge].size = last.size
      BY <1>2 DEF Chain, Agrees
    <2>2. capf[bridge] \in fits[bridge]
      BY <1>2 DEF IInv, Fitting
    <2>3. capf[bridge] = [size |-> last.size, codec |-> capf[bridge].codec]
      BY <1>3, <2>1 DEF Format
    <2> QED
      BY <1>4, <1>5, <2>1, <2>2, <2>3
  <1>8. Progress'
    BY <1>1, <1>2, <1>5, Numbers DEF IInv, Progress, Agrees, B
  <1>9. Reliance'
    BY <1>5, <1>7, <1>2 DEF IInv, Reliance, Chain, Agrees
  <1>10. BridgesAgree' /\ SinkIsPrepared'
    BY <1>2, <1>5, Numbers DEF IInv, BridgesAgree, SinkIsPrepared, buffers
  <1> QED
    BY <1>6, <1>8, <1>9, <1>10 DEF IInv

\* The output side of a bridge is given the format of its capture side, and the next
\* device may choose another one.
LEMMA SetOutputStep == ASSUME IInv, SetOutput PROVE IInv'
  <1>1. PICK got \in Adjusted(outfits[bridge], capf[bridge]) :
          /\ outf' = [outf EXCEPT ![bridge] = got]
          /\ IF got = capf[bridge]
               THEN /\ last' = capf[bridge] /\ bridge' = bridge + 1
                    /\ pc' = IF bridge = Bridges THEN "sink" ELSE "capture"
               ELSE pc' = "idle" /\ UNCHANGED <<last, bridge>>
    BY DEF SetOutput
  <1>2. /\ bridge \in B /\ bridge \in D /\ bridge + 1 \in D /\ bridge + 1 # 1 /\ bridge \in Nat
        /\ bridge \notin outbufs /\ pc = "output" /\ capf[bridge].size = capf[1].size
        /\ bridge + 1 # bridge
    BY Numbers DEF SetOutput, IInv, Progress
  <1>3. capf[bridge] \in Format
    BY <1>2 DEF IInv, TypeOK
  <1>4. /\ got \in Format /\ got \in outfits[bridge]
        /\ capf[bridge] \in outfits[bridge] => got = capf[bridge]
    <2>1. outfits[bridge] \in SUBSET Format
      BY <1>2 DEF IInv, TypeOK
    <2> QED
      BY <1>3, <2>1, AdjustedExact
  <1>5. /\ UNCHANGED <<setting, drivers, buffers, thread, prepares>>
        /\ outf' \in [B -> Format] /\ outf'[bridge] = got
        /\ \A b \in B \ {bridge} : outf'[b] = outf[b]
    BY <1>1, <1>2, <1>4 DEF SetOutput, IInv, TypeOK
  <1>6. /\ capf' \in [D -> Format] /\ \A d \in D \ {bridge + 1} : capf'[d] = capf[d]
        /\ capf'[bridge + 1] \in fits[bridge + 1]
        /\ ~setting.resets => UNCHANGED capf
        /\ bridge + 1 \in capbufs => UNCHANGED capf
    BY <1>2 DEF SetOutput, IInv, TypeOK, Fitting
  <1>7. TypeOK' /\ Fitting'
    <2>1. last' \in Format /\ bridge' \in 1 .. Bridges + 1
      BY <1>1, <1>2, <1>3 DEF IInv, TypeOK, D, B
    <2>2. pc' \in {"idle", "capture", "sink"}
      BY <1>1
    <2>3. TypeOK'
      BY <1>5, <1>6, <2>1, <2>2 DEF IInv, TypeOK, drivers, buffers
    <2>4. Fitting'
      BY <1>4, <1>5, <1>6 DEF IInv, Fitting, drivers
    <2> QED
      BY <2>3, <2>4
  <1>8. Progress'
    <2>1. capf'[1] = capf[1] /\ capf'[bridge] = capf[bridge]
      BY <1>2, <1>6, Numbers
    <2>2. CASE got = capf[bridge]
      <3>1. /\ last' = capf[bridge] /\ bridge' = bridge + 1
            /\ pc' = IF bridge = Bridges THEN "sink" ELSE "capture"
        BY <1>1, <2>2
      <3>2. \A b \in 1 .. bridge - 1 : Agrees(b)' /\ b \in B
        <4> SUFFICES ASSUME NEW b \in 1 .. bridge - 1 PROVE Agrees(b)' /\ b \in B
          OBVIOUS
        <4>1. b \in B /\ b \in D /\ b # bridge /\ b # bridge + 1
          BY <1>2, FormatsAssumption DEF B, D
        <4>2. Agrees(b)
          BY <1>2 DEF IInv, Progress
        <4> QED
          BY <1>5, <1>6, <2>1, <4>1, <4>2 DEF Agrees
      <3>3. \A b \in B : b = bridge => Agrees(b)'
        BY <1>2, <1>5, <2>1, <2>2 DEF Agrees
      <3>4. \A b \in 1 .. bridge' - 1 : Agrees(b)'
        <4>1. \A b \in 1 .. bridge' - 1 : b = bridge \/ b \in 1 .. bridge - 1
          BY <1>2, <3>1
        <4> QED
          BY <1>2, <3>2, <3>3, <4>1
      <3>5. /\ bridge = Bridges => bridge' = Bridges + 1 /\ Bridges > 0
            /\ bridge # Bridges => bridge' \in B /\ bridge' > 1
        BY <1>2, <3>1, FormatsAssumption DEF B
      <3> QED
        BY <1>2, <2>1, <3>1, <3>4, <3>5 DEF Progress
    <2>3. CASE got # capf[bridge]
      BY <1>1, <2>3 DEF Progress
    <2> QED
      BY <2>2, <2>3
  <1>9. Reliance'
    <2> SUFFICES ASSUME thread PROVE Chain' /\ ~setting.resets
      BY <1>5 DEF Reliance
    <2>1. Chain /\ ~setting.resets /\ UNCHANGED capf
      BY <1>2, <1>6 DEF IInv, Reliance
    <2>2. outf[bridge] = capf[bridge]
      BY <1>2, <2>1 DEF Chain, Agrees
    <2>3. got = capf[bridge]
      BY <1>2, <1>4, <2>2 DEF IInv, Fitting
    <2>4. outf' = outf
      BY <1>1, <1>2, <2>2, <2>3 DEF IInv, TypeOK
    <2> QED
      BY <2>1, <2>4 DEF Chain, Agrees
  <1>10. BridgesAgree' /\ SinkIsPrepared'
    BY <1>2, <1>5, <1>6, Numbers DEF IInv, BridgesAgree, SinkIsPrepared, buffers
  <1> QED
    BY <1>7, <1>8, <1>9, <1>10 DEF IInv

\* The sink is given the size of the last bridge.
LEMMA SetSinkStep == ASSUME IInv, SetSink PROVE IInv'
  <1> DEFINE want == [size |-> last.size, codec |-> SinkCodec]
  <1>1. PICK got \in Adjusted(fits[Sink], want) :
          capf' = [capf EXCEPT ![Sink] = got] /\ pc' = IF got = want THEN "prepared" ELSE "idle"
    BY DEF SetSink
  <1>2. /\ pc = "sink" /\ Sink \notin capbufs /\ bridge = Bridges + 1 /\ Bridges > 0
        /\ last.size = capf[1].size /\ Sink \in D /\ Sink # 1 /\ Sink \notin B
    BY Numbers DEF SetSink, IInv, Progress
  <1>3. want \in Format
    BY FormatsAssumption DEF IInv, TypeOK, Format
  <1>4. got \in Format /\ got \in fits[Sink] /\ (want \in fits[Sink] => got = want)
    <2>1. fits[Sink] \in SUBSET Format
      BY <1>2 DEF IInv, TypeOK
    <2> QED
      BY <1>3, <2>1, AdjustedExact
  <1>5. /\ UNCHANGED <<setting, bridge, last, outf, drivers, buffers, thread, prepares>>
        /\ capf' \in [D -> Format] /\ capf'[Sink] = got
        /\ \A d \in D \ {Sink} : capf'[d] = capf[d]
    BY <1>1, <1>2, <1>4 DEF SetSink, IInv, TypeOK
  <1>6. TypeOK' /\ Fitting'
    BY <1>1, <1>4, <1>5 DEF IInv, TypeOK, Fitting, drivers, buffers
  <1>7. /\ capf'[1] = capf[1] /\ \A b \in B : capf'[b] = capf[b]
        /\ \A b \in B : Agrees(b)' = Agrees(b)
    BY <1>2, <1>5, Numbers DEF Agrees
  <1>8. \A b \in B : Agrees(b)
    <2>1. 1 .. bridge - 1 = B
      BY <1>2, FormatsAssumption DEF B
    <2> QED
      BY <1>2, <2>1 DEF IInv, Progress
  <1>9. got = want => Chain'
    BY <1>2, <1>5, <1>7, <1>8 DEF Chain
  <1>10. Progress'
    BY <1>1, <1>9 DEF Progress
  <1>11. Reliance'
    <2> SUFFICES ASSUME thread PROVE Chain' /\ ~setting.resets
      BY <1>5 DEF Reliance
    <2>1. Chain /\ ~setting.resets
      BY <1>2 DEF IInv, Reliance
    <2>2. want \in fits[Sink]
      BY <1>2, <2>1 DEF Chain, IInv, Fitting
    <2> QED
      BY <1>4, <1>9, <2>1, <2>2
  <1>12. BridgesAgree' /\ SinkIsPrepared'
    BY <1>2, <1>5, <1>7 DEF IInv, BridgesAgree, SinkIsPrepared, buffers
  <1> QED
    BY <1>6, <1>10, <1>11, <1>12 DEF IInv

\* Buffers are allocated for what the chain agreed on.
LEMMA AllocStep ==
    ASSUME IInv, AllocSink \/ \E b \in B : AllocCapture(b) \/ AllocOutput(b)
    PROVE  IInv'
  <1>1. /\ UNCHANGED <<setting, preparing, formats, drivers, thread, prepares>>
        /\ thread /\ capbufs' \subseteq D /\ outbufs' \subseteq B
    BY Numbers DEF AllocSink, AllocCapture, AllocOutput, IInv, TypeOK
  <1>2. Chain
    BY <1>1 DEF IInv, Reliance
  <1>3. Chain' = Chain /\ Fitting' /\ \A b \in B : Agrees(b)' = Agrees(b)
    BY <1>1, FormatsKept
  <1>4. TypeOK'
    BY <1>1 DEF IInv, TypeOK, preparing, formats, drivers
  <1>5. Progress' /\ Reliance'
    <2>1. UNCHANGED <<pc, bridge, last, capf, outf>>
      BY <1>1 DEF preparing, formats
    <2> QED
      BY <1>1, <1>3, <2>1 DEF IInv, Progress, Reliance, Agrees
  <1>6. BridgesAgree' /\ SinkIsPrepared'
    BY <1>1, <1>2 DEF Chain, Agrees, BridgesAgree, SinkIsPrepared, formats
  <1> QED
    BY <1>3, <1>4, <1>5, <1>6 DEF IInv

\* Threads end and devices are closed.
LEMMA EndStep == ASSUME IInv, Stop \/ ThreadThrows \/ Destroy PROVE IInv'
  <1>1. CASE Stop \/ ThreadThrows
    <2>1. UNCHANGED <<setting, preparing, formats, drivers, prepares>> /\ thread' = FALSE
          /\ capbufs' \subseteq capbufs /\ outbufs' \subseteq outbufs
      BY <1>1 DEF Stop, ThreadThrows, buffers
    <2>2. Chain' = Chain /\ Fitting' /\ \A b \in B : Agrees(b)' = Agrees(b)
      BY <2>1, FormatsKept
    <2>3. UNCHANGED <<pc, bridge, last, capf, outf>>
      BY <2>1 DEF preparing, formats
    <2>4. TypeOK'
      BY <2>1, <2>3 DEF IInv, TypeOK, drivers
    <2>5. Progress' /\ Reliance'
      BY <2>1, <2>2, <2>3 DEF IInv, Progress, Reliance, Agrees
    <2>6. BridgesAgree' /\ SinkIsPrepared'
      BY <2>1, <2>3 DEF IInv, BridgesAgree, SinkIsPrepared
    <2> QED
      BY <2>2, <2>4, <2>5, <2>6 DEF IInv
  <1>2. CASE Destroy
    <2>1. /\ UNCHANGED <<setting, preparing, drivers, thread, prepares>> /\ pc = "idle" /\ ~thread
          /\ capbufs' = {} /\ outbufs' = {}
      BY <1>2 DEF Destroy
    <2>2. PICK fresh \in Format :
          /\ capf' = [d \in D |-> IF d > 1 /\ fresh \in fits[d] THEN fresh ELSE capf[d]]
          /\ outf' = [b \in B |-> IF fresh \in outfits[b] THEN fresh ELSE outf[b]]
      BY <1>2 DEF Destroy
    <2>3. TypeOK' /\ Fitting'
      BY <2>1, <2>2 DEF IInv, TypeOK, Fitting, preparing, drivers
    <2>4. Progress' /\ Reliance'
      BY <2>1 DEF Progress, Reliance, preparing
    <2>5. BridgesAgree' /\ SinkIsPrepared'
      BY <2>1 DEF BridgesAgree, SinkIsPrepared
    <2> QED
      BY <2>3, <2>4, <2>5 DEF IInv
  <1> QED
    BY <1>1, <1>2

LEMMA NextIInv == IInv /\ [Next]_vars => IInv'
  <1> SUFFICES ASSUME IInv, [Next]_vars PROVE IInv'
    OBVIOUS
  <1>1. CASE UNCHANGED vars
    BY <1>1 DEF vars, preparing, formats, drivers, buffers, IInv, TypeOK, Fitting, Progress,
                Reliance, Chain, Agrees, BridgesAgree, SinkIsPrepared
  <1>2. CASE Next
    BY <1>2, PrepareStep1, SetCaptureStep, SetOutputStep, SetSinkStep, AllocStep, EndStep
       DEF Next, PrepareStep
  <1> QED
    BY <1>1, <1>2

-----------------------------------------------------------------------------
THEOREM FormatsInvariant == Spec => []IInv
  BY InitIInv, NextIInv, PTL DEF Spec

\* Every variable keeps its type.
THEOREM FormatsTypeCorrect == Spec => []TypeOK
  BY FormatsInvariant, PTL DEF IInv

\* The two queues that share DMA buffers have one format, through every Prepare that
\* fails halfway or comes while sessions run.
THEOREM BridgeFormatsAgree == Spec => []BridgesAgree
  BY FormatsInvariant, PTL DEF IInv

\* The sink has the camera's size and the encoder's codec when it has buffers.
THEOREM SinkFormat == Spec => []SinkIsPrepared
  BY FormatsInvariant, PTL DEF IInv

\* Buffers are only allocated for a chain that agrees.
THEOREM AllocatedAgree == Spec => []BuffersAgree
  BY BridgeFormatsAgree, SinkFormat, PTL DEF BuffersAgree

\* Prepare that returns leaves a chain that agrees throughout.
THEOREM PreparedAgrees == Spec => []PreparedChainAgrees
  <1>1. IInv => PreparedChainAgrees
    <2> SUFFICES ASSUME IInv, pc = "prepared", NEW b \in B
                 PROVE  capf[b] = outf[b] /\ capf[b + 1].size = capf[b].size
                        /\ capf[Sink].codec = SinkCodec
      BY FormatsAssumption DEF PreparedChainAgrees, B
    <2>1. Chain /\ Bridges > 0
      BY FormatsAssumption DEF IInv, Progress, B
    <2>2. b + 1 \in B \/ b + 1 = Sink
      BY FormatsAssumption DEF B, Sink
    <2> QED
      BY <2>1, <2>2 DEF Chain, Agrees
  <1> QED
    BY <1>1, FormatsInvariant, PTL

=============================================================================
