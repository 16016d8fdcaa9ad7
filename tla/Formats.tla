------------------------------- MODULE Formats -------------------------------
(***************************************************************************)
(* PipelineImpl::Prepare (libs/pipeline/src/pipeline.cpp): the io thread   *)
(* carries the camera's format down the chain of devices, one ioctl at a   *)
(* time, while the threads of earlier sessions may be allocating buffers   *)
(* for, streaming from or leaving the same devices.                        *)
(*                                                                         *)
(* As in Pipeline, bridge b joins device b to device b+1, device 1 is the  *)
(* camera and device Bridges+1 feeds the sink.                             *)
(***************************************************************************)
EXTENDS Naturals

CONSTANTS
    Bridges,        \* number of bridges
    Sizes, Codecs,  \* of frames
    SinkCodec,      \* what the encoder of the server needs
    Takes,          \* the sets of formats that a device's queue may take
    Settings,       \* see setting
    MaxPrepares,    \* bound: how often Prepare is called
    Fails           \* may ioctls and threads fail?

Format == [size : Sizes, codec : Codecs]

ASSUME FormatsAssumption ==
    /\ Bridges \in Nat /\ MaxPrepares \in Nat /\ Sizes # {}
    /\ Takes \subseteq SUBSET Format \ {{}}
    /\ SinkCodec \in Codecs /\ Settings \subseteq [resets : BOOLEAN, overlap : BOOLEAN]
    /\ Fails \in BOOLEAN

\* Of devices that reset formats, overlapping sessions can promise nothing: between
\* Prepare and the allocation of its buffers another Prepare may undo it.
ASSUME DriversAssumption == \A s \in Settings : ~(s.resets /\ s.overlap)

B == 1 .. Bridges
D == 1 .. Bridges + 1
Sink == Bridges + 1

VARIABLES
    setting,    \* resets: does a new output format reset a device's capture format?
                \* overlap: may a session begin while a pipeline thread runs?
    pc,         \* where Prepare is
    bridge,     \* the bridge it is at
    last,       \* last_fmt
    capf,       \* format of each device's capture queue, the sink's the last
    outf,       \* format of the output queue that bridge b feeds, of device b+1
    fits,       \* the formats that each device's capture queue takes
    outfits,    \* the formats that the output queue which bridge b feeds takes
    capbufs,    \* the devices whose capture queue has buffers
    outbufs,    \* the bridges whose output queue has buffers
    thread,     \* does a pipeline thread run?
    prepares    \* calls of Prepare so far

preparing == <<pc, bridge, last>>
formats == <<capf, outf>>
buffers == <<capbufs, outbufs>>
drivers == <<fits, outfits>>
vars == <<setting, preparing, formats, drivers, buffers, thread, prepares>>

\* What VIDIOC_S_FMT makes of f: a queue that does not take it has another instead, of a
\* different size or codec.
Adjusted(taken, f) == {g \in taken : f \in taken => g = f}

\* The devices start with formats of their own, which VIDIOC_G_FMT reads. Nothing
\* sets that of the camera: it takes whatever it has.
Init ==
    /\ pc = "idle" /\ bridge = 1
    /\ fits \in [D -> Takes \cup {Format}] /\ fits[1] = Format
    /\ outfits \in [B -> Takes]
    /\ capf \in [D -> Format] /\ outf \in [B -> Format]
    /\ last = capf[1]
    /\ \A d \in D : capf[d] \in fits[d]
    /\ \A b \in B : outf[b] \in outfits[b]
    /\ capbufs = {} /\ outbufs = {} /\ thread = FALSE /\ prepares = 0
    /\ setting \in Settings

-----------------------------------------------------------------------------
(***************************************************************************)
(* Prepare                                                                 *)
(***************************************************************************)

\* Mutant: bridges counted from zero.
PrepareFromZero ==
    /\ pc = "idle" /\ prepares < MaxPrepares /\ (setting.overlap \/ ~thread)
    /\ pc' = IF Bridges = 0 THEN "prepared" ELSE "output"
    /\ bridge' = 0 /\ prepares' = prepares + 1
    /\ UNCHANGED <<setting, last, formats, drivers, buffers, thread>>

\* A request: without bridges there is nothing to prepare.
Prepare ==
    /\ pc = "idle" /\ prepares < MaxPrepares /\ (setting.overlap \/ ~thread)
    /\ pc' = IF Bridges = 0 THEN "prepared" ELSE "output"
    /\ bridge' = 1 /\ prepares' = prepares + 1
    /\ UNCHANGED <<setting, last, formats, drivers, buffers, thread>>

\* Mutant: what the device made of the size is not looked at.
SetCaptureUnchecked ==
    /\ pc = "capture" /\ bridge \notin capbufs
    /\ LET want == [size |-> last.size, codec |-> capf[bridge].codec]
       IN  \E got \in Adjusted(fits[bridge], want) : capf' = [capf EXCEPT ![bridge] = got]
    /\ pc' = "output"
    /\ UNCHANGED <<setting, bridge, last, outf, drivers, buffers, thread, prepares>>

\* The capture side of the next bridge gets the size of the last one, in its own
\* codec.
SetCapture ==
    /\ pc = "capture" /\ bridge \notin capbufs
    /\ LET want == [size |-> last.size, codec |-> capf[bridge].codec]
       IN  \E got \in Adjusted(fits[bridge], want) :
             /\ capf' = [capf EXCEPT ![bridge] = got]
             /\ pc' = IF got = want THEN "output" ELSE "idle"
    /\ UNCHANGED <<setting, bridge, last, outf, drivers, buffers, thread, prepares>>

\* Mutant: what the device made of the format is not looked at.
SetOutputUnchecked ==
    /\ pc = "output" /\ bridge \notin outbufs
    /\ \E got \in Adjusted(outfits[bridge], capf[bridge]) :
         /\ outf' = [outf EXCEPT ![bridge] = got]
         /\ last' = capf[bridge] /\ bridge' = bridge + 1
         /\ pc' = IF bridge = Bridges THEN "sink" ELSE "capture"
    /\ UNCHANGED <<setting, capf, drivers, buffers, thread, prepares>>

\* Its output side gets the format of its capture side; the device may choose
\* another capture format then, if that queue has no buffers.
SetOutput ==
    /\ pc = "output" /\ bridge \notin outbufs
    /\ \E got \in Adjusted(outfits[bridge], capf[bridge]) :
         /\ outf' = [outf EXCEPT ![bridge] = got]
         /\ IF got = capf[bridge]
              THEN /\ last' = capf[bridge] /\ bridge' = bridge + 1
                   /\ pc' = IF bridge = Bridges THEN "sink" ELSE "capture"
              ELSE pc' = "idle" /\ UNCHANGED <<last, bridge>>
    /\ IF setting.resets /\ bridge + 1 \notin capbufs
         THEN \E f \in fits[bridge + 1] : capf' = [capf EXCEPT ![bridge + 1] = f]
         ELSE UNCHANGED capf
    /\ UNCHANGED <<setting, drivers, buffers, thread, prepares>>

\* And the sink gets the size of the last bridge, in the codec of the encoder.
SetSink ==
    /\ pc = "sink" /\ Sink \notin capbufs
    /\ LET want == [size |-> last.size, codec |-> SinkCodec]
       IN  \E got \in Adjusted(fits[Sink], want) :
             /\ capf' = [capf EXCEPT ![Sink] = got]
             /\ pc' = IF got = want THEN "prepared" ELSE "idle"
    /\ UNCHANGED <<setting, bridge, last, outf, drivers, buffers, thread, prepares>>

\* A queue that has buffers refuses a format (EBUSY), or the ioctl fails.
PrepareThrows ==
    /\ \/ pc = "capture" /\ (Fails \/ bridge \in capbufs)
       \/ pc = "output" /\ (Fails \/ bridge \in outbufs)
       \/ pc = "sink" /\ (Fails \/ Sink \in capbufs)
    /\ pc' = "idle"
    /\ UNCHANGED <<setting, bridge, last, formats, drivers, buffers, thread, prepares>>

(***************************************************************************)
(* The pipeline thread, and the sink's buffers                             *)
(***************************************************************************)

\* After Prepare the session starts its thread; if another one runs, the devices refuse
\* the new one, and for them nothing has changed.
StartThread ==
    /\ pc = "prepared"
    /\ pc' = "idle" /\ thread' = TRUE
    /\ UNCHANGED <<setting, bridge, last, formats, drivers, buffers, prepares>>

\* Bridge::Start requests capture buffers, then output buffers.
AllocCapture(b) ==
    /\ thread /\ b \notin capbufs /\ \A a \in 1 .. b - 1 : a \in outbufs
    /\ capbufs' = capbufs \cup {b}
    /\ UNCHANGED <<setting, preparing, formats, drivers, outbufs, thread, prepares>>

AllocOutput(b) ==
    /\ thread /\ b \in capbufs /\ b \notin outbufs
    /\ outbufs' = outbufs \cup {b}
    /\ UNCHANGED <<setting, preparing, formats, drivers, capbufs, thread, prepares>>

\* Next starts the sink: the io thread is not in Prepare meanwhile.
AllocSink ==
    /\ thread /\ pc = "idle" /\ Sink \notin capbufs
    /\ capbufs' = capbufs \cup {Sink}
    /\ UNCHANGED <<setting, preparing, formats, drivers, outbufs, thread, prepares>>

\* Start comes to its end: the sink's buffers go first, then each bridge's.
Stop ==
    /\ thread
    /\ capbufs' = {} /\ outbufs' = {} /\ thread' = FALSE
    /\ UNCHANGED <<setting, preparing, formats, drivers, prepares>>

\* Start throws, and nothing is freed.
ThreadThrows ==
    /\ Fails /\ thread
    /\ thread' = FALSE
    /\ UNCHANGED <<setting, preparing, formats, drivers, buffers, prepares>>

\* The last user of the PipelineImpl is gone: the devices are closed, and all but
\* the camera forget their formats for some default.
Destroy ==
    /\ pc = "idle" /\ ~thread /\ prepares > 0
    /\ capbufs' = {} /\ outbufs' = {}
    /\ \E fresh \in Format :
         /\ capf' = [d \in D |-> IF d > 1 /\ fresh \in fits[d] THEN fresh ELSE capf[d]]
         /\ outf' = [b \in B |-> IF fresh \in outfits[b] THEN fresh ELSE outf[b]]
    /\ UNCHANGED <<setting, preparing, drivers, thread, prepares>>

PrepareStep == Prepare \/ SetCapture \/ SetOutput \/ SetSink \/ PrepareThrows

Next ==
    \/ PrepareStep \/ StartThread \/ AllocSink
    \/ \E b \in B : AllocCapture(b) \/ AllocOutput(b)
    \/ Stop \/ ThreadThrows \/ Destroy

Spec == Init /\ [][Next]_vars

-----------------------------------------------------------------------------
(***************************************************************************)
(* Properties                                                              *)
(***************************************************************************)

TypeOK ==
    /\ pc \in {"idle", "capture", "output", "sink", "prepared"}
    /\ bridge \in 1 .. Bridges + 1 /\ last \in Format
    /\ capf \in [D -> Format] /\ outf \in [B -> Format]
    /\ fits \in [D -> SUBSET Format] /\ outfits \in [B -> SUBSET Format] /\ setting \in Settings
    /\ capbufs \subseteq D /\ outbufs \subseteq B
    /\ thread \in BOOLEAN /\ prepares \in 0 .. MaxPrepares

\* A bridge hands DMA buffers that its capture device filled to its output device,
\* which never looks at their format: both queues were given the same one before
\* either has buffers, whatever Prepares failed halfway or run meanwhile.
BridgesAgree ==
    \A b \in B : b \in capbufs /\ b \in outbufs => capf[b] = outf[b]

\* What the client gets is of the camera's size and in the codec that the encoder
\* writes into the headers, over all the devices in between.
SinkIsPrepared ==
    Bridges > 0 /\ Sink \in capbufs =>
        capf[Sink] = [size |-> capf[1].size, codec |-> SinkCodec]

\* Hence no queue has buffers of a format that the next in the chain does not expect.
BuffersAgree == BridgesAgree /\ SinkIsPrepared

\* Prepare returns only when the whole chain agrees, also on what it set first and
\* a later ioctl might have changed.
PreparedChainAgrees ==
    pc = "prepared" =>
        /\ \A b \in B : capf[b] = outf[b] /\ capf[b + 1].size = capf[b].size
        /\ Bridges > 0 => capf[Sink].codec = SinkCodec

=============================================================================
