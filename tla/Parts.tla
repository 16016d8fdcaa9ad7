-------------------------------- MODULE Parts ---------------------------------
(***************************************************************************)
(* What a client reads: the frames of the sink stream (MMapFrame,          *)
(* libs/v4l/src/v4l_stream.cpp), cut into parts by the encoder             *)
(* (libs/encoder/src/mjpeg_encoder.cpp) and written by the handler of      *)
(* /stream straight out of the buffers, while the device fills others.     *)
(*                                                                         *)
(* MMapStream says who owns a buffer when calls fail or meet; here the     *)
(* stream goes on, and what matters is what is in the buffers.             *)
(***************************************************************************)
EXTENDS Naturals

CONSTANTS
    Bufs,       \* buffers of the sink
    Clients,    \* open sessions
    Pictures,   \* what the device may put into a buffer
    Lengths,    \* and how many bytes of it
    MPlane      \* does the device use the multi-planar interface?

ASSUME PartsAssumption == Lengths \subseteq Nat /\ MPlane \in BOOLEAN

VARIABLES
    owner,      \* who owns each buffer: the device, with room or done, or a frame
    memory,     \* what is in it
    used,       \* how many bytes, as the kernel knows
    planes,     \* and as planes_ of the MMapBuffers says
    part,       \* the part of a frame that each client is being sent
    frame,      \* that frame
    promised    \* the Content-Length that was sent

buffers == <<owner, memory, used, planes>>
vars == <<buffers, part, frame, promised>>

\* An MMapFrame, and what it stands for: the picture and the bytes of its buffer
\* at the time of VIDIOC_DQBUF.
Frame == [idx : Bufs, size : Lengths \cup {0}, picture : Pictures, bytes : Lengths]
NoFrame == [idx |-> "none"]

\* DoStart has queued every buffer: their planes have never been used.
Init ==
    /\ owner = [i \in Bufs |-> "queued"] /\ memory \in [Bufs -> Pictures]
    /\ used = [i \in Bufs |-> 0] /\ planes = [i \in Bufs |-> 0]
    /\ part = [c \in Clients |-> "none"] /\ frame = [c \in Clients |-> NoFrame]
    /\ promised = [c \in Clients |-> 0]

-----------------------------------------------------------------------------
\* The device fills a buffer.
Fill(i, picture, length) ==
    /\ owner[i] = "queued"
    /\ owner' = [owner EXCEPT ![i] = "done"]
    /\ memory' = [memory EXCEPT ![i] = picture] /\ used' = [used EXCEPT ![i] = length]
    /\ UNCHANGED <<planes, part, frame, promised>>

\* Mutant: the size of planes_ also for a device without them.
SizePlanes(i) == planes[i]

\* FetchNext takes the size from where the kernel has put it at VIDIOC_DQBUF, or,
\* with the multi-planar interface, from planes_, which that ioctl was not given.
Size(i) == IF MPlane THEN planes[i] ELSE used[i]

\* The client's loop asks for the next frame.
FetchNext(c, i) ==
    /\ part[c] = "none" /\ owner[i] = "done"
    /\ owner' = [owner EXCEPT ![i] = "frame"]
    /\ frame' = [frame EXCEPT ![c] =
         [idx |-> i, size |-> Size(i), picture |-> memory[i], bytes |-> used[i]]]
    /\ part' = [part EXCEPT ![c] = "frame"]
    /\ UNCHANGED <<memory, used, planes, promised>>

\* EncodeFrame yields the headers...
SendHeader(c) ==
    /\ part[c] = "frame"
    /\ promised' = [promised EXCEPT ![c] = frame[c].size]
    /\ part' = [part EXCEPT ![c] = "header"]
    /\ UNCHANGED <<buffers, frame>>

\* VIDIOC_QBUF is given planes_ and leaves there what the kernel knows of the
\* buffer: the bytes of the last picture that was in it.
QueueBuffer(i) ==
    /\ owner' = [owner EXCEPT ![i] = "queued"]
    /\ planes' = IF MPlane THEN [planes EXCEPT ![i] = used[i]] ELSE planes

\* Mutant: the part does not keep the frame.
SendBodyUnheld(c) ==
    /\ part[c] = "header"
    /\ part' = [part EXCEPT ![c] = "body"]
    /\ QueueBuffer(frame[c].idx)
    /\ UNCHANGED <<memory, used, frame, promised>>

\* ...then the picture, out of the buffer...
SendBody(c) ==
    /\ part[c] = "header"
    /\ part' = [part EXCEPT ![c] = "body"]
    /\ UNCHANGED <<buffers, frame, promised>>

\* ...and the boundary.
SendBoundary(c) ==
    /\ part[c] = "body"
    /\ part' = [part EXCEPT ![c] = "boundary"]
    /\ UNCHANGED <<buffers, frame, promised>>

\* Mutant: the frame is not forgotten.
ReleaseKept(c) ==
    /\ part[c] # "none"
    /\ QueueBuffer(frame[c].idx)
    /\ part' = [part EXCEPT ![c] = "none"]
    /\ UNCHANGED <<memory, used, frame, promised>>

\* The generator and the last part are gone, and with them the frame: at the end
\* of the loop's body, or wherever the client went away.
Release(c) ==
    /\ part[c] # "none"
    /\ QueueBuffer(frame[c].idx)
    /\ part' = [part EXCEPT ![c] = "none"] /\ frame' = [frame EXCEPT ![c] = NoFrame]
    /\ UNCHANGED <<memory, used, promised>>

Next ==
    \/ \E i \in Bufs, p \in Pictures, l \in Lengths : Fill(i, p, l)
    \/ \E c \in Clients : \/ \E i \in Bufs : FetchNext(c, i)
                          \/ SendHeader(c) \/ SendBody(c) \/ SendBoundary(c) \/ Release(c)

Spec == Init /\ [][Next]_vars

-----------------------------------------------------------------------------
(***************************************************************************)
(* Properties                                                              *)
(***************************************************************************)

TypeOK ==
    /\ owner \in [Bufs -> {"queued", "done", "frame"}]
    /\ memory \in [Bufs -> Pictures]
    /\ used \in [Bufs -> Lengths \cup {0}] /\ planes \in [Bufs -> Lengths \cup {0}]
    /\ part \in [Clients -> {"none", "frame", "header", "body", "boundary"}]
    /\ promised \in [Clients -> Lengths \cup {0}]
    /\ frame \in [Clients -> Frame \cup {NoFrame}]
    /\ \A c \in Clients : part[c] = "none" <=> frame[c] = NoFrame

\* The picture that a client is being sent does not change under way, for no copy is
\* made of it: nobody fills the buffer of a frame, and no two clients read one.
PictureStays ==
    \A c \in Clients : part[c] # "none" =>
        /\ memory[frame[c].idx] = frame[c].picture
        /\ \A d \in Clients \ {c} : part[d] # "none" => frame[d].idx # frame[c].idx

\* "Content-Length: {}" (mjpeg_encoder.cpp:30): what the headers of a picture promise
\* is what the device has put into it.
LengthIsPictures ==
    \A c \in Clients : part[c] \in {"header", "body", "boundary"} =>
        promised[c] = frame[c].bytes

=============================================================================
