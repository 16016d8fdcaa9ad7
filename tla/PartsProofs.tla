----------------------------- MODULE PartsProofs ------------------------------
(***************************************************************************)
(* What Parts promises, for any number of buffers and clients.             *)
(***************************************************************************)
EXTENDS Parts, TLAPS

\* A frame owns its buffer, and no two frames own one.
Owned == \A c \in Clients : part[c] # "none" => owner[frame[c].idx] = "frame"

\* The bytes of a frame are those of its buffer, and its size and the length that
\* was sent are the same, unless the planes were asked for it.
Sized ==
    \A c \in Clients :
        /\ part[c] # "none" /\ ~MPlane => frame[c].size = frame[c].bytes
        /\ part[c] \in {"header", "body", "boundary"} => promised[c] = frame[c].size

\* A buffer that is done has something in it.
Filled == \A i \in Bufs : owner[i] = "done" => used[i] \in Lengths

IInv == TypeOK /\ Owned /\ PictureStays /\ Sized /\ Filled

\* The fields of an MMapFrame.
LEMMA FrameFields ==
    \A f \in Frame : f.idx \in Bufs /\ f.size \in Lengths \cup {0} /\ f.picture \in Pictures
                     /\ f.bytes \in Lengths
BY DEF Frame

\* A client without a frame can be told from one with a frame.
LEMMA FrameIsFrame == NoFrame \notin Frame
<1>1. SUFFICES ASSUME NoFrame \in Frame PROVE FALSE
  OBVIOUS
<1>2. DOMAIN NoFrame = {"idx"}
  BY DEF NoFrame
<1>3. DOMAIN NoFrame = {"idx", "size", "picture", "bytes"}
  BY <1>1 DEF Frame
<1> QED
  BY <1>2, <1>3

\* What FetchNext puts into a frame.
LEMMA Fetched ==
    ASSUME TypeOK, NEW i \in Bufs, owner[i] = "done", used[i] \in Lengths
    PROVE  [idx |-> i, size |-> Size(i), picture |-> memory[i], bytes |-> used[i]] \in Frame
BY DEF TypeOK, Frame, Size

\* What holds of the frame of a client that reads one.
LEMMA Reading ==
    ASSUME IInv, NEW c \in Clients, part[c] # "none"
    PROVE  /\ frame[c] \in Frame /\ frame[c] # NoFrame
           /\ frame[c].idx \in Bufs /\ frame[c].size \in Lengths \cup {0}
           /\ owner[frame[c].idx] = "frame"
<1>1. frame[c] \in Frame /\ frame[c] # NoFrame
  BY DEF IInv, TypeOK
<1> QED
  BY <1>1, FrameFields DEF IInv, Owned

\* The invariant holds when DoStart has queued the buffers.
LEMMA InitIInv == Init => IInv
<1>1. Init => TypeOK
  BY PartsAssumption DEF Init, TypeOK
<1> QED
  BY <1>1 DEF Init, IInv, Owned, PictureStays, Sized, Filled

\* The device only fills buffers that are no frame's.
LEMMA FillIInv ==
    ASSUME IInv, NEW i \in Bufs, NEW p \in Pictures, NEW l \in Lengths, Fill(i, p, l)
    PROVE  IInv'
<1>1. \A c \in Clients : part[c] # "none" => frame[c].idx # i /\ frame[c].idx \in Bufs
  BY Reading DEF Fill
<1>2. TypeOK'
  BY DEF IInv, TypeOK, Fill
<1>3. Owned' /\ PictureStays'
  BY <1>1 DEF IInv, TypeOK, Fill, Owned, PictureStays
<1>4. Sized' /\ Filled'
  BY DEF IInv, TypeOK, Fill, Sized, Filled
<1> QED
  BY <1>2, <1>3, <1>4 DEF IInv

\* The new frame's buffer was done, hence nobody's.
LEMMA FetchNextIInv ==
    ASSUME IInv, NEW c \in Clients, NEW i \in Bufs, FetchNext(c, i)
    PROVE  IInv'
<1> DEFINE f == [idx |-> i, size |-> Size(i), picture |-> memory[i], bytes |-> used[i]]
<1>1. f \in Frame /\ f # NoFrame
  BY Fetched, FrameIsFrame DEF IInv, Filled, FetchNext
<1>2. f.idx = i /\ f.picture = memory[i] /\ f.bytes = used[i] /\ (~MPlane => f.size = f.bytes)
  BY DEF Size
<1> HIDE DEF f
<1>3. frame' = [frame EXCEPT ![c] = f]
  BY DEF FetchNext, f
<1>4. frame'[c] = f /\ (\A d \in Clients \ {c} : frame'[d] = frame[d])
  BY <1>3 DEF IInv, TypeOK
<1>5. part'[c] = "frame" /\ (\A d \in Clients \ {c} : part'[d] = part[d])
  BY DEF IInv, TypeOK, FetchNext
<1>6. \A d \in Clients : part[d] # "none" => frame[d].idx # i /\ frame[d].idx \in Bufs
  BY Reading DEF FetchNext
<1>7. TypeOK'
  <2>1. frame' \in [Clients -> Frame \cup {NoFrame}]
    BY <1>1, <1>3 DEF IInv, TypeOK
  <2>2. \A d \in Clients : part'[d] = "none" <=> frame'[d] = NoFrame
    BY <1>1, <1>4, <1>5 DEF IInv, TypeOK
  <2> QED
    BY <2>1, <2>2 DEF IInv, TypeOK, FetchNext
<1>8. Owned'
  BY <1>2, <1>4, <1>5, <1>6 DEF IInv, TypeOK, Owned, FetchNext
<1>9. PictureStays'
  BY <1>2, <1>4, <1>5, <1>6 DEF IInv, PictureStays, FetchNext
<1>10. Sized'
  BY <1>2, <1>4, <1>5 DEF IInv, Sized, FetchNext
<1>11. Filled'
  BY DEF IInv, TypeOK, Filled, FetchNext
<1> QED
  BY <1>7, <1>8, <1>9, <1>10, <1>11 DEF IInv

\* The parts that leave the frame and its buffer alone.
LEMMA SendIInv ==
    ASSUME IInv, NEW c \in Clients, SendHeader(c) \/ SendBody(c) \/ SendBoundary(c)
    PROVE  IInv'
<1> USE DEF SendHeader, SendBody, SendBoundary
<1>1. part[c] # "none"
  OBVIOUS
<1>2. frame[c].size \in Lengths \cup {0}
  BY <1>1, Reading
<1>3. TypeOK'
  <2>1. promised' \in [Clients -> Lengths \cup {0}]
    BY <1>2 DEF IInv, TypeOK, buffers
  <2>2. part' \in [Clients -> {"none", "frame", "header", "body", "boundary"}]
    BY DEF IInv, TypeOK
  <2>3. \A d \in Clients : part'[d] = "none" <=> part[d] = "none"
    BY DEF IInv, TypeOK
  <2> QED
    BY <2>1, <2>2, <2>3 DEF IInv, TypeOK, buffers
<1>4. \A d \in Clients : part'[d] = "none" <=> part[d] = "none"
  BY DEF IInv, TypeOK
<1>5. Owned' /\ PictureStays' /\ Filled'
  BY <1>4 DEF IInv, Owned, PictureStays, Filled, buffers
<1>6. Sized'
  BY DEF IInv, TypeOK, Sized
<1> QED
  BY <1>3, <1>5, <1>6 DEF IInv

\* A released frame gives up its buffer, and that of no other client.
LEMMA ReleaseIInv ==
    ASSUME IInv, NEW c \in Clients, Release(c)
    PROVE  IInv'
<1> DEFINE i == frame[c].idx
<1>1. i \in Bufs /\ part[c] # "none"
  BY Reading DEF Release
<1>2. \A d \in Clients \ {c} : part[d] # "none" => frame[d].idx # i /\ frame[d].idx \in Bufs
  BY <1>1, Reading DEF IInv, PictureStays
<1>3. owner' = [owner EXCEPT ![i] = "queued"]
  BY DEF Release, QueueBuffer
<1> HIDE DEF i
<1>4. part'[c] = "none" /\ frame'[c] = NoFrame
      /\ \A d \in Clients \ {c} : part'[d] = part[d] /\ frame'[d] = frame[d]
  BY DEF IInv, TypeOK, Release
<1>5. TypeOK'
  <2>1. planes' \in [Bufs -> Lengths \cup {0}]
    BY <1>1 DEF IInv, TypeOK, Release, QueueBuffer, i
  <2>2. frame' \in [Clients -> Frame \cup {NoFrame}]
    BY DEF IInv, TypeOK, Release
  <2>3. owner' \in [Bufs -> {"queued", "done", "frame"}]
    BY <1>3 DEF IInv, TypeOK
  <2>4. \A d \in Clients : part'[d] = "none" <=> frame'[d] = NoFrame
    BY <1>4 DEF IInv, TypeOK
  <2> QED
    BY <2>1, <2>2, <2>3, <2>4 DEF IInv, TypeOK, Release
<1>6. Owned'
  BY <1>2, <1>3, <1>4 DEF IInv, TypeOK, Owned
<1>7. PictureStays'
  BY <1>4 DEF IInv, PictureStays, Release
<1>8. Sized'
  BY <1>4 DEF IInv, Sized, Release
<1>9. Filled'
  BY <1>1, <1>3 DEF IInv, TypeOK, Filled, Release
<1> QED
  BY <1>5, <1>6, <1>7, <1>8, <1>9 DEF IInv

\* A step of something else changes nothing.
LEMMA StutterIInv == IInv /\ UNCHANGED vars => IInv'
BY DEF IInv, TypeOK, Owned, PictureStays, Sized, Filled, vars, buffers

\* The invariant holds throughout.
LEMMA Inductive == Spec => []IInv
<1>1. IInv /\ [Next]_vars => IInv'
  BY FillIInv, FetchNextIInv, SendIInv, ReleaseIInv, StutterIInv DEF Next
<1> QED
  BY InitIInv, <1>1, PTL DEF Spec

-----------------------------------------------------------------------------
\* The variables keep their types: what a client is sent comes from a frame.
THEOREM PartsTypeCorrect == Spec => []TypeOK
BY Inductive, PTL DEF IInv

\* The picture a client is being sent stays what it was when it was dequeued, though
\* the parts point into the buffer.
THEOREM PicturesStay == Spec => []PictureStays
BY Inductive, PTL DEF IInv

\* The promised length is that of the picture, for a device without planes.
THEOREM LengthsAreRight == Spec => [](~MPlane => LengthIsPictures)
<1>1. IInv => (~MPlane => LengthIsPictures)
  BY DEF IInv, Sized, LengthIsPictures
<1> QED
  BY Inductive, <1>1, PTL

=============================================================================
