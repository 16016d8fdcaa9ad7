------------------------------ MODULE Feedback -------------------------------
(***************************************************************************)
(* PipelineControl::ProcessStats (libs/pipeline/src/feedback.cpp) with the *)
(* exposure control (rpi-agc.cpp) and the white balance (rpi-awb.cpp).     *)
(*                                                                         *)
(* For each buffer of statistics the pipeline thread moves gain or         *)
(* exposure one step and sets the balance, while pictures taken before     *)
(* that wait, measured in the stream of statistics and still unmeasured in *)
(* the bridge from the camera to the ISP, and /ctrls on the io thread sets *)
(* and reads the same controls, through the same Device and its            *)
(* IntControls, without a lock.                                            *)
(***************************************************************************)
EXTENDS Integers, Sequences, FiniteSetsExt

CONSTANTS
    Bins,           \* of the histogram (128 in the ISP)
    Limit,          \* gain and exposure lie in 0 .. Limit
    Unit,           \* how much of them brightens the picture by one bin
    Most,           \* the balances lie in 0 .. Most
    Scale,          \* what a ratio of 1 is as a balance (1000 in the code)
    Tolerance,      \* how much a balance may be off (10, of 1000)
    Word,           \* a control has the values of one machine word (2^32)
    FrameBufs,      \* buffers of the bridge from the camera to the ISP (20)
    StatBufs,       \* buffers of the statistics stream (5)
    Settings,       \* see setting
    Fails           \* may an ioctl fail?

\* The controls of the camera, of the ISP, and of a camera with signed controls.
Controls == {"exposure", "gain", "red", "blue", "brightness"}

Values(c) == CASE c \in {"exposure", "gain"} -> 0 .. Limit
               [] c \in {"red", "blue"} -> 0 .. Most
               [] c = "brightness" -> -2 .. 2

ASSUME FeedbackAssumption ==
    /\ Bins \in Nat /\ Bins > 12 /\ {Unit, FrameBufs, StatBufs, Scale} \subseteq Nat \ {0}
    /\ {Limit, Most, Tolerance} \subseteq Nat /\ Fails \in BOOLEAN
    /\ Word \in Nat /\ Word % 2 = 0 /\ Word > 2 * Limit /\ Word > 2 * Most /\ Word > 4

ASSUME SettingsAssumption ==
    \A s \in Settings :
        /\ s.devices \subseteq Seq(Controls)
        /\ \A start \in s.starts :
             start \in [Controls -> Int] /\ \A c \in Controls : start[c] \in Values(c)
        /\ s.scenes \subseteq [light : Int, red : Nat, green : Nat, blue : Nat]
        /\ s.posts \subseteq Seq([op : {"set"}, control : Controls, value : Int])

VARIABLES
    setting,    \* algorithms: of the PipelineControl; devices: the controls_ of each;
                \* starts, scenes: what these begin with, changes: bound on their changes;
                \* posts: what clients set, requests: bound on their requests
    dev,        \* the values of the controls
    scene,      \* light, and the sums of red, green and blue pixels
    film,       \* pictures in the bridge, taken and not yet measured
    stats,      \* measured and not yet looked at
    pc,         \* where ProcessStats is
    delta,      \* the step that the exposure control wants
    read,       \* its copies of the two IntControls
    gains,      \* r_gain_ and b_gain_ of the white balance
    curr,       \* what the Devices' own IntControls say, for both threads
    todo,       \* the ioctls that a request has yet to make
    got,        \* what its last ioctl returned and it has yet to store
    count,      \* requests and scenes so far
    missed      \* the balance was not set as the algorithm wanted, or set by a client since
                \* (history)

thread == <<pc, delta, read, gains>>
io == <<todo, got>>
vars == <<setting, dev, scene, film, stats, thread, curr, io, count, missed>>

Bin == 0 .. Bins - 1

-----------------------------------------------------------------------------
(***************************************************************************)
(* The picture and what the algorithms make of it                          *)
(***************************************************************************)

\* The picture: most of it in one bin, some of it in the brightest.
Level(controls, light) ==
    LET l == light + (controls["gain"] + controls["exposure"]) \div Unit
    IN  IF l < 0 THEN 0 ELSE IF l >= Bins THEN Bins - 1 ELSE l

Picture(level) == [i \in Bin |-> (IF i = level THEN 5 ELSE 0) + (IF i = Bins - 1 THEN 2 ELSE 0)]

\* The running sum: the number of pixels in the bins up to each.
Below(hist) ==
    LET sum[i \in Bin] == IF i = 0 THEN hist[0] ELSE sum[i - 1] + hist[i] IN sum

\* The loop over the bins, from each of them on: it returns as soon as the running sum
\* reaches half of all, and 0 after the last bin.
medianOfHistogram(hist) ==
    LET half == Below(hist)[Bins - 1] \div 2
        from[i \in Bin] ==
            IF Below(hist)[i] >= half THEN i ELSE IF i = Bins - 1 THEN 0 ELSE from[i + 1]
    IN  from[0]

Median == [level \in Bin |-> medianOfHistogram(Picture(level))]

\* Mutant: no dead band around the middle.
StepOfMedian(m) == IF m < Bins \div 2 THEN 5 ELSE IF m > Bins \div 2 THEN -5 ELSE 0

Step(m) ==
    IF m < Bins \div 2 - 5 THEN 5 ELSE IF m > Bins \div 2 + 5 THEN -5 ELSE 0

\* The quotient of two sums as a float: without pixels infinite or not a number.
Inf == -1
NaN == -2
Gain(green, sum) ==
    IF sum # 0 THEN (Scale * green) \div sum ELSE IF green # 0 THEN Inf ELSE NaN

Gains(s) == [red |-> Gain(s.green, s.red), blue |-> Gain(s.green, s.blue)]

\* abs(x - y) > 0.01, where infinity less infinity is not a number, and that is not more
\* than anything.
Differs(x, y) ==
    /\ x # y /\ NaN \notin {x, y}
    /\ Inf \in {x, y} \/ x - y \notin -Tolerance .. Tolerance

\* The value that the driver takes for a gain; the cast of one that is not finite gives
\* the least or the largest int.
Balances(g) == IF g < 0 THEN {0, Most} ELSE {IF g > Most THEN Most ELSE g}

(***************************************************************************)
(* Controls of one word in an int64_t                                      *)
(***************************************************************************)

\* The word as the driver sees it, brought into the range of the control...
Signed(w) == IF w % Word >= Word \div 2 THEN (w % Word) - Word ELSE w % Word
InRange(c, v) ==
    CHOOSE u \in Values(c) : \A t \in Values(c) : (u - v) * (u - v) <= (t - v) * (t - v)

\* ...and what value64 reads after the driver wrote v into its lower word.
Value64(old, v) == ((old \div Word) * Word) + (v % Word)

\* The controls that there are.
Offered == UNION {Range(device) : device \in setting.devices}

Nothing == [control |-> "none", value |-> 0]

Init ==
    /\ setting \in Settings
    /\ dev \in setting.starts /\ scene \in setting.scenes
    /\ film = <<>> /\ stats = <<>> /\ pc = "idle" /\ delta = 0
    /\ gains = [red |-> 0, blue |-> 0] /\ missed = FALSE
    /\ curr = [c \in Controls |-> 0] /\ read = [c \in {"exposure", "gain"} |-> 0]
    /\ todo = <<>> /\ got = Nothing /\ count = [requests |-> 0, scenes |-> 0]

-----------------------------------------------------------------------------
SceneChanges(s) ==
    /\ count.scenes < setting.changes /\ s # scene
    /\ scene' = s /\ count' = [count EXCEPT !.scenes = @ + 1]
    /\ UNCHANGED <<setting, dev, film, stats, thread, curr, io, missed>>

\* The camera takes a picture, colours before they are balanced, with the controls as
\* they are now.
TakePicture ==
    /\ setting.algorithms # {} /\ Len(film) < FrameBufs
    /\ film' = Append(film, [level |-> Level(dev, scene.light), gains |-> Gains(scene)])
    /\ UNCHANGED <<setting, dev, scene, stats, thread, curr, io, count, missed>>

\* The ISP measures the oldest picture, and hands its buffer back to the camera.  The
\* picture goes unmeasured if no buffer of statistics is free.
Measure ==
    /\ film # <<>>
    /\ film' = Tail(film)
    /\ stats' = IF Len(stats) < StatBufs THEN Append(stats, Head(film)) ELSE stats
    /\ UNCHANGED <<setting, dev, scene, thread, curr, io, count, missed>>

(***************************************************************************)
(* GET and POST /ctrls                                                     *)
(***************************************************************************)

\* The ioctls of Device::GetControls, which asks for all controls of a device.
GetControls(device) ==
    [i \in 1 .. Len(device) |-> [op |-> "get", control |-> device[i], value |-> 0]]

\* Those of Device::SetControl, which refuses a control that the device does not have.
SetControls(device, posts) ==
    [i \in 1 .. Len(posts) |->
        IF posts[i].control \in Range(device) THEN posts[i] ELSE [posts[i] EXCEPT !.op = "refuse"]]

Request(ops) ==
    /\ todo = <<>> /\ got = Nothing /\ count.requests < setting.requests
    /\ todo' = ops
    /\ count' = [count EXCEPT !.requests = @ + 1]
    /\ UNCHANGED <<setting, dev, scene, film, stats, thread, curr, got, missed>>

GetCtrls(device) == Request(GetControls(device))

\* First each control of the body is set.
SetCtrls(device, posts) == Request(SetControls(device, posts) \o GetControls(device))

\* UpdateCurrent asks the driver...
GetIoctl ==
    /\ got = Nothing /\ todo # <<>> /\ Head(todo).op = "get"
    /\ LET c == Head(todo).control
       IN  got' = [control |-> c, value |-> Value64(0, dev[c])]
    /\ todo' = Tail(todo)
    /\ UNCHANGED <<setting, dev, scene, film, stats, thread, curr, count, missed>>

\* Mutant: the value is brought into the range of the control before it is sent.
SetIoctlClamped ==
    /\ got = Nothing /\ todo # <<>> /\ Head(todo).op = "set"
    /\ LET c == Head(todo).control
           v == Signed(InRange(c, Head(todo).value))
       IN  /\ dev' = [dev EXCEPT ![c] = v]
           /\ got' = [control |-> c, value |-> Value64(Head(todo).value, v)]
           /\ missed' = (missed \/ c \in {"red", "blue"})
    /\ todo' = Tail(todo)
    /\ UNCHANGED <<setting, scene, film, stats, thread, curr, count>>

\* ...IntControl::SetControl sends it the value, and reads what it made of it...
SetIoctl ==
    /\ got = Nothing /\ todo # <<>> /\ Head(todo).op = "set"
    /\ LET c == Head(todo).control
           v == InRange(c, Signed(Head(todo).value))
       IN  /\ dev' = [dev EXCEPT ![c] = v]
           /\ got' = [control |-> c, value |-> Value64(Head(todo).value, v)]
           /\ missed' = (missed \/ c \in {"red", "blue"})
    /\ todo' = Tail(todo)
    /\ UNCHANGED <<setting, scene, film, stats, thread, curr, count>>

\* ...and both store the answer in the Device.
StoreCurrent ==
    /\ got # Nothing
    /\ curr' = [curr EXCEPT ![got.control] = got.value] /\ got' = Nothing
    /\ UNCHANGED <<setting, dev, scene, film, stats, thread, todo, count, missed>>

\* The device has no such control, or an ioctl fails: the request goes no further, and
\* what it set stays.
RequestThrows ==
    /\ got = Nothing /\ todo # <<>> /\ (Fails \/ Head(todo).op = "refuse")
    /\ todo' = <<>>
    /\ UNCHANGED <<setting, dev, scene, film, stats, thread, curr, got, count, missed>>

(***************************************************************************)
(* The pipeline thread                                                     *)
(***************************************************************************)

\* RpiAgc::ProcessStats: the picture decides on a step, or on none.
ProcessStats ==
    /\ pc = "idle" /\ stats # <<>>
    /\ delta' = IF "agc" \in setting.algorithms THEN Step(Median[Head(stats).level]) ELSE 0
    /\ pc' = IF delta' = 0 THEN "awb" ELSE "exposure"
    /\ UNCHANGED <<setting, dev, scene, film, stats, read, gains, curr, io, count, missed>>

\* GetControl asks the camera and stores the answer in the Device...
Update(c, next) ==
    /\ curr' = IF c \in Offered THEN [curr EXCEPT ![c] = Value64(0, dev[c])] ELSE curr
    /\ pc' = next
    /\ UNCHANGED <<setting, dev, scene, film, stats, delta, read, gains, io, count, missed>>

\* ...and then copies it from there.
Copy(c, next) ==
    /\ read' = [read EXCEPT ![c] = curr[c]] /\ pc' = next
    /\ UNCHANGED <<setting, dev, scene, film, stats, delta, gains, curr, io, count, missed>>

\* UpdateExposureAndGain gives up if the camera does not have both.
GetExposureAndGain ==
    \/ pc = "exposure" /\ Update("exposure", "copy exposure")
    \/ pc = "copy exposure" /\ Copy("exposure", "gain")
    \/ pc = "gain" /\ Update("gain", "copy gain")
    \/ pc = "copy gain"
         /\ Copy("gain", IF {"exposure", "gain"} \subseteq Offered THEN "write" ELSE "awb")

CanStep(values, c, d) == 0 < values[c] + d /\ values[c] + d < Limit

\* Mutant: one of the bounds is not looked at.
SetStepUp ==
    /\ pc = "write"
    /\ dev' = IF read["gain"] + delta < Limit THEN [dev EXCEPT !["gain"] = read["gain"] + delta]
              ELSE [dev EXCEPT !["exposure"] = read["exposure"] + delta]
    /\ pc' = "awb"
    /\ UNCHANGED <<setting, scene, film, stats, delta, read, gains, curr, io, count, missed>>

\* Then it moves the gain if there is room, or else the exposure.
SetStep ==
    /\ pc = "write"
    /\ dev' = IF CanStep(read, "gain", delta) THEN [dev EXCEPT !["gain"] = read["gain"] + delta]
              ELSE IF CanStep(read, "exposure", delta)
                THEN [dev EXCEPT !["exposure"] = read["exposure"] + delta]
              ELSE dev
    /\ pc' = "awb"
    /\ UNCHANGED <<setting, scene, film, stats, delta, read, gains, curr, io, count, missed>>

\* An ioctl of the exposure control fails: the exception ends the pipeline thread.
Throw ==
    /\ Fails /\ pc \in {"exposure", "gain", "write"}
    /\ pc' = "threw"
    /\ UNCHANGED <<setting, dev, scene, film, stats, delta, read, gains, curr, io, count, missed>>

\* Mutant: the last gains are remembered, not those that were set.
BalanceRemembers ==
    LET want == Head(stats).gains
    IN  /\ pc = "awb"
        /\ gains' = want
        /\ IF "awb" \in setting.algorithms /\ \E c \in {"red", "blue"} : Differs(gains[c], want[c])
             THEN \E r \in Balances(want.red), b \in Balances(want.blue) :
                    /\ dev' = [dev EXCEPT !["red"] = r, !["blue"] = b] /\ missed' = FALSE
             ELSE UNCHANGED <<dev, missed>>
        /\ pc' = "idle" /\ stats' = Tail(stats)
        /\ UNCHANGED <<setting, scene, film, delta, read, curr, io, count>>

\* RpiAwb::ProcessStats: both gains are set if one of them is off, and remembered even if
\* the ioctl fails.  With that the buffer goes back to the stream.
Balance ==
    LET want == Head(stats).gains
    IN  /\ pc = "awb"
        /\ IF "awb" \in setting.algorithms /\ \E c \in {"red", "blue"} : Differs(gains[c], want[c])
             THEN /\ gains' = want
                  /\ \/ \E r \in Balances(want.red), b \in Balances(want.blue) :
                          dev' = [dev EXCEPT !["red"] = r, !["blue"] = b] /\ missed' = FALSE
                     \/ Fails /\ missed' = TRUE /\ UNCHANGED dev
             ELSE UNCHANGED <<gains, dev, missed>>
        /\ pc' = "idle" /\ stats' = Tail(stats)
        /\ UNCHANGED <<setting, scene, film, delta, read, curr, io, count>>

ThreadStep == ProcessStats \/ GetExposureAndGain \/ SetStep \/ Balance

RequestStep ==
    \/ \E device \in setting.devices :
         GetCtrls(device) \/ \E posts \in setting.posts : SetCtrls(device, posts)
    \/ GetIoctl \/ SetIoctl \/ StoreCurrent \/ RequestThrows

Next ==
    \/ TakePicture \/ Measure \/ (\E s \in setting.scenes : SceneChanges(s))
    \/ ThreadStep \/ Throw \/ RequestStep

Spec == Init /\ [][Next]_vars

\* Camera and ISP go on and the pipeline thread is scheduled.
FairSpec == Spec /\ WF_vars(TakePicture) /\ WF_vars(Measure) /\ WF_vars(ThreadStep)

-----------------------------------------------------------------------------
(***************************************************************************)
(* Properties                                                              *)
(***************************************************************************)

TypeOK ==
    /\ setting \in Settings /\ scene \in setting.scenes
    /\ \A c \in Controls : dev[c] \in Values(c)
    /\ \A c \in Controls : Signed(curr[c]) \in Values(c)
    /\ \A c \in {"exposure", "gain"} : Signed(read[c]) \in Values(c)
    /\ Len(film) <= FrameBufs /\ \A i \in 1 .. Len(film) : film[i].level \in Bin
    /\ Len(stats) <= StatBufs /\ \A i \in 1 .. Len(stats) : stats[i].level \in Bin
    /\ pc \in {"idle", "exposure", "copy exposure", "gain", "copy gain", "write", "awb", "threw"}
    /\ delta \in {-5, 0, 5} /\ \A c \in {"red", "blue"} : gains[c] \in Nat \cup {Inf, NaN}
    /\ got # Nothing => got.control \in Controls /\ Signed(got.value) \in Values(got.control)

Dark(level) == level < Bins \div 2 - 5
Bright(level) == level > Bins \div 2 + 5

\* Steps are decided on pictures taken before the last ones took effect; still they
\* do not carry a dark picture into brightness, or the reverse, while no client
\* uses /ctrls and the scene stays.
StepsNeverOvershoot ==
    [][pc = "write" /\ pc' = "awb" /\ count.requests = 0 /\ count.scenes = 0 =>
         /\ delta > 0 => ~Bright(Level(dev', scene.light)) \/ dev' = dev
         /\ delta < 0 => ~Dark(Level(dev', scene.light)) \/ dev' = dev]_vars

\* However the scene is and whatever clients set, the picture ends between dark and
\* bright and stays there, unless gain and exposure are at their limits.
Settled ==
    LET level == Level(dev, scene.light)
    IN  /\ Dark(level) => \A c \in {"exposure", "gain"} : ~CanStep(dev, c, 5)
        /\ Bright(level) => \A c \in {"exposure", "gain"} : ~CanStep(dev, c, -5)

Settles ==
    <>[](\/ Settled \/ pc = "threw" \/ "agc" \notin setting.algorithms
         \/ ~ {"exposure", "gain"} \subseteq Offered)

\* The balance ends within the tolerance of the scene, also after scenes without light
\* or without one colour: unless it was not set when it should have been, or by a client,
\* which nothing repairs while the scene stays.  Two cases are left out: a gain so small
\* that the algorithm takes it for the 0 it starts with, and a remembered gain that is not
\* a number, from a scene without green and red, or blue, which equals every other.
Balanced ==
    \A c \in {"red", "blue"} :
        LET want == Gains(scene)[c]
        IN  want > Tolerance /\ gains[c] # NaN =>
              \E v \in Balances(want) : dev[c] - v \in -Tolerance .. Tolerance

BalanceSettles ==
    <>[](Balanced \/ missed \/ pc = "threw" \/ "awb" \notin setting.algorithms)

\* A client that sets a control to the value it was told leaves it as it is, also where
\* that value is not the one the driver has: a negative one is told as a large one.
EchoKeeps ==
    [][\A c \in Controls :
         SetIoctl /\ Head(todo).control = c /\ Head(todo).value = curr[c]
                  /\ Signed(curr[c]) = dev[c] => dev' = dev]_vars

=============================================================================
