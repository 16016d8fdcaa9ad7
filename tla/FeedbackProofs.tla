--------------------------- MODULE FeedbackProofs ----------------------------
(***************************************************************************)
(* Theorems about Feedback.                                                *)
(***************************************************************************)
EXTENDS Feedback, TLAPS, WellFoundedInduction, SequenceTheorems

-----------------------------------------------------------------------------
(***************************************************************************)
(* Induction over the histogram: a set of natural numbers has a least one  *)
(***************************************************************************)

\* Every set of natural numbers that is not empty has a least element.
LEMMA LeastOf ==
    ASSUME NEW T \in SUBSET Nat, T # {}
    PROVE  \E x \in T : \A y \in T : x <= y
<1>1. IsWellFoundedOn(OpToRel(<, Nat), Nat)
    BY NatLessThanWellFounded
<1>2. PICK x \in T : \A y \in T : ~(<<y, x>> \in OpToRel(<, Nat))
    BY <1>1, WFMin, Zenon
<1>3. \A y \in T : ~(y < x)
    BY <1>2, Zenon DEF OpToRel
<1> QED BY <1>3

\* The running sum over a histogram as far as bin n.
Sums(hist, n, g) ==
    g \in [0 .. n -> Int]
    /\ \A i \in 0 .. n : g[i] = IF i = 0 THEN hist[0] ELSE g[i - 1] + hist[i]

\* There is a running sum over every histogram, as far as each of its bins.
LEMMA SumsExist ==
    ASSUME NEW hist \in [Bin -> Int]
    PROVE  \A n \in Bin : \E g : Sums(hist, n, g)
<1> DEFINE T == {n \in Bin : ~ \E g : Sums(hist, n, g)}
<1>1. SUFFICES ASSUME T # {} PROVE FALSE
    OBVIOUS
<1>2. PICK n \in T : \A y \in T : n <= y
    <2>1. T \in SUBSET Nat
        BY DEF Bin
    <2> HIDE DEF T
    <2> QED BY <1>1, <2>1, LeastOf
<1>3. n \in Bin /\ n \in Nat /\ Bins \in Nat
    BY FeedbackAssumption DEF Bin
<1>4. CASE n = 0
    <2> DEFINE h == [i \in 0 .. 0 |-> hist[0]]
    <2>1. hist[0] \in Int
        BY <1>3, <1>4
    <2>2. Sums(hist, 0, h)
        BY <2>1 DEF Sums
    <2> QED BY <2>2, <1>4, Zenon
<1>5. CASE n > 0
    <2>1. n - 1 \in Bin /\ ~ (n <= n - 1) /\ hist[n] \in Int
        BY <1>3, <1>5 DEF Bin
    <2>2. PICK g : Sums(hist, n - 1, g)
        BY <1>2, <2>1
    <2> DEFINE h == [i \in 0 .. n |-> IF i = n THEN g[n - 1] + hist[n] ELSE g[i]]
    <2>3. Sums(hist, n, h)
        BY <1>3, <1>5, <2>1, <2>2 DEF Sums
    <2> QED BY <2>3, Zenon
<1> QED BY <1>3, <1>4, <1>5

\* What Below computes for every histogram.
LEMMA BelowIs ==
    ASSUME NEW hist \in [Bin -> Int]
    PROVE  /\ Below(hist) \in [Bin -> Int]
           /\ \A i \in Bin :
                Below(hist)[i] = IF i = 0 THEN hist[0] ELSE Below(hist)[i - 1] + hist[i]
<1> DEFINE P(f) == f = [i \in Bin |-> IF i = 0 THEN hist[0] ELSE f[i - 1] + hist[i]]
<1>1. Below(hist) = CHOOSE f : P(f)
    BY Zenon DEF Below
<1>2. Bins - 1 \in Bin /\ Bin = 0 .. Bins - 1
    BY FeedbackAssumption DEF Bin
<1>3. PICK g : Sums(hist, Bins - 1, g)
    BY <1>2, SumsExist
<1>4. g \in [Bin -> Int] /\ P(g)
    BY <1>2, <1>3 DEF Sums
<1>5. P(CHOOSE f : P(f))
    <2> HIDE DEF P
    <2> QED BY <1>4, Zenon
<1>6. P(Below(hist))
    BY <1>1, <1>5, Zenon
<1> DEFINE B == Below(hist)
<1>7. \A i \in Bin : B[i] = IF i = 0 THEN hist[0] ELSE B[i - 1] + hist[i]
    <2> HIDE DEF B
    <2>1. B = [i \in Bin |-> IF i = 0 THEN hist[0] ELSE B[i - 1] + hist[i]]
        BY <1>6 DEF B
    <2> QED BY <2>1, Zenon
<1>8. \A i \in Bin : B[i] \in Int
    <2> DEFINE T == {i \in Bin : B[i] \notin Int}
    <2> HIDE DEF B
    <2>1. SUFFICES ASSUME T # {} PROVE FALSE
        OBVIOUS
    <2>2. PICK i \in T : \A y \in T : i <= y
        <3>1. T \in SUBSET Nat
            BY DEF Bin
        <3> HIDE DEF T
        <3> QED BY <2>1, <3>1, LeastOf
    <2>3. i = 0 \/ (i - 1 \in Bin /\ i - 1 \notin T)
        BY <2>2, FeedbackAssumption DEF Bin
    <2>4. i \in Bin /\ 0 \in Bin /\ hist[0] \in Int /\ hist[i] \in Int
        BY <2>2, <1>2 DEF Bin
    <2> QED BY <2>3, <2>4, <1>7
<1>9. DOMAIN B = Bin /\ B = [i \in DOMAIN B |-> B[i]]
    <2> HIDE DEF B
    <2>1. B = [i \in Bin |-> IF i = 0 THEN hist[0] ELSE B[i - 1] + hist[i]]
        BY <1>6 DEF B
    <2> QED BY <2>1, Zenon
<1> QED BY <1>7, <1>8, <1>9

\* The running sum does not fall, over a histogram of counts.
LEMMA BelowGrows ==
    ASSUME NEW hist \in [Bin -> Nat], NEW i \in Bin
    PROVE  \A j \in Bin : i <= j => Below(hist)[i] <= Below(hist)[j]
<1> DEFINE B == Below(hist)
           T == {j \in Bin : i <= j /\ ~ (B[i] <= B[j])}
<1>1. /\ B \in [Bin -> Int]
      /\ \A j \in Bin : B[j] = IF j = 0 THEN hist[0] ELSE B[j - 1] + hist[j]
    BY BelowIs
<1> HIDE DEF B
<1>2. SUFFICES ASSUME T # {} PROVE FALSE
    BY DEF B
<1>3. PICK j \in T : \A y \in T : j <= y
    <2>1. T \in SUBSET Nat
        BY DEF Bin
    <2> HIDE DEF T
    <2> QED BY <1>2, <2>1, LeastOf
<1>4. j # i /\ j \in Bin /\ i <= j /\ ~ (B[i] <= B[j]) /\ hist[j] \in Nat
    BY <1>1, <1>3
<1>5. j - 1 \in Bin /\ i <= j - 1 /\ j # 0 /\ ~ (j <= j - 1)
    BY <1>4, FeedbackAssumption DEF Bin
<1>6. B[i] <= B[j - 1]
    BY <1>3, <1>5
<1> QED BY <1>1, <1>4, <1>5, <1>6


\* The loop of medianOfHistogram, over every histogram of counts: it returns from one of
\* its bins, never after the last, and the bin has at least half of all counts in or before
\* it, less than half before it.
THEOREM MedianSplits ==
    ASSUME NEW hist \in [Bin -> Nat]
    PROVE  LET m == medianOfHistogram(hist)
               half == Below(hist)[Bins - 1] \div 2
           IN  /\ m \in Bin /\ Below(hist)[m] >= half
               /\ \A i \in Bin : i < m => Below(hist)[i] < half
<1> DEFINE B == Below(hist)
           half == B[Bins - 1] \div 2
           T == {i \in Bin : B[i] >= half}
           Loop(f) == f = [i \in Bin |-> IF B[i] >= half THEN i
                                         ELSE IF i = Bins - 1 THEN 0 ELSE f[i + 1]]
<1>1. 0 \in Bin /\ Bins - 1 \in Bin /\ Bin = 0 .. Bins - 1 /\ Bins \in Nat
    BY FeedbackAssumption DEF Bin
<1>2. B \in [Bin -> Int] /\ B[0] = hist[0] /\ \A i, j \in Bin : i <= j => B[i] <= B[j]
    <2>1. B \in [Bin -> Int] /\ B[0] = hist[0]
        BY <1>1, BelowIs
    <2>2. ASSUME NEW i \in Bin, NEW j \in Bin, i <= j PROVE B[i] <= B[j]
        BY <2>2, BelowGrows
    <2> QED BY <2>1, <2>2
<1>3. B[Bins - 1] \in Nat /\ half \in Int /\ B[Bins - 1] >= half
    <2>1. Bins - 1 \in Nat /\ hist[0] \in Nat
        BY <1>1
    <2>2. B[0] <= B[Bins - 1]
        BY <1>1, <1>2
    <2> HIDE DEF B
    <2> QED BY <1>1, <1>2, <2>1, <2>2
<1>4. PICK m \in T : \A y \in T : m <= y
    <2>1. T \in SUBSET Nat /\ T # {}
        BY <1>1, <1>3
    <2> HIDE DEF T
    <2> QED BY <2>1, LeastOf
<1>5. medianOfHistogram(hist) = (CHOOSE f : Loop(f))[0]
    BY Zenon DEF medianOfHistogram
<1> HIDE DEF B
<1>6. /\ m \in Bin /\ m \in Nat /\ half \in Int
      /\ \A i \in Bin : B[i] \in Int /\ i \in Nat /\ (B[i] >= half <=> m <= i)
    <2>1. m \in Bin /\ B[m] >= half /\ m \in Nat /\ half \in Int
        BY <1>1, <1>3, <1>4
    <2>2. ASSUME NEW i \in Bin PROVE B[i] >= half <=> m <= i
        <3>1. i \in Nat /\ B[i] \in Int /\ B[m] \in Int
            BY <1>1, <1>2, <2>1
        <3>2. CASE m <= i
            BY <1>2, <2>1, <3>1, <3>2
        <3>3. CASE i < m
            BY <1>4, <2>1, <3>1, <3>3
        <3> QED BY <2>1, <3>1, <3>2, <3>3
    <2> QED BY <1>1, <1>2, <2>1, <2>2
<1> HIDE DEF half
<1>7. Loop([i \in Bin |-> IF i <= m THEN m ELSE i])
    <2> DEFINE g == [i \in Bin |-> IF i <= m THEN m ELSE i]
               h == [i \in Bin |-> IF B[i] >= half THEN i
                                   ELSE IF i = Bins - 1 THEN 0 ELSE g[i + 1]]
    <2>1. ASSUME NEW i \in Bin PROVE g[i] = h[i]
        <3>1. CASE m <= i
            BY <1>6, <3>1
        <3>2. CASE ~ (m <= i)
            <4>1. i + 1 \in Bin /\ i # Bins - 1 /\ i + 1 <= m /\ i <= m
                BY <1>1, <1>6, <3>2
            <4>2. g[i] = m /\ g[i + 1] = m
                BY <4>1
            <4>3. h[i] = g[i + 1]
                <5> HIDE DEF g
                <5> QED BY <1>6, <3>2, <4>1
            <4> QED BY <4>2, <4>3
        <3> QED BY <3>1, <3>2
    <2>2. \A i \in Bin : (IF i <= m THEN m ELSE i) = h[i]
        BY <2>1
    <2>3. g = [i \in Bin |-> h[i]]
        <3> HIDE DEF h
        <3> QED BY <2>2
    <2> QED BY <2>3
<1> DEFINE from == CHOOSE f : Loop(f)
<1>8. Loop(from)
    <2> HIDE DEF Loop
    <2> QED BY <1>7, Zenon
<1>9. \A i \in Bin : from[i] = IF B[i] >= half THEN i
                               ELSE IF i = Bins - 1 THEN 0 ELSE from[i + 1]
    <2> HIDE DEF from
    <2> QED BY <1>8, Zenon
<1> HIDE DEF from
<1>10. from[0] = m
    <2> DEFINE S == {k \in 0 .. m : from[m - k] # m}
    <2>1. SUFFICES ASSUME S # {} PROVE FALSE
        <3>1. m \in 0 .. m /\ m - m = 0
            BY <1>6
        <3> QED BY <2>1, <3>1
    <2>2. PICK k \in S : \A y \in S : k <= y
        <3>1. S \in SUBSET Nat
            BY <1>6
        <3> HIDE DEF S
        <3> QED BY <2>1, <3>1, LeastOf
    <2>3. k \in 0 .. m /\ from[m - k] # m
        BY <2>2
    <2>4. CASE k = 0
        BY <1>6, <1>9, <2>3, <2>4
    <2>5. CASE k # 0
        <3>1. /\ k - 1 \in 0 .. m /\ ~ (k <= k - 1) /\ m - k \in Bin
              /\ ~ (m <= m - k) /\ m - k # Bins - 1 /\ (m - k) + 1 = m - (k - 1)
            BY <1>1, <1>6, <2>3, <2>5
        <3>2. from[m - (k - 1)] = m
            BY <2>2, <3>1
        <3>3. from[m - k] = from[(m - k) + 1]
            BY <1>6, <1>9, <3>1
        <3> QED BY <2>3, <3>1, <3>2, <3>3
    <2> QED BY <2>4, <2>5
<1>11. medianOfHistogram(hist) = m
    BY <1>5, <1>10 DEF from
<1>12. B[m] >= half /\ \A i \in Bin : i < m => B[i] < half
    BY <1>6
<1> QED BY <1>6, <1>11, <1>12 DEF B, half

\* The median of a picture is the bin that most of it lies in.
LEMMA MedianOfPicture == \A level \in Bin : Median[level] = level
<1> TAKE level \in Bin
<1> DEFINE h == Picture(level)
           B == Below(h)
           Sum(i) == (IF i < level THEN 0 ELSE 5) + (IF i = Bins - 1 THEN 2 ELSE 0)
           T == {i \in Bin : B[i] # Sum(i)}
<1>1. level \in Nat /\ Bins \in Nat /\ Bins > 12 /\ Bin = 0 .. Bins - 1
    BY FeedbackAssumption DEF Bin
<1>2. h \in [Bin -> Nat]
    BY DEF Picture
<1>3. \A i \in Bin : h[i] = (IF i = level THEN 5 ELSE 0) + (IF i = Bins - 1 THEN 2 ELSE 0)
    BY DEF Picture
<1>4. \A i \in Bin : B[i] = IF i = 0 THEN h[0] ELSE B[i - 1] + h[i]
    BY <1>2, BelowIs
<1>5. T = {}
    <2>1. SUFFICES ASSUME T # {} PROVE FALSE
        OBVIOUS
    <2>2. PICK i \in T : \A j \in T : i <= j
        <3>1. T \in SUBSET Nat
            BY <1>1
        <3> HIDE DEF T
        <3> QED BY <2>1, <3>1, LeastOf
    <2> HIDE DEF B, h
    <2>3. i \in Bin /\ i \in Nat /\ i <= Bins - 1 /\ B[i] # Sum(i)
        BY <1>1, <2>2
    <2>4. CASE i = 0
        BY <1>1, <1>3, <1>4, <2>3, <2>4
    <2>5. CASE i # 0
        <3>1. i - 1 \in Bin /\ ~ (i <= i - 1)
            BY <1>1, <2>3, <2>5
        <3>2. B[i - 1] = Sum(i - 1)
            BY <2>2, <3>1
        <3>3. B[i] = Sum(i - 1) + h[i]
            BY <1>4, <2>3, <2>5, <3>2
        <3>4. h[i] = (IF i = level THEN 5 ELSE 0) + (IF i = Bins - 1 THEN 2 ELSE 0)
            BY <1>3, <2>3
        <3> QED BY <1>1, <2>3, <2>5, <3>3, <3>4
    <2> QED BY <2>4, <2>5
<1> DEFINE m == medianOfHistogram(h)
<1>6. m \in Bin /\ B[m] >= B[Bins - 1] \div 2 /\ \A i \in Bin : i < m => B[i] < B[Bins - 1] \div 2
    BY <1>2, MedianSplits
<1>7. Median[level] = m
    BY DEF Median
<1> HIDE DEF m, B, h
<1>8. \A i \in Bin : B[i] = Sum(i)
    BY <1>5
<1>9. B[Bins - 1] = 7 /\ B[level] >= 5
    BY <1>1, <1>8
<1>10. m = level
    BY <1>1, <1>6, <1>8, <1>9
<1> QED BY <1>7, <1>10

-----------------------------------------------------------------------------
(***************************************************************************)
(* The inductive invariant                                                 *)
(***************************************************************************)

Steps == {"exposure", "gain"}
Colours == {"red", "blue"}
Ratio == Nat \cup {Inf, NaN}
Stat == [level : Bin, gains : [Colours -> Ratio]]
Op == [op : {"get", "set", "refuse"}, control : Controls, value : Int]

\* Every control of an array of them has a value that its driver could have given it.
AllValid(controls) == \A c \in DOMAIN controls : Signed(controls[c]) \in Values(c)

ControlsOK ==
    /\ setting \in Settings /\ scene \in setting.scenes
    /\ dev \in [Controls -> Int] /\ \A c \in Controls : dev[c] \in Values(c)
    /\ curr \in [Controls -> Int] /\ AllValid(curr)
    /\ read \in [Steps -> Int] /\ AllValid(read)

ThreadOK ==
    /\ film \in Seq(Stat) /\ Len(film) <= FrameBufs
    /\ stats \in Seq(Stat) /\ Len(stats) <= StatBufs
    /\ pc \in {"idle", "exposure", "copy exposure", "gain", "copy gain", "write", "awb", "threw"}
    /\ pc \notin {"idle", "threw"} => stats # <<>>
    /\ delta \in {-5, 0, 5} /\ gains \in [Colours -> Ratio]

RequestsOK ==
    /\ todo \in Seq(Op) /\ count \in [requests : Nat, scenes : Nat]
    /\ got # Nothing => got \in [control : Controls, value : Int]
                        /\ Signed(got.value) \in Values(got.control)

\* While a step is under way it is the one that the picture at the head asks for.
Stepping == {"exposure", "copy exposure", "gain", "copy gain", "write"}
StepOK ==
    pc \in Stepping =>
        /\ delta > 0 => Dark(Head(stats).level)
        /\ delta < 0 => Bright(Head(stats).level)

\* What the pipeline thread has read is what the camera has...
Fresh ==
    /\ pc = "copy exposure" /\ "exposure" \in Offered => curr["exposure"] = dev["exposure"]
    /\ pc \in {"gain", "copy gain", "write"} /\ "exposure" \in Offered =>
         read["exposure"] = dev["exposure"]
    /\ pc = "copy gain" /\ "gain" \in Offered => curr["gain"] = dev["gain"]
    /\ pc = "write" => Steps \subseteq Offered /\ read["gain"] = dev["gain"]

\* ...and each picture that waits was taken at most so many steps ago as there are
\* buffers behind it, in the stream and in the bridge, the one that its own turn takes
\* included.
Bottom == (Bins \div 2 - 5 - scene.light) * Unit
Top == (Bins \div 2 + 6 - scene.light) * Unit
Sum(controls) == controls["gain"] + controls["exposure"]
Bufs == StatBufs + FrameBufs
Ago(i) == IF pc = "awb" THEN Bufs - i + 1 ELSE Bufs - i
Behind(picture, i) ==
    /\ Dark(picture.level) => Sum(dev) - 5 * Ago(i) < Bottom
    /\ Bright(picture.level) => Sum(dev) + 5 * Ago(i) >= Top
Lag ==
    /\ \A i \in 1 .. Len(stats) : Behind(stats[i], i)
    /\ \A i \in 1 .. Len(film) : Behind(film[i], Len(stats) + i)

\* Nobody else has touched camera or scene.
Alone == count.requests = 0 /\ count.scenes = 0

AloneOK == Alone => todo = <<>> /\ got = Nothing /\ Fresh /\ Lag

IInv == ControlsOK /\ ThreadOK /\ RequestsOK /\ StepOK /\ AloneOK

-----------------------------------------------------------------------------
(***************************************************************************)
(* Levels and the values of controls                                       *)
(***************************************************************************)

\* A quotient is less than a number when the dividend is less than its multiple.
LEMMA DivLess ==
    ASSUME NEW s \in Int, NEW k \in Int
    PROVE  s \div Unit < k <=> s < k * Unit
<1>1. Unit \in Nat /\ Unit > 0
    BY FeedbackAssumption
<1> DEFINE q == s \div Unit
<1>2. q \in Int /\ q * Unit <= s /\ s < (q + 1) * Unit
    BY <1>1, Z3
<1> HIDE DEF q
<1>3. CASE q < k
    <2>1. q + 1 <= k
        BY <1>2, <1>3
    <2>2. (q + 1) * Unit <= k * Unit
        BY <1>1, <1>2, <2>1
    <2> QED BY <1>1, <1>2, <1>3, <2>2
<1>4. CASE q >= k
    <2>1. k * Unit <= q * Unit
        BY <1>1, <1>2, <1>4
    <2> QED BY <1>1, <1>2, <1>4, <2>1
<1> QED BY <1>2, <1>3, <1>4 DEF q

\* What gain and exposure make of a scene: a level in the histogram, dark or bright as
\* their sum is below or above a bound.
LEMMA LevelIs ==
    ASSUME NEW controls \in [Controls -> Int], NEW light \in Int
    PROVE  LET level == Level(controls, light)
           IN  /\ level \in Bin
               /\ Dark(level) <=> Sum(controls) < (Bins \div 2 - 5 - light) * Unit
               /\ Bright(level) <=> Sum(controls) >= (Bins \div 2 + 6 - light) * Unit
<1> DEFINE q == Sum(controls) \div Unit
           l == light + q
           level == Level(controls, light)
<1>1. Bins \in Nat /\ Bins > 12 /\ Unit \in Nat /\ Unit > 0
    BY FeedbackAssumption
<1>2. Sum(controls) \in Int /\ q \in Int
    BY <1>1 DEF Sum, Controls
<1>3. level = IF l < 0 THEN 0 ELSE IF l >= Bins THEN Bins - 1 ELSE l
    BY DEF Level, Sum
<1> DEFINE lo == Bins \div 2 - 5 - light
           hi == Bins \div 2 + 6 - light
<1>4. lo \in Int /\ hi \in Int
    BY <1>1
<1>5. q < lo <=> Sum(controls) < lo * Unit
    <2> HIDE DEF lo
    <2> QED BY <1>2, <1>4, DivLess
<1>6. q < hi <=> Sum(controls) < hi * Unit
    <2> HIDE DEF hi
    <2> QED BY <1>2, <1>4, DivLess
<1> HIDE DEF q, level
<1>7. level \in Bin /\ (Dark(level) <=> q < lo) /\ (Bright(level) <=> ~ (q < hi))
    BY <1>1, <1>2, <1>3 DEF Bin, Dark, Bright
<1>8. hi * Unit \in Int
    BY <1>1, <1>4
<1> QED BY <1>2, <1>5, <1>6, <1>7, <1>8 DEF level

\* The values of a control are an interval, and fit into the signed word.
LEMMA ValuesAre ==
    ASSUME NEW c \in Controls
    PROVE  \E lo, hi \in Int :
             /\ Values(c) = lo .. hi /\ lo <= hi
             /\ -(Word \div 2) <= lo /\ hi < Word \div 2
<1>1. /\ Word \in Nat /\ Word % 2 = 0 /\ Word > 2 * Limit /\ Word > 2 * Most /\ Word > 4
      /\ Limit \in Nat /\ Most \in Nat
    BY FeedbackAssumption
<1>2. Word \div 2 > Limit /\ Word \div 2 > Most /\ Word \div 2 > 2 /\ Word \div 2 \in Int
    BY <1>1
<1>3. CASE c \in {"exposure", "gain"}
    <2>1. Values(c) = 0 .. Limit
        BY <1>3 DEF Values
    <2> QED BY <1>1, <1>2, <2>1
<1>4. CASE c \in {"red", "blue"}
    <2>1. Values(c) = 0 .. Most
        BY <1>4 DEF Values
    <2> QED BY <1>1, <1>2, <2>1
<1>5. CASE c = "brightness"
    <2>1. Values(c) = -2 .. 2
        BY <1>5 DEF Values
    <2> QED BY <1>1, <1>2, <2>1
<1> QED BY <1>3, <1>4, <1>5 DEF Controls

\* The word that Value64 keeps has the value that was put into it.
LEMMA SignedIs ==
    ASSUME NEW v \in Int, -(Word \div 2) <= v, v < Word \div 2
    PROVE  /\ Signed(v) = v
           /\ \A old \in Int : Value64(old, v) \in Int /\ Signed(Value64(old, v)) = v
<1>1. Word \in Nat /\ Word > 4 /\ Word % 2 = 0
    BY FeedbackAssumption
<1> DEFINE r == v % Word
<1>2. r \in 0 .. Word - 1 /\ r = IF v >= 0 THEN v ELSE v + Word
    BY <1>1
<1>3. r >= Word \div 2 <=> v < 0
    BY <1>1, <1>2
<1>4. \A k \in Int : \A x \in 0 .. Word - 1 : (k * Word + x) % Word = x
    BY <1>1, Z3
<1>5. ASSUME NEW old \in Int
      PROVE  Value64(old, v) \in Int /\ Value64(old, v) % Word = r
    <2> DEFINE k == old \div Word
    <2>1. k \in Int
        BY <1>1
    <2>2. Value64(old, v) = k * Word + r
        BY DEF Value64
    <2> HIDE DEF r, k
    <2>3. (k * Word + r) % Word = r
        BY <1>2, <1>4, <2>1
    <2>4. k * Word + r \in Int
        BY <1>1, <1>2, <2>1
    <2> QED BY <2>2, <2>3, <2>4
<1> HIDE DEF r
<1>6. \A w \in Int : w % Word = r => Signed(w) = v
    BY <1>1, <1>2, <1>3 DEF Signed
<1> QED BY <1>5, <1>6 DEF r

\* A square grows with the distance from 0.
LEMMA Squares ==
    \A a, b \in Int : (0 <= a /\ a <= b) \/ (b <= a /\ a <= 0) => a * a <= b * b
OBVIOUS

\* The driver makes a value of the control of whatever it is sent, and leaves one as it is.
LEMMA InRangeIs ==
    ASSUME NEW c \in Controls, NEW v \in Int
    PROVE  InRange(c, v) \in Values(c) /\ (v \in Values(c) => InRange(c, v) = v)
<1>1. PICK lo \in Int, hi \in Int : Values(c) = lo .. hi /\ lo <= hi
    BY ValuesAre
<1> DEFINE Near(u) == \A t \in Values(c) : (u - v) * (u - v) <= (t - v) * (t - v)
           clamped == IF v < lo THEN lo ELSE IF v > hi THEN hi ELSE v
<1>2. clamped \in Values(c) /\ clamped \in Int
    BY <1>1
<1>3. Near(clamped)
    <2> TAKE t \in Values(c)
    <2>1. t \in Int /\ lo <= t /\ t <= hi
        BY <1>1
    <2> DEFINE a == clamped - v
               b == t - v
    <2>2. a \in Int /\ b \in Int /\ ((0 <= a /\ a <= b) \/ (b <= a /\ a <= 0) \/ a = 0)
        BY <1>1, <2>1
    <2>3. a = 0 => a * a <= b * b
        <3> HIDE DEF a, b
        <3> QED BY <2>2
    <2> HIDE DEF a, b
    <2>4. a * a <= b * b
        BY <2>2, <2>3, Squares
    <2> QED BY <2>4 DEF a, b
<1>4. InRange(c, v) = CHOOSE u \in Values(c) : Near(u)
    BY Zenon DEF InRange
<1>5. InRange(c, v) \in Values(c) /\ Near(InRange(c, v))
    <2> HIDE DEF Near, clamped
    <2> QED BY <1>2, <1>3, <1>4
<1>6. ASSUME v \in Values(c) PROVE InRange(c, v) = v
    <2> DEFINE u == InRange(c, v)
    <2>1. u \in Int
        BY <1>1, <1>5
    <2>2. (u - v) * (u - v) <= (v - v) * (v - v)
        BY <1>5, <1>6
    <2> HIDE DEF u
    <2>3. \A x \in Int : x * x <= 0 => x = 0
        OBVIOUS
    <2>4. (u - v) * (u - v) <= 0 /\ u - v \in Int
        BY <2>1, <2>2
    <2>5. u - v = 0
        BY <2>3, <2>4
    <2> QED BY <2>1, <2>5 DEF u
<1> QED BY <1>5, <1>6

-----------------------------------------------------------------------------
(***************************************************************************)
(* It holds at first and is kept by every action                           *)
(***************************************************************************)

\* What a setting consists of.
LEMMA SettingIs ==
    ASSUME NEW s \in Settings
    PROVE  /\ s.devices \subseteq Seq(Controls)
           /\ \A start \in s.starts :
                start \in [Controls -> Int] /\ \A c \in Controls : start[c] \in Values(c)
           /\ s.scenes \subseteq [light : Int, red : Nat, green : Nat, blue : Nat]
           /\ s.posts \subseteq Seq([op : {"set"}, control : Controls, value : Int])
BY SettingsAssumption

\* Valid values are numbers, and what they seem in the signed word.
LEMMA ValidIs ==
    ASSUME NEW c \in Controls, NEW v \in Values(c)
    PROVE  /\ v \in Int /\ Signed(v) = v
           /\ \A old \in Int : Value64(old, v) \in Int /\ Signed(Value64(old, v)) = v
<1>1. PICK lo \in Int, hi \in Int :
        Values(c) = lo .. hi /\ lo <= hi /\ -(Word \div 2) <= lo /\ hi < Word \div 2
    BY ValuesAre
<1>2. Word \div 2 \in Int
    BY FeedbackAssumption
<1>3. v \in Int /\ -(Word \div 2) <= v /\ v < Word \div 2
    BY <1>1, <1>2
<1> QED BY <1>3, SignedIs

\* Zero is a value of every control.
LEMMA ZeroIsValid == \A c \in Controls : 0 \in Values(c)
BY FeedbackAssumption DEF Controls, Values

\* Every initial state satisfies the inductive invariant.
LEMMA InitIInv == Init => IInv
<1> SUFFICES ASSUME Init PROVE IInv
    OBVIOUS
<1> USE DEF Init
<1>1. ControlsOK
    <2>1. dev \in [Controls -> Int] /\ \A c \in Controls : dev[c] \in Values(c)
        BY SettingIs
    <2>2. \A c \in Controls : Signed(0) \in Values(c)
        BY ZeroIsValid, ValidIs
    <2>3. Steps \subseteq Controls
        BY DEF Steps, Controls
    <2> QED BY <2>1, <2>2, <2>3 DEF ControlsOK, AllValid, Steps
<1>2. ThreadOK
    <2>1. gains \in [Colours -> Ratio]
        BY DEF Colours, Ratio
    <2> QED BY <2>1, FeedbackAssumption DEF ThreadOK
<1>3. RequestsOK
    BY DEF RequestsOK
<1>4. StepOK
    BY DEF StepOK, Stepping
<1>5. AloneOK
    BY DEF AloneOK, Fresh, Lag
<1> QED BY <1>1, <1>2, <1>3, <1>4, <1>5 DEF IInv

\* What an action that leaves a part's variables alone keeps.
LEMMA Kept ==
    ASSUME IInv
    PROVE  /\ UNCHANGED <<setting, dev, scene, read, curr>> => ControlsOK'
           /\ UNCHANGED <<film, stats, pc, delta, gains>> => ThreadOK' /\ StepOK'
           /\ UNCHANGED <<todo, got, count>> => RequestsOK'
           /\ UNCHANGED <<setting, dev, scene, film, stats, pc, read, curr, todo, got, count>> => AloneOK'
<1>1. UNCHANGED <<setting, dev, scene, read, curr>> => ControlsOK'
    BY DEF IInv, ControlsOK, AllValid
<1>2. UNCHANGED <<film, stats, pc, delta, gains>> => ThreadOK' /\ StepOK'
    BY DEF IInv, ThreadOK, StepOK, Dark, Bright
<1>3. UNCHANGED <<todo, got, count>> => RequestsOK'
    BY DEF IInv, RequestsOK
<1>4. UNCHANGED <<setting, dev, scene, film, stats, pc, read, curr, todo, got, count>> => AloneOK'
    BY DEF IInv, AloneOK, Alone, Fresh, Lag, Behind, Ago, Dark, Bright, Bottom, Top, Sum, Offered
<1> QED BY <1>1, <1>2, <1>3, <1>4

\* The scene changes: the pictures that wait may be of another.
LEMMA SceneChangesIInv ==
    ASSUME IInv, NEW s \in setting.scenes, SceneChanges(s)
    PROVE  IInv'
<1> USE DEF SceneChanges, thread, io
<1>1. ControlsOK'
    BY DEF IInv, ControlsOK, AllValid
<1>2. ThreadOK' /\ StepOK'
    BY Kept
<1>3. RequestsOK' /\ count'.scenes # 0
    BY DEF IInv, RequestsOK
<1>4. AloneOK'
    BY <1>3 DEF AloneOK, Alone
<1> QED BY <1>1, <1>2, <1>3, <1>4 DEF IInv

\* Red, green and blue of a scene give gains that the balance can compare.
LEMMA GainsAre ==
    ASSUME NEW s \in [light : Int, red : Nat, green : Nat, blue : Nat]
    PROVE  Gains(s) \in [Colours -> Ratio]
<1>1. \A green, sum \in Nat : Gain(green, sum) \in Ratio
    <2> TAKE green, sum \in Nat
    <2>1. CASE sum # 0
        <3>1. Scale * green \in Nat
            BY FeedbackAssumption
        <3> DEFINE x == Scale * green
        <3> HIDE DEF x
        <3>2. x \in Nat => x \div sum \in Nat
            BY <2>1, Z3
        <3> QED BY <2>1, <3>1, <3>2 DEF Gain, Ratio, x
    <2>2. CASE sum = 0
        BY <2>2 DEF Gain, Ratio
    <2> QED BY <2>1, <2>2
<1>2. Gain(s.green, s.red) \in Ratio /\ Gain(s.green, s.blue) \in Ratio
    BY <1>1
<1> QED BY <1>2 DEF Gains, Colours

\* The bounds on dark and on bright pictures, eleven bins apart.
LEMMA BoundsAre ==
    ASSUME scene.light \in Int
    PROVE  Bottom \in Int /\ Top \in Int /\ Top = Bottom + 11 * Unit
<1>1. Unit \in Int /\ Bins \in Int
    BY FeedbackAssumption
<1> DEFINE b == Bins \div 2 - scene.light
<1>2. b \in Int /\ Bottom = (b - 5) * Unit /\ Top = (b + 6) * Unit
    BY <1>1 DEF Bottom, Top
<1> HIDE DEF b
<1>3. (b - 5) * Unit \in Int /\ (b + 6) * Unit = (b - 5) * Unit + 11 * Unit
    BY <1>1, <1>2
<1> QED BY <1>1, <1>2, <1>3

\* A picture is taken: it is the one at the end, and of the camera and scene as they are.
LEMMA TakePictureIInv == IInv /\ TakePicture => IInv'
<1> SUFFICES ASSUME IInv, TakePicture PROVE IInv'
    OBVIOUS
<1> DEFINE new == [level |-> Level(dev, scene.light), gains |-> Gains(scene)]
<1>0. /\ Len(film) < FrameBufs /\ film' = Append(film, new)
      /\ UNCHANGED <<setting, dev, scene, stats, pc, delta, read, gains, curr, todo, got, count>>
    BY DEF TakePicture, thread, io
<1>1. ControlsOK' /\ RequestsOK'
    BY <1>0, Kept
<1>2. scene \in [light : Int, red : Nat, green : Nat, blue : Nat]
    BY SettingIs DEF IInv, ControlsOK
<1>3. dev \in [Controls -> Int] /\ scene.light \in Int
    BY <1>2 DEF IInv, ControlsOK
<1>4. /\ new.level \in Bin
      /\ Dark(new.level) <=> Sum(dev) < Bottom
      /\ Bright(new.level) <=> Sum(dev) >= Top
    BY <1>3, LevelIs DEF Bottom, Top
<1>5. new \in Stat
    BY <1>2, <1>4, GainsAre DEF Stat
<1> HIDE DEF new
<1>6. /\ film \in Seq(Stat) /\ Len(film) \in Nat /\ Len(film) < FrameBufs
      /\ film' = Append(film, new) /\ FrameBufs \in Nat
    <2>1. film \in Seq(Stat)
        BY DEF IInv, ThreadOK
    <2>2. FrameBufs \in Nat
        BY FeedbackAssumption
    <2> QED BY <1>0, <2>1, <2>2
<1>7. /\ film' \in Seq(Stat) /\ Len(film') = Len(film) + 1
      /\ film'[Len(film) + 1] = new
      /\ \A i \in 1 .. Len(film) : film'[i] = film[i]
    BY <1>5, <1>6
<1>8. ThreadOK'
    <2>1. film' \in Seq(Stat) /\ Len(film') <= FrameBufs
        BY <1>6, <1>7
    <2> QED BY <1>0, <2>1 DEF IInv, ThreadOK
<1>9. StepOK'
    BY <1>0 DEF IInv, StepOK, Stepping, Dark, Bright
<1>10. AloneOK'
    <2> SUFFICES ASSUME Alone' PROVE (todo = <<>> /\ got = Nothing /\ Fresh /\ Lag)'
        BY DEF AloneOK
    <2>1. Alone /\ todo = <<>> /\ got = Nothing /\ Fresh /\ Lag
        BY <1>0 DEF IInv, AloneOK, Alone
    <2>2. Fresh'
        BY <1>0, <2>1 DEF Fresh, Offered
    <2>3. ASSUME NEW i \in 1 .. Len(film') PROVE Behind(film'[i], Len(stats) + i)
        <3>1. CASE i \in 1 .. Len(film)
            BY <1>7, <2>1, <3>1 DEF Lag
        <3>2. CASE i = Len(film) + 1
            <4>1. Ago(Len(stats) + i) \in Nat
                <5>1. stats \in Seq(Stat) /\ Len(stats) <= StatBufs /\ StatBufs \in Nat
                    BY FeedbackAssumption DEF IInv, ThreadOK
                <5>2. Len(stats) \in Nat
                    BY <5>1
                <5> QED BY <1>6, <3>2, <5>1, <5>2 DEF Ago, Bufs
            <4>2. Sum(dev) \in Int
                BY <1>3 DEF Sum, Controls
            <4>3. Bottom \in Int /\ Top \in Int
                BY <1>3, BoundsAre
            <4>4. film'[i] = new
                BY <1>7, <3>2
            <4> QED BY <1>4, <4>1, <4>2, <4>3, <4>4 DEF Behind
        <3> QED BY <1>6, <1>7, <3>1, <3>2
    <2>4. Lag'
        BY <1>0, <2>1, <2>3 DEF Lag, Behind, Ago, Bottom, Top, Sum, Dark, Bright
    <2> QED BY <1>0, <2>1, <2>2, <2>4
<1> QED BY <1>1, <1>8, <1>9, <1>10 DEF IInv

\* The ioctls that a request is made of.
LEMMA OpsAre ==
    ASSUME NEW device \in Seq(Controls),
           NEW posts \in Seq([op : {"set"}, control : Controls, value : Int])
    PROVE  /\ GetControls(device) \in Seq(Op)
           /\ SetControls(device, posts) \o GetControls(device) \in Seq(Op)
<1>1. GetControls(device) \in Seq(Op)
    <2>1. \A i \in 1 .. Len(device) :
            [op |-> "get", control |-> device[i], value |-> 0] \in Op
        BY DEF Op
    <2> QED BY <2>1 DEF GetControls
<1>2. SetControls(device, posts) \in Seq(Op)
    <2> DEFINE sent(i) == IF posts[i].control \in Range(device) THEN posts[i]
                          ELSE [posts[i] EXCEPT !.op = "refuse"]
    <2>1. ASSUME NEW i \in 1 .. Len(posts) PROVE sent(i) \in Op
        <3> DEFINE post == posts[i]
        <3>1. post \in [op : {"set"}, control : Controls, value : Int]
            BY ElementOfSeq
        <3> HIDE DEF post
        <3>2. post \in Op /\ [post EXCEPT !.op = "refuse"] \in Op
            BY <3>1 DEF Op
        <3> QED BY <3>2 DEF post
    <2> HIDE DEF sent
    <2>2. [i \in 1 .. Len(posts) |-> sent(i)] \in Seq(Op)
        BY <2>1
    <2> QED BY <2>2 DEF SetControls, sent
<1> QED BY <1>1, <1>2

\* A request begins: from then on somebody else may touch the camera.
LEMMA RequestIInv ==
    ASSUME IInv, NEW ops \in Seq(Op), Request(ops)
    PROVE  IInv'
<1>0. /\ todo' = ops /\ got = Nothing /\ got' = got
      /\ count' = [count EXCEPT !.requests = @ + 1]
      /\ UNCHANGED <<setting, dev, scene, film, stats, pc, delta, read, gains, curr>>
    BY DEF Request, thread
<1>1. ControlsOK' /\ ThreadOK' /\ StepOK'
    BY <1>0, Kept
<1>2. RequestsOK' /\ count'.requests # 0
    BY <1>0 DEF IInv, RequestsOK
<1>3. AloneOK'
    BY <1>2 DEF AloneOK, Alone
<1> QED BY <1>1, <1>2, <1>3 DEF IInv

\* Clients set, or only read, the controls of a device.
LEMMA ClientIInv ==
    ASSUME IInv, NEW device \in setting.devices,
           GetCtrls(device) \/ \E posts \in setting.posts : SetCtrls(device, posts)
    PROVE  IInv'
<1>1. /\ device \in Seq(Controls)
      /\ setting.posts \subseteq Seq([op : {"set"}, control : Controls, value : Int])
    BY SettingIs DEF IInv, ControlsOK
<1>2. CASE GetCtrls(device)
    <2>1. <<>> \in Seq([op : {"set"}, control : Controls, value : Int])
        OBVIOUS
    <2>2. GetControls(device) \in Seq(Op)
        BY <1>1, <2>1, OpsAre
    <2> QED BY <1>2, <2>2, RequestIInv DEF GetCtrls
<1>3. ASSUME NEW posts \in setting.posts, SetCtrls(device, posts) PROVE IInv'
    <2>1. SetControls(device, posts) \o GetControls(device) \in Seq(Op)
        BY <1>1, OpsAre
    <2> QED BY <1>3, <2>1, RequestIInv DEF SetCtrls
<1> QED BY <1>2, <1>3

\* While a request has an ioctl to make, or its answer to store, the camera is not alone.
LEMMA BusyIsNotAlone == IInv /\ (todo # <<>> \/ got # Nothing) => ~ Alone
BY DEF IInv, AloneOK

\* The next ioctl of a request, and what is left.
LEMMA HeadOfTodo ==
    ASSUME IInv, todo # <<>>
    PROVE  /\ Head(todo).control \in Controls /\ Head(todo).value \in Int
           /\ Tail(todo) \in Seq(Op)
<1>1. todo \in Seq(Op)
    BY DEF IInv, RequestsOK
<1>2. Head(todo) \in Op /\ Tail(todo) \in Seq(Op)
    BY <1>1
<1> QED BY <1>2 DEF Op

\* UpdateCurrent has its answer: the value that the driver has.
LEMMA GetIoctlIInv == IInv /\ GetIoctl => IInv'
<1> SUFFICES ASSUME IInv, GetIoctl PROVE IInv'
    OBVIOUS
<1> DEFINE c == Head(todo).control
<1>0. /\ todo # <<>> /\ got' = [control |-> c, value |-> Value64(0, dev[c])]
      /\ todo' = Tail(todo)
      /\ UNCHANGED <<setting, dev, scene, film, stats, pc, delta, read, gains, curr, count>>
    BY DEF GetIoctl, thread
<1>1. ControlsOK' /\ ThreadOK' /\ StepOK'
    BY <1>0, Kept
<1>2. c \in Controls /\ Tail(todo) \in Seq(Op)
    BY <1>0, HeadOfTodo
<1> HIDE DEF c
<1>3. dev[c] \in Values(c)
    BY <1>2 DEF IInv, ControlsOK
<1>4. Value64(0, dev[c]) \in Int /\ Signed(Value64(0, dev[c])) \in Values(c)
    BY <1>2, <1>3, ValidIs
<1>5. RequestsOK'
    BY <1>0, <1>2, <1>4 DEF IInv, RequestsOK
<1>6. AloneOK'
    BY <1>0, BusyIsNotAlone DEF AloneOK, Alone
<1> QED BY <1>1, <1>5, <1>6 DEF IInv

\* SetControl has set a value in the range of the control, whatever it was sent.
LEMMA SetIoctlIInv == IInv /\ SetIoctl => IInv'
<1> SUFFICES ASSUME IInv, SetIoctl PROVE IInv'
    OBVIOUS
<1> DEFINE c == Head(todo).control
           sent == Head(todo).value
           v == InRange(c, Signed(sent))
<1>0. /\ todo # <<>> /\ got' = [control |-> c, value |-> Value64(sent, v)]
      /\ dev' = [dev EXCEPT ![c] = v] /\ todo' = Tail(todo)
      /\ UNCHANGED <<setting, scene, film, stats, pc, delta, read, gains, curr, count>>
    BY DEF SetIoctl, thread
<1>1. ThreadOK' /\ StepOK'
    BY <1>0, Kept
<1>2. c \in Controls /\ sent \in Int /\ Tail(todo) \in Seq(Op)
    BY <1>0, HeadOfTodo
<1>3. Signed(sent) \in Int
    <2>1. Word \in Nat /\ Word > 0
        BY FeedbackAssumption
    <2> HIDE DEF sent
    <2>2. sent % Word \in Int
        BY <1>2, <2>1
    <2> QED BY <2>1, <2>2 DEF Signed
<1> HIDE DEF c, sent
<1>4. v \in Values(c)
    BY <1>2, <1>3, InRangeIs
<1> HIDE DEF v
<1>5. v \in Int /\ Value64(sent, v) \in Int /\ Signed(Value64(sent, v)) \in Values(c)
    BY <1>2, <1>4, ValidIs
<1>6. RequestsOK'
    BY <1>0, <1>2, <1>5 DEF IInv, RequestsOK
<1>7. ControlsOK'
    BY <1>0, <1>2, <1>4, <1>5 DEF IInv, ControlsOK, AllValid
<1>8. AloneOK'
    BY <1>0, BusyIsNotAlone DEF AloneOK, Alone
<1> QED BY <1>1, <1>6, <1>7, <1>8 DEF IInv

\* The answer is stored in the Device.
LEMMA StoreCurrentIInv == IInv /\ StoreCurrent => IInv'
<1> SUFFICES ASSUME IInv, StoreCurrent PROVE IInv'
    OBVIOUS
<1>0. /\ got # Nothing /\ curr' = [curr EXCEPT ![got.control] = got.value] /\ got' = Nothing
      /\ UNCHANGED <<setting, dev, scene, film, stats, pc, delta, read, gains, todo, count>>
    BY DEF StoreCurrent, thread
<1>1. ThreadOK' /\ StepOK'
    BY <1>0, Kept
<1>2. RequestsOK'
    BY <1>0 DEF IInv, RequestsOK
<1>3. got.control \in Controls /\ got.value \in Int /\ Signed(got.value) \in Values(got.control)
    BY <1>0 DEF IInv, RequestsOK
<1>4. ControlsOK'
    BY <1>0, <1>3 DEF IInv, ControlsOK, AllValid
<1>5. AloneOK'
    BY <1>0, BusyIsNotAlone DEF AloneOK, Alone
<1> QED BY <1>1, <1>2, <1>4, <1>5 DEF IInv

\* A request gives up.
LEMMA RequestThrowsIInv == IInv /\ RequestThrows => IInv'
<1> SUFFICES ASSUME IInv, RequestThrows PROVE IInv'
    OBVIOUS
<1>0. /\ todo # <<>> /\ todo' = <<>>
      /\ UNCHANGED <<setting, dev, scene, film, stats, pc, delta, read, gains, curr, got, count>>
    BY DEF RequestThrows, thread
<1>1. ControlsOK' /\ ThreadOK' /\ StepOK'
    BY <1>0, Kept
<1>2. RequestsOK'
    BY <1>0 DEF IInv, RequestsOK
<1>3. AloneOK'
    BY <1>0, BusyIsNotAlone DEF AloneOK, Alone
<1> QED BY <1>1, <1>2, <1>3 DEF IInv

\* The picture at the head of those that wait.
LEMMA HeadOfStats ==
    ASSUME IInv, stats # <<>>
    PROVE  /\ stats \in Seq(Stat) /\ Len(stats) \in Nat /\ Len(stats) > 0
           /\ Head(stats) = stats[1] /\ Head(stats).level \in Bin
           /\ Head(stats).gains \in [Colours -> Ratio]
<1>1. stats \in Seq(Stat)
    BY DEF IInv, ThreadOK
<1>2. Len(stats) \in Nat /\ Len(stats) > 0 /\ Head(stats) = stats[1] /\ Head(stats) \in Stat
    BY <1>1
<1> QED BY <1>1, <1>2 DEF Stat

\* What the bounds on the pictures that wait are about.
LEMMA LagTypes ==
    ASSUME IInv
    PROVE  /\ Sum(dev) \in Int /\ Bottom \in Int /\ Top \in Int /\ Top = Bottom + 11 * Unit
           /\ dev["gain"] \in Int /\ dev["exposure"] \in Int /\ Bufs \in Nat /\ Unit \in Nat
           /\ \A i \in Nat : Ago(i) \in Int
<1>1. scene \in [light : Int, red : Nat, green : Nat, blue : Nat]
    BY SettingIs DEF IInv, ControlsOK
<1>2. Bottom \in Int /\ Top \in Int /\ Top = Bottom + 11 * Unit
    BY <1>1, BoundsAre
<1>3. dev["gain"] \in Int /\ dev["exposure"] \in Int
    BY DEF IInv, ControlsOK, Controls
<1>4. Bufs \in Nat /\ Unit \in Nat
    BY FeedbackAssumption DEF Bufs
<1> QED BY <1>2, <1>3, <1>4 DEF Sum, Ago

\* How many pictures wait.
LEMMA Lengths ==
    ASSUME IInv
    PROVE  /\ stats \in Seq(Stat) /\ Len(stats) \in Nat /\ Len(stats) <= StatBufs
           /\ film \in Seq(Stat) /\ Len(film) \in Nat /\ Len(film) <= FrameBufs
           /\ StatBufs \in Nat /\ FrameBufs \in Nat
<1>1. /\ stats \in Seq(Stat) /\ Len(stats) <= StatBufs
      /\ film \in Seq(Stat) /\ Len(film) <= FrameBufs
    BY DEF IInv, ThreadOK
<1> QED BY <1>1, FeedbackAssumption

\* A step makes the pictures that wait older by one.
LEMMA LagKept ==
    ASSUME IInv, Lag, UNCHANGED <<scene, film, stats>>, pc # "awb",
           NEW d \in -5 .. 5, Sum(dev)' = Sum(dev) + d, d = 0 \/ pc' = "awb"
    PROVE  Lag'
<1>1. ASSUME NEW p, NEW i \in Nat, Behind(p, i)
      PROVE  /\ Dark(p.level) => Sum(dev)' - 5 * Ago(i)' < Bottom
             /\ Bright(p.level) => Sum(dev)' + 5 * Ago(i)' >= Top
    <2> DEFINE ago == Ago(i)
               sum == Sum(dev)
    <2>1. ago \in Int /\ sum \in Int /\ Bottom \in Int /\ Top \in Int
        BY LagTypes
    <2>2. Ago(i)' = IF pc' = "awb" THEN ago + 1 ELSE ago
        BY LagTypes DEF Ago
    <2>3. Sum(dev)' = sum + d
        BY DEF sum
    <2>4. /\ Dark(p.level) => sum - 5 * ago < Bottom
          /\ Bright(p.level) => sum + 5 * ago >= Top
        BY <1>1 DEF Behind
    <2> HIDE DEF ago, sum
    <2>5. sum + d - 5 * Ago(i)' <= sum - 5 * ago /\ sum + d + 5 * Ago(i)' >= sum + 5 * ago
        BY <2>1, <2>2
    <2>6. ASSUME Dark(p.level) PROVE Sum(dev)' - 5 * Ago(i)' < Bottom
        <3>1. sum - 5 * ago < Bottom /\ sum - 5 * ago \in Int
            BY <2>1, <2>4, <2>6
        <3>2. Sum(dev)' - 5 * Ago(i)' <= sum - 5 * ago /\ Sum(dev)' - 5 * Ago(i)' \in Int
            BY <2>1, <2>2, <2>3, <2>5
        <3> QED BY <2>1, <3>1, <3>2
    <2>7. ASSUME Bright(p.level) PROVE Sum(dev)' + 5 * Ago(i)' >= Top
        <3>1. sum + 5 * ago >= Top /\ sum + 5 * ago \in Int
            BY <2>1, <2>4, <2>7
        <3>2. Sum(dev)' + 5 * Ago(i)' >= sum + 5 * ago /\ Sum(dev)' + 5 * Ago(i)' \in Int
            BY <2>1, <2>2, <2>3, <2>5
        <3> QED BY <2>1, <3>1, <3>2
    <2> QED BY <2>6, <2>7
<1>2. ASSUME NEW i \in 1 .. Len(stats) PROVE Behind(stats[i], i)'
    <2>1. i \in Nat /\ Behind(stats[i], i)
        BY Lengths DEF Lag
    <2> QED BY <1>1, <2>1 DEF Behind, Dark, Bright, Bottom, Top
<1>3. ASSUME NEW i \in 1 .. Len(film) PROVE Behind(film[i], Len(stats) + i)'
    <2>1. Behind(film[i], Len(stats) + i)
        BY DEF Lag
    <2>3. i \in Nat /\ Len(stats) + i \in Nat
        BY Lengths
    <2>2. (Len(stats) + i)' = Len(stats) + i
        OBVIOUS
    <2> QED BY <1>1, <2>1, <2>2, <2>3 DEF Behind, Dark, Bright, Bottom, Top, Ago
<1> QED BY <1>2, <1>3 DEF Lag

\* They hold on, too, if the camera stays as it is.
LEMMA LagStays ==
    ASSUME IInv, Lag, UNCHANGED <<dev, scene, film, stats>>, pc # "awb"
    PROVE  Lag'
<1>1. Sum(dev)' = Sum(dev) + 0
    BY LagTypes DEF Sum
<1> QED BY <1>1, LagKept

\* A picture closer to its turn may be older.
LEMMA BehindEarlier ==
    ASSUME IInv, NEW p, NEW i \in Nat, Behind(p, i + 1)
    PROVE  Behind(p, i)
<1>1. Sum(dev) \in Int /\ Bottom \in Int /\ Top \in Int /\ Ago(i) \in Int /\ Bufs \in Nat
    BY LagTypes
<1>2. Ago(i + 1) = Ago(i) - 1
    BY <1>1 DEF Ago
<1> QED BY <1>1, <1>2 DEF Behind

\* The ISP measures the oldest picture of the bridge, which joins those of the stream, or
\* is dropped: then the others have fewer before them.
LEMMA MeasureIInv == IInv /\ Measure => IInv'
<1> SUFFICES ASSUME IInv, Measure PROVE IInv'
    OBVIOUS
<1>0. /\ film # <<>> /\ film' = Tail(film)
      /\ stats' = IF Len(stats) < StatBufs THEN Append(stats, Head(film)) ELSE stats
      /\ UNCHANGED <<setting, dev, scene, pc, delta, read, gains, curr, todo, got, count>>
    BY DEF Measure, thread, io
<1>1. ControlsOK' /\ RequestsOK'
    BY <1>0, Kept
<1>2. /\ stats \in Seq(Stat) /\ Len(stats) \in Nat /\ Len(stats) <= StatBufs
      /\ film \in Seq(Stat) /\ Len(film) \in Nat /\ Len(film) <= FrameBufs
      /\ StatBufs \in Nat /\ FrameBufs \in Nat
    BY Lengths
<1>3. /\ Len(film) > 0 /\ Head(film) = film[1] /\ Head(film) \in Stat
      /\ film' \in Seq(Stat) /\ Len(film') = Len(film) - 1
      /\ \A i \in 1 .. Len(film') : film'[i] = film[i + 1] /\ i + 1 \in 1 .. Len(film)
    BY <1>0, <1>2
<1>4. Alone' => /\ Alone /\ todo' = <<>> /\ got' = Nothing
                /\ Fresh' /\ Lag
    BY <1>0 DEF IInv, AloneOK, Alone, Fresh, Offered
<1>5. ASSUME NEW i \in 1 .. Len(film'), Lag
      PROVE  Behind(film'[i], Len(stats) + 1 + i)
    <2>1. i + 1 \in 1 .. Len(film) /\ film'[i] = film[i + 1]
        BY <1>3
    <2>2. Len(stats) + (i + 1) = Len(stats) + 1 + i
        BY <1>2
    <2>3. Behind(film[i + 1], Len(stats) + (i + 1))
        BY <1>5, <2>1 DEF Lag
    <2> QED BY <2>1, <2>2, <2>3
<1>6. CASE Len(stats) < StatBufs
    <2>1. /\ stats' = Append(stats, Head(film)) /\ stats' \in Seq(Stat)
          /\ Len(stats') = Len(stats) + 1 /\ stats'[Len(stats) + 1] = film[1]
          /\ \A i \in 1 .. Len(stats) : stats'[i] = stats[i]
          /\ stats # <<>> => stats' # <<>> /\ Head(stats') = Head(stats)
        BY <1>0, <1>2, <1>3, <1>6
    <2>2. ThreadOK'
        <3>1. Len(stats') <= StatBufs /\ Len(film') <= FrameBufs
            BY <1>2, <1>3, <1>6, <2>1
        <3>2. pc' \notin {"idle", "threw"} => stats' # <<>>
            BY <1>0, <2>1 DEF IInv, ThreadOK
        <3> QED BY <1>0, <1>3, <2>1, <3>1, <3>2 DEF IInv, ThreadOK
    <2>3. StepOK'
        BY <1>0, <2>1 DEF IInv, ThreadOK, StepOK, Stepping, Dark, Bright
    <2>4. ASSUME Lag, NEW i \in 1 .. Len(stats') PROVE Behind(stats'[i], i)
        <3>1. CASE i \in 1 .. Len(stats)
            BY <2>1, <2>4, <3>1 DEF Lag
        <3>2. CASE i = Len(stats) + 1
            BY <1>3, <2>1, <2>4, <3>2 DEF Lag
        <3> QED BY <1>2, <2>1, <3>1, <3>2
    <2>5. ASSUME Lag PROVE Lag'
        <3>1. ASSUME NEW i \in 1 .. Len(film') PROVE Behind(film'[i], Len(stats') + i)
            BY <1>5, <2>1, <2>5
        <3> QED BY <1>0, <2>4, <2>5, <3>1 DEF Lag, Behind, Ago, Bottom, Top, Sum, Dark, Bright
    <2> QED BY <1>1, <1>4, <2>2, <2>3, <2>5 DEF IInv, AloneOK
<1>7. CASE ~ (Len(stats) < StatBufs)
    <2>1. stats' = stats
        BY <1>0, <1>7
    <2>2. ThreadOK' /\ StepOK'
        <3>1. Len(film') <= FrameBufs
            BY <1>2, <1>3
        <3> QED BY <1>0, <1>3, <2>1, <3>1 DEF IInv, ThreadOK, StepOK, Stepping, Dark, Bright
    <2>3. ASSUME Lag, NEW i \in 1 .. Len(film') PROVE Behind(film'[i], Len(stats) + i)
        <3>1. Behind(film'[i], Len(stats) + 1 + i)
            BY <1>5, <2>3
        <3>2. Len(stats) + i \in Nat /\ Len(stats) + 1 + i = (Len(stats) + i) + 1
            BY <1>2, <1>3
        <3> QED BY <3>1, <3>2, BehindEarlier
    <2>4. ASSUME Lag PROVE Lag'
        BY <1>0, <2>1, <2>3, <2>4 DEF Lag, Behind, Ago, Bottom, Top, Sum, Dark, Bright
    <2> QED BY <1>1, <1>4, <2>2, <2>4 DEF IInv, AloneOK
<1> QED BY <1>6, <1>7

\* The exposure control decides on a step from the picture at the head, or on none.
LEMMA ProcessStatsIInv == IInv /\ ProcessStats => IInv'
<1> SUFFICES ASSUME IInv, ProcessStats PROVE IInv'
    OBVIOUS
<1> DEFINE level == Head(stats).level
<1>0. /\ pc = "idle" /\ stats # <<>>
      /\ delta' = IF "agc" \in setting.algorithms THEN Step(Median[level]) ELSE 0
      /\ pc' = IF delta' = 0 THEN "awb" ELSE "exposure"
      /\ UNCHANGED <<setting, dev, scene, film, stats, read, gains, curr, todo, got, count>>
    BY DEF ProcessStats, io
<1>1. ControlsOK' /\ RequestsOK'
    BY <1>0, Kept
<1>2. level \in Bin /\ Median[level] = level
    BY <1>0, HeadOfStats, MedianOfPicture
<1> HIDE DEF level
<1>3. /\ delta' \in {-5, 0, 5} /\ (delta' > 0 => Dark(level)) /\ (delta' < 0 => Bright(level))
    BY <1>0, <1>2 DEF Step, Dark, Bright
<1>4. ThreadOK'
    BY <1>0, <1>3 DEF IInv, ThreadOK
<1>5. StepOK'
    BY <1>0, <1>3 DEF StepOK, Dark, Bright, level
<1>6. AloneOK'
    <2> SUFFICES ASSUME Alone' PROVE (todo = <<>> /\ got = Nothing /\ Fresh /\ Lag)'
        BY DEF AloneOK
    <2>1. todo = <<>> /\ got = Nothing /\ Lag
        BY <1>0 DEF IInv, AloneOK, Alone
    <2>2. Lag'
        BY <1>0, <2>1, LagStays
    <2> QED BY <1>0, <2>1, <2>2 DEF Fresh
<1> QED BY <1>1, <1>4, <1>5, <1>6 DEF IInv

\* Gain and exposure are natural numbers, and what value64 reads of them.
LEMMA StepValue ==
    ASSUME IInv, NEW c \in Steps
    PROVE  /\ c \in Controls /\ dev[c] \in 0 .. Limit /\ dev[c] \in Int
           /\ Value64(0, dev[c]) = dev[c] /\ Signed(dev[c]) \in Values(c)
<1>1. c \in Controls /\ Values(c) = 0 .. Limit
    BY DEF Steps, Controls, Values
<1>2. dev[c] \in Values(c)
    BY <1>1 DEF IInv, ControlsOK
<1>3. Word \in Nat /\ Limit \in Nat /\ Word > 2 * Limit /\ Word > 4
    BY FeedbackAssumption
<1> DEFINE v == dev[c]
<1>4. v \in 0 .. Limit
    BY <1>1, <1>2
<1> HIDE DEF v
<1>5. 0 \div Word = 0 /\ v % Word = v
    BY <1>3, <1>4
<1>6. Value64(0, v) = v
    BY <1>3, <1>4, <1>5 DEF Value64
<1>7. Signed(v) = v
    BY <1>1, <1>2, ValidIs DEF v
<1> QED BY <1>1, <1>2, <1>4, <1>6, <1>7 DEF v

\* The thread asks the camera for gain or exposure...
LEMMA UpdateIInv ==
    ASSUME IInv, NEW c \in Steps, NEW next,
           \/ pc = "exposure" /\ c = "exposure" /\ next = "copy exposure"
           \/ pc = "gain" /\ c = "gain" /\ next = "copy gain",
           Update(c, next)
    PROVE  IInv'
<1>0. /\ curr' = IF c \in Offered THEN [curr EXCEPT ![c] = Value64(0, dev[c])] ELSE curr
      /\ pc' = next
      /\ UNCHANGED <<setting, dev, scene, film, stats, delta, read, gains, todo, got, count>>
    BY DEF Update, io
<1>1. RequestsOK'
    BY <1>0, Kept
<1>2. /\ c \in Controls /\ dev[c] \in Int /\ Value64(0, dev[c]) = dev[c]
      /\ Signed(dev[c]) \in Values(c)
    BY StepValue
<1>3. ControlsOK'
    BY <1>0, <1>2 DEF IInv, ControlsOK, AllValid
<1>4. ThreadOK'
    BY <1>0 DEF IInv, ThreadOK
<1>5. StepOK'
    BY <1>0 DEF IInv, StepOK, Stepping, Dark, Bright
<1>6. AloneOK'
    <2> SUFFICES ASSUME Alone' PROVE (todo = <<>> /\ got = Nothing /\ Fresh /\ Lag)'
        BY DEF AloneOK
    <2>1. todo = <<>> /\ got = Nothing /\ Fresh /\ Lag
        BY <1>0 DEF IInv, AloneOK, Alone
    <2>2. c \in Offered => curr'[c] = dev[c]
        BY <1>0, <1>2 DEF IInv, ControlsOK
    <2>3. Fresh'
        BY <1>0, <2>1, <2>2 DEF Fresh, Offered
    <2>4. Lag'
        BY <1>0, <2>1, LagStays
    <2> QED BY <1>0, <2>1, <2>3, <2>4
<1> QED BY <1>1, <1>3, <1>4, <1>5, <1>6 DEF IInv

\* ...and copies the answer.
LEMMA CopyIInv ==
    ASSUME IInv, NEW c \in Steps, NEW next,
           \/ pc = "copy exposure" /\ c = "exposure" /\ next = "gain"
           \/ /\ pc = "copy gain" /\ c = "gain"
              /\ next = IF Steps \subseteq Offered THEN "write" ELSE "awb",
           Copy(c, next)
    PROVE  IInv'
<1>0. /\ read' = [read EXCEPT ![c] = curr[c]] /\ pc' = next
      /\ UNCHANGED <<setting, dev, scene, film, stats, delta, gains, curr, todo, got, count>>
    BY DEF Copy, io
<1>1. RequestsOK'
    BY <1>0, Kept
<1>2. c \in Controls /\ curr[c] \in Int /\ Signed(curr[c]) \in Values(c)
    BY DEF IInv, ControlsOK, AllValid, Steps, Controls
<1>3. ControlsOK'
    BY <1>0, <1>2 DEF IInv, ControlsOK, AllValid
<1>4. ThreadOK'
    BY <1>0 DEF IInv, ThreadOK
<1>5. StepOK'
    BY <1>0 DEF IInv, StepOK, Stepping, Dark, Bright
<1>6. AloneOK'
    <2> SUFFICES ASSUME Alone' PROVE (todo = <<>> /\ got = Nothing /\ Fresh /\ Lag)'
        BY DEF AloneOK
    <2>1. todo = <<>> /\ got = Nothing /\ Fresh /\ Lag
        BY <1>0 DEF IInv, AloneOK, Alone
    <2>2. read'[c] = curr[c] /\ \A d \in Steps \ {c} : read'[d] = read[d]
        BY <1>0 DEF IInv, ControlsOK
    <2>3. Fresh'
        BY <1>0, <2>1, <2>2 DEF Fresh, Offered, Steps
    <2>4. Lag'
        BY <1>0, <2>1, LagStays
    <2> QED BY <1>0, <2>1, <2>3, <2>4
<1> QED BY <1>1, <1>3, <1>4, <1>5, <1>6 DEF IInv

\* Both, in turn.
LEMMA GetExposureAndGainIInv == IInv /\ GetExposureAndGain => IInv'
<1> SUFFICES ASSUME IInv, GetExposureAndGain PROVE IInv'
    OBVIOUS
<1>1. "exposure" \in Steps /\ "gain" \in Steps
    BY DEF Steps
<1>2. CASE pc = "exposure" /\ Update("exposure", "copy exposure")
    BY <1>1, <1>2, UpdateIInv
<1>3. CASE pc = "copy exposure" /\ Copy("exposure", "gain")
    BY <1>1, <1>3, CopyIInv
<1>4. CASE pc = "gain" /\ Update("gain", "copy gain")
    BY <1>1, <1>4, UpdateIInv
<1>5. CASE pc = "copy gain" /\ Copy("gain", IF Steps \subseteq Offered THEN "write" ELSE "awb")
    BY <1>1, <1>5, CopyIInv
<1> QED BY <1>2, <1>3, <1>4, <1>5 DEF GetExposureAndGain, Steps

\* A step is one of five up or down, or none.
LEMMA DeltaIs == IInv => delta \in -5 .. 5 /\ delta \in Int
<1>1. IInv => delta \in {-5, 0, 5}
    BY DEF IInv, ThreadOK
<1> QED BY <1>1

\* The thread moves gain or exposure by one step, if that stays between the limits.
LEMMA SetStepIs ==
    ASSUME IInv, SetStep
    PROVE  /\ pc = "write" /\ pc' = "awb"
           /\ UNCHANGED <<setting, scene, film, stats, delta, read, gains, curr, todo, got, count>>
           /\ \/ dev' = dev
              \/ \E c \in Steps : /\ read[c] + delta \in 1 .. Limit - 1
                                  /\ dev' = [dev EXCEPT ![c] = read[c] + delta]
<1>0. /\ pc = "write" /\ pc' = "awb"
      /\ UNCHANGED <<setting, scene, film, stats, delta, read, gains, curr, todo, got, count>>
      /\ dev' = IF CanStep(read, "gain", delta) THEN [dev EXCEPT !["gain"] = read["gain"] + delta]
                ELSE IF CanStep(read, "exposure", delta)
                  THEN [dev EXCEPT !["exposure"] = read["exposure"] + delta]
                ELSE dev
    BY DEF SetStep, io
<1>1. read["gain"] \in Int /\ read["exposure"] \in Int /\ delta \in Int
    BY DeltaIs DEF IInv, ControlsOK, Steps
<1>2. Limit \in Nat
    BY FeedbackAssumption
<1>3. \A c \in Steps : CanStep(read, c, delta) => read[c] + delta \in 1 .. Limit - 1
    BY <1>1, <1>2 DEF CanStep, Steps
<1>4. "gain" \in Steps /\ "exposure" \in Steps
    BY DEF Steps
<1> QED BY <1>0, <1>3, <1>4

LEMMA SetStepIInv == IInv /\ SetStep => IInv'
<1> SUFFICES ASSUME IInv, SetStep PROVE IInv'
    OBVIOUS
<1>0. /\ pc = "write" /\ pc' = "awb"
      /\ UNCHANGED <<setting, scene, film, stats, delta, read, gains, curr, todo, got, count>>
    BY SetStepIs
<1>1. RequestsOK'
    BY <1>0, Kept
<1>2. ThreadOK'
    BY <1>0 DEF IInv, ThreadOK
<1>3. StepOK'
    BY <1>0 DEF StepOK, Stepping
<1>4. Alone' => todo = <<>> /\ got = Nothing /\ Fresh /\ Lag
    BY <1>0 DEF IInv, AloneOK, Alone
<1>5. delta \in -5 .. 5
    BY DeltaIs
<1>6. CASE dev' = dev
    <2>1. ControlsOK'
        BY <1>0, <1>6 DEF IInv, ControlsOK, AllValid
    <2>2. Alone' => Lag'
        BY <1>0, <1>4, <1>6, LagStays
    <2>3. AloneOK'
        BY <1>0, <1>4, <2>2 DEF AloneOK, Fresh
    <2> QED BY <1>1, <1>2, <1>3, <2>1, <2>3 DEF IInv
<1>7. ASSUME NEW c \in Steps, read[c] + delta \in 1 .. Limit - 1,
             dev' = [dev EXCEPT ![c] = read[c] + delta]
      PROVE  IInv'
    <2> DEFINE v == read[c] + delta
    <2>1. c \in Controls /\ v \in Int /\ v \in Values(c)
        BY <1>7, FeedbackAssumption DEF Steps, Controls, Values
    <2> HIDE DEF v
    <2>2. dev' = [dev EXCEPT ![c] = v]
        BY <1>7 DEF v
    <2>3. ControlsOK'
        BY <1>0, <2>1, <2>2 DEF IInv, ControlsOK, AllValid
    <2>4. ASSUME Alone' PROVE Lag'
        <3>1. read[c] = dev[c]
            BY <1>0, <1>4, <2>4 DEF Fresh, Steps
        <3>2. Sum(dev)' = Sum(dev) + delta
            <4>1. dev["gain"] \in Int /\ dev["exposure"] \in Int
                BY LagTypes
            <4>2. dev \in [Controls -> Int]
                BY DEF IInv, ControlsOK
            <4>3. v = dev[c] + delta
                BY <3>1 DEF v
            <4> QED BY <1>5, <2>2, <4>1, <4>2, <4>3 DEF Sum, Controls, Steps
        <3> QED BY <1>0, <1>4, <1>5, <2>4, <3>2, LagKept
    <2>5. AloneOK'
        BY <1>0, <1>4, <2>4 DEF AloneOK, Fresh
    <2> QED BY <1>1, <1>2, <1>3, <2>3, <2>5 DEF IInv
<1> QED BY <1>6, <1>7, SetStepIs

\* The thread ends.
LEMMA ThrowIInv == IInv /\ Throw => IInv'
<1> SUFFICES ASSUME IInv, Throw PROVE IInv'
    OBVIOUS
<1>0. /\ pc # "awb" /\ pc' = "threw"
      /\ UNCHANGED <<setting, dev, scene, film, stats, delta, read, gains, curr, todo, got, count>>
    BY DEF Throw, io
<1>1. ControlsOK' /\ RequestsOK'
    BY <1>0, Kept
<1>2. ThreadOK'
    BY <1>0 DEF IInv, ThreadOK
<1>3. StepOK'
    BY <1>0 DEF StepOK, Stepping
<1>4. Alone' => todo = <<>> /\ got = Nothing /\ Lag
    BY <1>0 DEF IInv, AloneOK, Alone
<1>5. Alone' => Lag'
    BY <1>0, <1>4, LagStays
<1>6. AloneOK'
    BY <1>0, <1>4, <1>5 DEF AloneOK, Fresh
<1> QED BY <1>1, <1>2, <1>3, <1>6 DEF IInv

\* The balances are set, and the buffer goes back.
LEMMA BalanceIInv == IInv /\ Balance => IInv'
<1> SUFFICES ASSUME IInv, Balance PROVE IInv'
    OBVIOUS
<1> DEFINE want == Head(stats).gains
<1>0. /\ pc = "awb" /\ pc' = "idle" /\ stats' = Tail(stats)
      /\ UNCHANGED <<setting, scene, film, delta, read, curr, todo, got, count>>
      /\ gains' = want \/ gains' = gains
      /\ \/ dev' = dev
         \/ \E r \in Balances(want.red), b \in Balances(want.blue) :
              dev' = [dev EXCEPT !["red"] = r, !["blue"] = b]
    BY DEF Balance, io
<1>1. /\ stats # <<>> /\ stats \in Seq(Stat) /\ Len(stats) \in Nat /\ Len(stats) > 0
      /\ want \in [Colours -> Ratio]
    BY <1>0, HeadOfStats DEF IInv, ThreadOK
<1> HIDE DEF want
<1>2. RequestsOK'
    BY <1>0, Kept
<1>3. /\ stats' \in Seq(Stat) /\ Len(stats') = Len(stats) - 1
      /\ \A i \in 1 .. Len(stats') : stats'[i] = stats[i + 1] /\ i + 1 \in 1 .. Len(stats)
    BY <1>0, <1>1
<1>4. ThreadOK'
    <2>1. Len(stats) <= StatBufs /\ StatBufs \in Nat
        BY FeedbackAssumption DEF IInv, ThreadOK
    <2>2. stats' \in Seq(Stat) /\ Len(stats') <= StatBufs
        BY <1>1, <1>3, <2>1
    <2>3. gains' \in [Colours -> Ratio]
        BY <1>0, <1>1 DEF IInv, ThreadOK
    <2> QED BY <1>0, <2>2, <2>3 DEF IInv, ThreadOK
<1>5. StepOK'
    BY <1>0 DEF StepOK, Stepping
<1>6. ControlsOK' /\ \A c \in Steps : dev'[c] = dev[c]
    <2>1. CASE dev' = dev
        BY <1>0, <2>1 DEF IInv, ControlsOK, AllValid
    <2>2. ASSUME NEW r \in Balances(want.red), NEW b \in Balances(want.blue),
                 dev' = [dev EXCEPT !["red"] = r, !["blue"] = b]
          PROVE  ControlsOK' /\ \A c \in Steps : dev'[c] = dev[c]
        <3>1. Most \in Nat
            BY FeedbackAssumption
        <3>2. \A g \in Ratio : Balances(g) \subseteq 0 .. Most
            BY <3>1 DEF Balances, Ratio, Inf, NaN
        <3>3. want.red \in Ratio /\ want.blue \in Ratio
            BY <1>1 DEF Colours
        <3>4. r \in 0 .. Most /\ b \in 0 .. Most
            BY <3>2, <3>3
        <3>5. Values("red") = 0 .. Most /\ Values("blue") = 0 .. Most
            BY DEF Values
        <3>6. dev \in [Controls -> Int] /\ \A c \in Controls : dev[c] \in Values(c)
            BY DEF IInv, ControlsOK
        <3>7. dev' \in [Controls -> Int] /\ \A c \in Controls : dev'[c] \in Values(c)
            <4>1. r \in Int /\ b \in Int /\ r \in Values("red") /\ b \in Values("blue")
                BY <3>1, <3>4, <3>5
            <4>2. dev' \in [Controls -> Int]
                BY <2>2, <3>6, <4>1
            <4>3. ASSUME NEW c \in Controls PROVE dev'[c] \in Values(c)
                <5>1. CASE c = "red"
                    BY <2>2, <3>6, <4>1, <5>1 DEF Controls
                <5>2. CASE c = "blue"
                    BY <2>2, <3>6, <4>1, <5>2 DEF Controls
                <5>3. CASE c \notin Colours
                    BY <2>2, <3>6, <5>3 DEF Colours
                <5> QED BY <5>1, <5>2, <5>3 DEF Colours
            <4> QED BY <4>2, <4>3
        <3>8. \A c \in Steps : dev'[c] = dev[c]
            BY <2>2, <3>6 DEF Controls, Steps
        <3> QED BY <1>0, <3>7, <3>8 DEF IInv, ControlsOK, AllValid
    <2> QED BY <1>0, <2>1, <2>2
<1>7. ASSUME Alone' PROVE (todo = <<>> /\ got = Nothing /\ Fresh /\ Lag)'
    <2>1. todo = <<>> /\ got = Nothing /\ Lag
        BY <1>0, <1>7 DEF IInv, AloneOK, Alone
    <2>2. Sum(dev)' = Sum(dev)
        BY <1>6 DEF Sum, Steps
    <2>3. \A i \in Int : Ago(i)' = Ago(i + 1)
        BY <1>0, LagTypes DEF Ago, Bufs
    <2>5. ASSUME NEW p, NEW i \in Int, Behind(p, i + 1)
          PROVE  /\ Dark(p.level) => Sum(dev)' - 5 * Ago(i)' < Bottom
                 /\ Bright(p.level) => Sum(dev)' + 5 * Ago(i)' >= Top
        BY <2>2, <2>3, <2>5 DEF Behind
    <2>6. ASSUME NEW i \in 1 .. Len(stats') PROVE Behind(stats[i], i)'
        <3>1. stats'[i] = stats[i + 1] /\ i + 1 \in 1 .. Len(stats) /\ i \in Int
            BY <1>3
        <3>2. Behind(stats[i + 1], i + 1)
            BY <2>1, <3>1 DEF Lag
        <3> QED BY <1>0, <2>5, <3>1, <3>2 DEF Behind, Dark, Bright, Bottom, Top
    <2>7. ASSUME NEW i \in 1 .. Len(film) PROVE Behind(film[i], Len(stats) + i)'
        <3>1. /\ (Len(stats) + i)' = Len(stats') + i /\ Len(stats') + i \in Int
              /\ (Len(stats') + i) + 1 = Len(stats) + i
            BY <1>1, <1>3
        <3>2. Behind(film[i], (Len(stats') + i) + 1)
            BY <2>1, <3>1 DEF Lag
        <3> QED BY <1>0, <2>5, <3>1, <3>2 DEF Behind, Dark, Bright, Bottom, Top
    <2>4. Lag'
        BY <1>0, <2>6, <2>7 DEF Lag
    <2> QED BY <1>0, <2>1, <2>4 DEF Fresh
<1> QED BY <1>2, <1>4, <1>5, <1>6, <1>7 DEF IInv, AloneOK

\* The invariant is inductive.
LEMMA NextIInv == IInv /\ [Next]_vars => IInv'
<1> SUFFICES ASSUME IInv, [Next]_vars PROVE IInv'
    OBVIOUS
<1>1. CASE TakePicture \/ Measure
    BY <1>1, TakePictureIInv, MeasureIInv
<1>2. ASSUME NEW s \in setting.scenes, SceneChanges(s) PROVE IInv'
    BY <1>2, SceneChangesIInv
<1>3. CASE ThreadStep
    BY <1>3, ProcessStatsIInv, GetExposureAndGainIInv, SetStepIInv, BalanceIInv DEF ThreadStep
<1>4. CASE Throw
    BY <1>4, ThrowIInv
<1>5. CASE RequestStep
    <2>1. ASSUME NEW device \in setting.devices,
                 GetCtrls(device) \/ \E posts \in setting.posts : SetCtrls(device, posts)
          PROVE  IInv'
        BY <2>1, ClientIInv
    <2> QED BY <1>5, <2>1, GetIoctlIInv, SetIoctlIInv, StoreCurrentIInv, RequestThrowsIInv
            DEF RequestStep
<1>6. CASE UNCHANGED vars
    BY <1>6, Kept DEF vars, thread, io, IInv
<1> QED BY <1>1, <1>2, <1>3, <1>4, <1>5, <1>6 DEF Next

LEMMA Invariance == Spec => []IInv
BY InitIInv, NextIInv, PTL DEF Spec

-----------------------------------------------------------------------------
(***************************************************************************)
(* Theorems                                                                *)
(***************************************************************************)

\* Gain, exposure and balances stay in the ranges of their controls, and so does what the
\* Devices and the thread take them for, whatever clients send and however the steps of
\* the two threads interleave.
THEOREM FeedbackTypeCorrect == Spec => []TypeOK
<1>1. IInv => TypeOK
    <2> SUFFICES ASSUME IInv PROVE TypeOK
        OBVIOUS
    <2>1. /\ setting \in Settings /\ scene \in setting.scenes
          /\ \A c \in Controls : dev[c] \in Values(c) /\ Signed(curr[c]) \in Values(c)
          /\ \A c \in {"exposure", "gain"} : Signed(read[c]) \in Values(c)
        BY DEF IInv, ControlsOK, AllValid, Steps
    <2>2. /\ stats \in Seq(Stat) /\ Len(stats) <= StatBufs
          /\ film \in Seq(Stat) /\ Len(film) <= FrameBufs
        BY DEF IInv, ThreadOK
    <2>3. /\ \A i \in 1 .. Len(stats) : stats[i].level \in Bin
          /\ \A i \in 1 .. Len(film) : film[i].level \in Bin
        <3>1. /\ \A i \in 1 .. Len(stats) : stats[i] \in Stat
              /\ \A i \in 1 .. Len(film) : film[i] \in Stat
            BY <2>2, ElementOfSeq
        <3> QED BY <3>1 DEF Stat
    <2>4. /\ pc \in {"idle", "exposure", "copy exposure", "gain", "copy gain", "write", "awb",
                     "threw"}
          /\ delta \in {-5, 0, 5} /\ gains \in [Colours -> Ratio]
        BY DEF IInv, ThreadOK
    <2>5. got # Nothing => got.control \in Controls /\ Signed(got.value) \in Values(got.control)
        BY DEF IInv, RequestsOK
    <2> QED BY <2>1, <2>2, <2>3, <2>4, <2>5 DEF TypeOK, Colours, Ratio
<1> QED BY <1>1, Invariance, PTL

\* What a client sends back as it was told, as a word in an int64_t, the driver takes for
\* the value that it has.
THEOREM EchoesKeep == Spec => EchoKeeps
<1> DEFINE Echo ==
             \A c \in Controls :
                 SetIoctl /\ Head(todo).control = c /\ Head(todo).value = curr[c]
                          /\ Signed(curr[c]) = dev[c] => dev' = dev
<1>1. IInv => Echo
    <2> SUFFICES ASSUME IInv, NEW c \in Controls, SetIoctl,
                        Head(todo).control = c, Head(todo).value = curr[c],
                        Signed(curr[c]) = dev[c]
                 PROVE  dev' = dev
        OBVIOUS
    <2>1. dev' = [dev EXCEPT ![c] = InRange(c, dev[c])]
        BY DEF SetIoctl
    <2>2. dev[c] \in Values(c) /\ dev[c] \in Int /\ dev \in [Controls -> Int]
        BY DEF IInv, ControlsOK
    <2>3. InRange(c, dev[c]) = dev[c]
        BY <2>2, InRangeIs
    <2> QED BY <2>1, <2>2, <2>3
<1>2. IInv /\ [Next]_vars => [Echo]_vars
    BY <1>1
<1> QED BY <1>2, Invariance, PTL DEF Spec, EchoKeeps

\* Alone with camera and scene, the exposure control does not carry a dark picture into
\* brightness, or the reverse, if as many steps as bridge and stream have buffers move the
\* picture by no more than lies between dark and bright.  Each step rests on a picture that is at most
\* that old.
THEOREM NeverOvershoots ==
    ASSUME 5 * (StatBufs + FrameBufs) <= 11 * Unit
    PROVE  Spec => StepsNeverOvershoot
<1> DEFINE Stops ==
             pc = "write" /\ pc' = "awb" /\ count.requests = 0 /\ count.scenes = 0 =>
               /\ delta > 0 => ~Bright(Level(dev', scene.light)) \/ dev' = dev
               /\ delta < 0 => ~Dark(Level(dev', scene.light)) \/ dev' = dev
<1>1. ASSUME IInv, IInv', SetStep, Alone, dev' # dev PROVE Stops
    <2>1. /\ pc = "write" /\ UNCHANGED scene
          /\ \E c \in Steps : dev' = [dev EXCEPT ![c] = read[c] + delta]
        BY <1>1, SetStepIs
    <2>2. PICK c \in Steps : dev' = [dev EXCEPT ![c] = read[c] + delta]
        BY <2>1
    <2>3. Fresh /\ Lag /\ StepOK /\ stats # <<>>
        BY <1>1, <2>1 DEF IInv, AloneOK, ThreadOK
    <2>4. read[c] = dev[c]
        BY <2>1, <2>3 DEF Fresh, Steps
    <2> DEFINE sum == Sum(dev)
               new == Sum(dev')
    <2>5. delta \in -5 .. 5 /\ delta \in Int /\ Bufs \in Nat /\ Unit \in Nat
        BY <1>1, DeltaIs, LagTypes
    <2>6. sum \in Int /\ Bottom \in Int /\ Top \in Int /\ Top = Bottom + 11 * Unit
        BY <1>1, LagTypes
    <2>7. new = sum + delta
        <3>1. dev["gain"] \in Int /\ dev["exposure"] \in Int /\ dev \in [Controls -> Int]
            BY <1>1, LagTypes DEF IInv, ControlsOK
        <3> QED BY <2>2, <2>4, <2>5, <3>1 DEF Sum, Controls, Steps
    <2>8. dev' \in [Controls -> Int] /\ scene.light \in Int
        <3>1. scene \in [light : Int, red : Nat, green : Nat, blue : Nat]
            BY <1>1, SettingIs DEF IInv, ControlsOK
        <3> QED BY <1>1, <3>1 DEF IInv, ControlsOK
    <2>9. /\ Dark(Level(dev', scene.light)) <=> new < Bottom
          /\ Bright(Level(dev', scene.light)) <=> new >= Top
        BY <2>8, LevelIs DEF Bottom, Top
    <2>10. Head(stats) = stats[1] /\ 1 \in 1 .. Len(stats)
        BY <1>1, <2>3, HeadOfStats
    <2>11. Ago(1) = Bufs - 1
        BY <2>1 DEF Ago
    <2> HIDE DEF sum, new
    <2>12. ASSUME delta > 0 PROVE ~Bright(Level(dev', scene.light))
        <3>1. sum - 5 * (Bufs - 1) < Bottom
            BY <2>1, <2>3, <2>10, <2>11, <2>12 DEF StepOK, Stepping, Lag, Behind, sum
        <3> QED BY <2>5, <2>6, <2>7, <2>9, <3>1 DEF Bufs
    <2>13. ASSUME delta < 0 PROVE ~Dark(Level(dev', scene.light))
        <3>1. sum + 5 * (Bufs - 1) >= Top
            BY <2>1, <2>3, <2>10, <2>11, <2>13 DEF StepOK, Stepping, Lag, Behind, sum
        <3> QED BY <2>5, <2>6, <2>7, <2>9, <3>1 DEF Bufs
    <2> QED BY <2>12, <2>13
<1>2. ASSUME IInv, IInv', [Next]_vars PROVE [Stops]_vars
    <2>1. CASE ~ (pc = "write" /\ pc' = "awb" /\ Alone /\ dev' # dev)
        BY <2>1 DEF Alone
    <2>2. CASE pc = "write" /\ pc' = "awb" /\ Alone /\ dev' # dev
        <3>1. SetStep
            BY <1>2, <2>2 DEF Next, TakePicture, Measure, SceneChanges, ThreadStep, ProcessStats, Balance,
               GetExposureAndGain, Update, Copy, Throw, RequestStep, GetCtrls, SetCtrls, Request,
               GetIoctl, SetIoctl, StoreCurrent, RequestThrows, vars, thread, io
        <3> QED BY <1>1, <1>2, <2>2, <3>1
    <2> QED BY <2>1, <2>2
<1> QED BY <1>2, NextIInv, Invariance, PTL DEF Spec, StepsNeverOvershoot

=============================================================================
