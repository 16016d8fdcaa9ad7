---------------------------- MODULE MetricsProofs ----------------------------
(***************************************************************************)
(* Proofs about Metrics, for any counters and any number of clients.       *)
(***************************************************************************)
EXTENDS Metrics, TLAPS

\* metrics_ only grows, so a Report that began when it was full sees it as it is.
Grown == \A c \in Clients, n \in Names : view[c][n] <= metrics[n]

\* The io thread is in a coroutine only from the start of its timer to the co_await.
IoInArmed == \A c \in Clients : io = c => place[c] = "armed"

\* An event is set by its timer thread, which ends with that.
SetByTimer == timers \cap set = {}

IInv ==
    /\ TypeOK /\ OneCounterPerName /\ TimerHasEvent /\ ReportsAreWhole
    /\ OnlyEarlyReportsCrash /\ Grown /\ IoInArmed /\ SetByTimer

USE DEF Writing

LEMMA InitIInv == Init => IInv
<1>. SUFFICES ASSUME Init  PROVE IInv
  OBVIOUS
<1>. USE DEF Init
<1>1. TypeOK
  <2>1. metrics \in [Names -> 0 .. 1]  OBVIOUS
  <2>2. view \in [Clients -> [Names -> 0 .. 1]]  BY <2>1
  <2>. QED  BY <2>1, <2>2 DEF TypeOK
<1>2. OneCounterPerName /\ Grown  BY DEF OneCounterPerName, Grown
<1>3. IoInArmed  BY ClientsAssumption DEF IoInArmed
<1>. QED  BY <1>1, <1>2, <1>3 DEF IInv, TimerHasEvent, ReportsAreWhole, OnlyEarlyReportsCrash,
          SetByTimer

\* A vector that holds as much as a full one is that one.
LEMMA FullIsEqual ==
    ASSUME NEW m \in [Names -> 0 .. 1], NEW v \in [Names -> 0 .. 1],
           \A n \in Names : v[n] <= m[n], Registered(v) = Names
    PROVE  v = m
<1>1. ASSUME NEW n \in Names  PROVE v[n] = m[n]
  <2>1. n \in Registered(v)  OBVIOUS
  <2>2. v[n] > 0  BY <2>1 DEF Registered
  <2>3. v[n] \in 0 .. 1 /\ m[n] \in 0 .. 1 /\ v[n] <= m[n]  OBVIOUS
  <2>. QED  BY <2>2, <2>3
<1>. QED  BY <1>1

\* A report on the io thread is made in one piece.
LEMMA ReportOnIoIInv ==
    ASSUME TypeOK, Grown, ReportsAreWhole, NEW c \in Clients, ReportOnIo(c), UNCHANGED metrics
    PROVE  /\ place' \in [Clients -> Writing \cup {"absent", "armed", "waiting", "reporting"}]
           /\ view' \in [Clients -> [Names -> 0 .. 1]] /\ report' \in [Clients -> SUBSET Names]
           /\ Grown' /\ ReportsAreWhole'
<1>. USE DEF ReportOnIo, Goto, TypeOK
<1>1. Grown'  BY DEF Grown
<1>2. ReportsAreWhole'  BY DEF ReportsAreWhole, Registered
<1>. QED  BY <1>1, <1>2 DEF Registered

\* Steps of the io thread in LoadPipeline.
LEMMA LoadIInv == IInv /\ ~crashed /\ (Load \/ LoadStep \/ LoadEnds) => IInv'
<1>. SUFFICES ASSUME IInv, ~crashed, Load \/ LoadStep \/ LoadEnds  PROVE IInv'
  OBVIOUS
<1>. USE ClientsAssumption DEF IInv, TypeOK, clients
<1>1. ASSUME Load \/ LoadEnds \/ \E n \in Names : Find(n)  PROVE IInv'
  BY <1>1 DEF Load, LoadEnds, Find, OneCounterPerName, TimerHasEvent, ReportsAreWhole, Registered,
     OnlyEarlyReportsCrash, Grown, IoInArmed, SetByTimer
<1>2. ASSUME NEW n \in Names, Register(n)  PROVE IInv'
  <2>. USE <1>2 DEF Register
  <2>1. metrics[n] = 0  BY DEF OneCounterPerName
  <2>2. metrics' = [metrics EXCEPT ![n] = 1]  BY <2>1
  <2>3. TypeOK'  BY <2>2
  <2>4. OneCounterPerName'  BY <2>2 DEF OneCounterPerName
  <2>5. Grown'  BY <2>1, <2>2 DEF Grown
  <2>. QED  BY <2>3, <2>4, <2>5 DEF TimerHasEvent, ReportsAreWhole, OnlyEarlyReportsCrash, Registered,
            IoInArmed, SetByTimer
<1>3. ASSUME NEW n \in Names, Emplace(n)  PROVE IInv'
  BY <1>3 DEF Emplace, OneCounterPerName, TimerHasEvent, ReportsAreWhole, Registered,
     OnlyEarlyReportsCrash, Grown, IoInArmed, SetByTimer
<1>. QED  BY <1>1, <1>2, <1>3 DEF LoadStep

\* A session takes the io thread, or gives it back.
LEMMA SessionIInv == IInv /\ (SessionWaits \/ SessionGoesOn) => IInv'
<1>. SUFFICES ASSUME IInv, SessionWaits \/ SessionGoesOn  PROVE IInv'
  OBVIOUS
<1>. QED  BY ClientsAssumption DEF SessionWaits, SessionGoesOn, IInv, TypeOK, loading, clients,
          OneCounterPerName, TimerHasEvent, ReportsAreWhole, Registered, OnlyEarlyReportsCrash,
          Grown, IoInArmed, SetByTimer

\* Steps of the io thread in a client's coroutine, and the end of one.
LEMMA ClientIInv ==
    ASSUME IInv, ~crashed, NEW c \in Clients,
           Connect(c) \/ Written(c) \/ StartTimer(c) \/ Await(c) \/ Disconnect(c)
    PROVE  IInv'
<1>. USE ClientsAssumption DEF IInv, TypeOK, loading, Goto
<1>1. CASE Connect(c) \/ Disconnect(c)
  <2>. USE <1>1 DEF Connect, Disconnect
  <2>1. TypeOK' /\ OneCounterPerName' /\ Grown'  BY DEF OneCounterPerName, Grown
  <2>2. ReportsAreWhole'  BY DEF ReportsAreWhole, Registered
  <2>3. TimerHasEvent' /\ SetByTimer'  BY DEF TimerHasEvent, SetByTimer
  <2>4. IoInArmed' /\ OnlyEarlyReportsCrash'  BY DEF IoInArmed, OnlyEarlyReportsCrash
  <2>. QED  BY <2>1, <2>2, <2>3, <2>4
<1>2. CASE Written(c)
  <2>1. CASE place[c] = "headers" /\ ReportOnIo(c)
    <3>1. /\ TypeOK' /\ Grown' /\ ReportsAreWhole'
      BY <1>2, <2>1, ReportOnIoIInv DEF Written
    <3>. QED  BY <1>2, <2>1, <3>1 DEF Written, ReportOnIo, OneCounterPerName, TimerHasEvent,
              OnlyEarlyReportsCrash, IoInArmed, SetByTimer
  <2>2. CASE ~(place[c] = "headers")
    BY <1>2, <2>2 DEF Written, OneCounterPerName, TimerHasEvent, ReportsAreWhole, Registered,
       OnlyEarlyReportsCrash, Grown, IoInArmed, SetByTimer
  <2>. QED  BY <1>2, <2>1, <2>2 DEF Written
<1>3. CASE StartTimer(c)
  BY <1>3 DEF StartTimer, OneCounterPerName, TimerHasEvent, ReportsAreWhole, Registered,
     OnlyEarlyReportsCrash, Grown, IoInArmed, SetByTimer
<1>4. CASE Await(c)
  <2>. USE <1>4 DEF Await
  <2>1. CASE c \in set
    <3>1. /\ TypeOK' /\ Grown' /\ ReportsAreWhole'
      BY <2>1, ReportOnIoIInv
    <3>. QED  BY <2>1, <3>1 DEF ReportOnIo, OneCounterPerName, TimerHasEvent,
              OnlyEarlyReportsCrash, IoInArmed, SetByTimer
  <2>2. CASE c \notin set
    BY <2>2 DEF OneCounterPerName, TimerHasEvent, ReportsAreWhole, Registered,
       OnlyEarlyReportsCrash, Grown, IoInArmed, SetByTimer
  <2>. QED  BY <2>1, <2>2
<1>. QED  BY <1>1, <1>2, <1>3, <1>4

\* Steps of a timer thread.
LEMMA TimerIInv == ASSUME IInv, ~crashed, NEW c \in Clients, TimerStep(c)  PROVE IInv'
<1>. USE ClientsAssumption DEF IInv, TypeOK, loading, Goto
<1>1. CASE Fire(c)
  <2>. USE <1>1 DEF Fire
  <2>1. TypeOK' /\ OneCounterPerName'  BY DEF OneCounterPerName
  <2>2. Grown'  BY DEF Grown
  <2>3. ReportsAreWhole'  BY DEF ReportsAreWhole, Registered
  <2>4. TimerHasEvent' /\ SetByTimer'  BY DEF TimerHasEvent, SetByTimer
  <2>5. IoInArmed' /\ OnlyEarlyReportsCrash'  BY DEF IoInArmed, OnlyEarlyReportsCrash
  <2>. QED  BY <2>1, <2>2, <2>3, <2>4, <2>5
<1>2. CASE EndReport(c)
  <2>. USE <1>2 DEF EndReport
  <2>1. Registered(metrics) \subseteq Names  BY DEF Registered
  <2>2. Registered(view[c]) = Names => view[c] = metrics  BY FullIsEqual DEF Grown
  <2>3. TypeOK'
    <3>1. report' \in [Clients -> SUBSET Names]  BY <2>1
    <3>2. place' \in [Clients -> Writing \cup {"absent", "armed", "waiting", "reporting"}]
      OBVIOUS
    <3>. QED  BY <3>1, <3>2
  <2>4. ReportsAreWhole'  BY <2>2 DEF ReportsAreWhole
  <2>5. OnlyEarlyReportsCrash'  BY <2>2 DEF OnlyEarlyReportsCrash
  <2>. QED  BY <2>3, <2>4, <2>5 DEF Grown, OneCounterPerName, TimerHasEvent, IoInArmed, SetByTimer
<1>. QED  BY <1>1, <1>2 DEF TimerStep

LEMMA NextIInv == IInv /\ [Next]_vars => IInv'
<1>. SUFFICES ASSUME IInv, [Next]_vars  PROVE IInv'
  OBVIOUS
<1>1. CASE UNCHANGED vars
  BY <1>1 DEF vars, loading, clients, IInv, TypeOK, OneCounterPerName, TimerHasEvent,
     ReportsAreWhole, OnlyEarlyReportsCrash, Grown, IoInArmed, SetByTimer, Registered
<1>2. CASE Next
  BY <1>2, LoadIInv, SessionIInv, ClientIInv, TimerIInv DEF Next
<1>. QED  BY <1>1, <1>2

\* The invariant holds of every behaviour.
THEOREM SpecIInv == Spec => []IInv
  BY InitIInv, NextIInv, PTL DEF Spec

\* Types; no name is ever registered twice.
THEOREM TypeCorrect == Spec => []TypeOK
<1>1. IInv => TypeOK  BY DEF IInv
<1>. QED  BY SpecIInv, <1>1, PTL

\* Every name has one counter, however loads fail and repeat.
THEOREM OneCounter == Spec => []OneCounterPerName
<1>1. IInv => OneCounterPerName  BY DEF IInv
<1>. QED  BY SpecIInv, <1>1, PTL

\* A timer thread never sets an event that is gone.
THEOREM EventsLive == Spec => []TimerHasEvent
<1>1. IInv => TimerHasEvent  BY DEF IInv
<1>. QED  BY SpecIInv, <1>1, PTL

\* Once every counter is registered, reports beside loads are whole, and do no harm.
THEOREM LateReports == Spec => []LateReportsWhole
<1>1. IInv => LateReportsWhole  BY DEF IInv, LateReportsWhole
<1>. QED  BY SpecIInv, <1>1, PTL

=============================================================================
