------------------------------- MODULE Metrics -------------------------------
(***************************************************************************)
(* The counters of the bridges and streams (libs/metrics/src/metrics.cpp)  *)
(* and GET /metrics, which reports them every second                       *)
(* (v4l2-stream/src/metrics.cpp).                                          *)
(*                                                                         *)
(* Counters are made on the io thread, when a request loads a pipeline.  A *)
(* report starts there too, except after a pause: the event resumes the    *)
(* coroutine on the thread that sets it, so Report then walks metrics_ on  *)
(* a detached timer thread, without mutex_, beside a RegisterMetric.  What *)
(* comes of that is undefined: the report lacks counters, or the program   *)
(* ends.  The next write brings the coroutine back to the io thread.       *)
(*                                                                         *)
(* The sessions of the other routes run on the io thread too, and block it *)
(* in Pipeline::Next: for ever, if the pipeline thread threw.              *)
(***************************************************************************)
EXTENDS Naturals

CONSTANTS
    Names,      \* of the counters that the pipeline asks for
    Clients     \* of /metrics

ASSUME ClientsAssumption == {"idle", "load", "session"} \cap Clients = {}

VARIABLES
    io,         \* what the io thread is in: "idle", "load", "session" or a client's coroutine
    todo,       \* the names that LoadPipeline has yet to ask for
    making,     \* the names registered and not yet in the map: at most one
    counters,   \* the names in GetCounter's map
    metrics,    \* metrics_: how many counters of each name
    place,      \* where each client's coroutine is
    view,       \* metrics_ as it was when the client's last Report began
    report,     \* the names in the last report that a client was sent
    timers,     \* the clients whose timer thread has yet to set their event
    set,        \* the clients whose event is set
    crashed     \* the program ended

loading == <<todo, making, counters, metrics>>
clients == <<place, view, report, timers, set>>
vars == <<io, loading, clients, crashed>>

Goto(c, p) == place' = [place EXCEPT ![c] = p]
Registered(m) == {n \in Names : m[n] > 0}

\* Places at which a coroutine waits for a part to be written.
Writing == {"status", "headers", "data", "event"}

TypeOK ==
    /\ io \in {"idle", "load", "session"} \cup Clients
    /\ todo \subseteq Names /\ making \subseteq Names /\ counters \subseteq Names
    /\ metrics \in [Names -> 0 .. 1]
    /\ place \in [Clients -> Writing \cup {"absent", "armed", "waiting", "reporting"}]
    /\ view \in [Clients -> [Names -> 0 .. 1]]
    /\ report \in [Clients -> SUBSET Names]
    /\ timers \subseteq Clients /\ set \subseteq Clients /\ crashed \in BOOLEAN

Init ==
    /\ io = "idle" /\ todo = {} /\ making = {} /\ counters = {} /\ crashed = FALSE
    /\ metrics = [n \in Names |-> 0]
    /\ place = [c \in Clients |-> "absent"] /\ timers = {} /\ set = {}
    /\ view = [c \in Clients |-> metrics] /\ report = [c \in Clients |-> {}]

-----------------------------------------------------------------------------
(***************************************************************************)
(* Counter::GetCounter, called by the constructors in LoadPipeline         *)
(***************************************************************************)
Load ==
    /\ io = "idle" /\ io' = "load"
    /\ todo' = Names
    /\ UNCHANGED <<making, counters, metrics, clients, crashed>>

\* The counter is in the map.
Find(n) ==
    /\ io = "load" /\ making = {} /\ n \in todo \cap counters
    /\ todo' = todo \ {n}
    /\ UNCHANGED <<io, making, counters, metrics, clients, crashed>>

\* Mutant: the map is not looked at.
RegisterAlways(n) ==
    /\ io = "load" /\ making = {} /\ n \in todo /\ metrics[n] < 2
    /\ metrics' = [metrics EXCEPT ![n] = @ + 1] /\ making' = {n}
    /\ UNCHANGED <<io, todo, counters, clients, crashed>>

\* RegisterMetric appends to the vector that other threads may be walking...
Register(n) ==
    /\ io = "load" /\ making = {} /\ n \in todo \ counters
    /\ metrics' = [metrics EXCEPT ![n] = @ + 1] /\ making' = {n}
    /\ UNCHANGED <<io, todo, counters, clients, crashed>>

\* ...before the counter goes into the map.
Emplace(n) ==
    /\ making = {n}
    /\ counters' = counters \cup {n} /\ todo' = todo \ {n} /\ making' = {}
    /\ UNCHANGED <<io, metrics, clients, crashed>>

\* The pipeline is complete, or loading it throws: between two counters, since each
\* belongs to a bridge or a stream of its own.
LoadEnds ==
    /\ io = "load" /\ making = {}
    /\ io' = "idle" /\ todo' = {}
    /\ UNCHANGED <<making, counters, metrics, clients, crashed>>

(***************************************************************************)
(* Handler::Handle                                                         *)
(***************************************************************************)
Connect(c) ==
    /\ io = "idle" /\ place[c] = "absent"
    /\ Goto(c, "status")
    /\ UNCHANGED <<io, loading, view, report, timers, set, crashed>>

\* A whole Report on the io thread, which nothing there can interrupt.
ReportOnIo(c) ==
    /\ Goto(c, "data")
    /\ view' = [view EXCEPT ![c] = metrics]
    /\ report' = [report EXCEPT ![c] = Registered(metrics)]

\* A part was written: the coroutine goes on to the next.
Written(c) ==
    /\ io = "idle"
    /\ \/ place[c] = "status" /\ Goto(c, "headers") /\ UNCHANGED <<view, report>>
       \/ place[c] = "headers" /\ ReportOnIo(c)
       \/ place[c] = "data" /\ Goto(c, "event") /\ UNCHANGED <<view, report>>
    /\ UNCHANGED <<io, loading, timers, set, crashed>>

\* Mutant: one timer thread serves whoever waits.
StartTimerOnce(c) ==
    /\ io = "idle" /\ place[c] = "event" /\ io' = c
    /\ Goto(c, "armed")
    /\ timers' = IF timers = {} THEN {c} ELSE timers
    /\ set' = set \ {c}
    /\ UNCHANGED <<loading, view, report, crashed>>

\* A new event, and the thread that will set it.
StartTimer(c) ==
    /\ io = "idle" /\ place[c] = "event" /\ io' = c
    /\ Goto(c, "armed")
    /\ timers' = timers \cup {c} /\ set' = set \ {c}
    /\ UNCHANGED <<loading, view, report, crashed>>

\* Mutant: the coroutine goes on without waiting for the event.
AwaitNot(c) ==
    /\ io = c /\ io' = "idle"
    /\ ReportOnIo(c)
    /\ UNCHANGED <<loading, timers, set, crashed>>

\* co_await suspends the coroutine, unless the event is set by now.
Await(c) ==
    /\ io = c /\ io' = "idle"
    /\ IF c \in set THEN ReportOnIo(c) ELSE Goto(c, "waiting") /\ UNCHANGED <<view, report>>
    /\ UNCHANGED <<loading, timers, set, crashed>>

\* event.set(): the timer thread goes on with a coroutine that waits, and begins to
\* walk metrics_.
Fire(c) ==
    /\ c \in timers
    /\ timers' = timers \ {c} /\ set' = set \cup {c}
    /\ IF place[c] = "waiting"
         THEN Goto(c, "reporting") /\ view' = [view EXCEPT ![c] = metrics]
         ELSE UNCHANGED <<place, view>>
    /\ UNCHANGED <<io, loading, report, crashed>>

\* Report comes to its end.  If the vector changed meanwhile, it may have read what was
\* freed, or missed what is new.
EndReport(c) ==
    /\ place[c] = "reporting"
    /\ \/ /\ view[c] = metrics
          /\ report' = [report EXCEPT ![c] = Registered(metrics)]
          /\ Goto(c, "data") /\ UNCHANGED crashed
       \/ /\ view[c] # metrics
          /\ \E names \in SUBSET Registered(metrics) : report' = [report EXCEPT ![c] = names]
          /\ Goto(c, "data") /\ UNCHANGED crashed
       \/ view[c] # metrics /\ crashed' = TRUE /\ UNCHANGED <<place, report>>
    /\ UNCHANGED <<io, loading, view, timers, set>>

\* A part could not be written: the server destroys the coroutine.
Disconnect(c) ==
    /\ io = "idle" /\ place[c] \in Writing
    /\ Goto(c, "absent")
    /\ UNCHANGED <<io, loading, view, report, timers, set, crashed>>

(***************************************************************************)
(* The handlers of /snapshot and /stream                                   *)
(***************************************************************************)

\* A session waits in Next for a frame...
SessionWaits ==
    /\ io = "idle" /\ io' = "session"
    /\ UNCHANGED <<loading, clients, crashed>>

\* ...until its pipeline thread sends one, if it ever does.
SessionGoesOn ==
    /\ io = "session" /\ io' = "idle"
    /\ UNCHANGED <<loading, clients, crashed>>

LoadStep == \E n \in Names : Find(n) \/ Register(n) \/ Emplace(n)
TimerStep(c) == Fire(c) \/ EndReport(c)

Next ==
    /\ ~crashed
    /\ \/ Load \/ LoadStep \/ LoadEnds \/ SessionWaits \/ SessionGoesOn
       \/ \E c \in Clients :
            Connect(c) \/ Written(c) \/ StartTimer(c) \/ Await(c) \/ TimerStep(c) \/ Disconnect(c)

Spec == Init /\ [][Next]_vars

\* The threads are scheduled, and a write succeeds or fails.  An io thread that becomes idle
\* again and again serves loads, sessions and clients in turns, so that the one whose part
\* was written is not passed over for ever.  Nothing says that a session's Next returns.
Fairness ==
    /\ WF_vars(~crashed /\ (LoadStep \/ LoadEnds))
    /\ \A c \in Clients :
        /\ WF_vars(~crashed /\ Await(c)) /\ WF_vars(~crashed /\ TimerStep(c))
        /\ SF_vars(~crashed /\ (Written(c) \/ StartTimer(c) \/ Disconnect(c)))

FairSpec == Spec /\ Fairness

-----------------------------------------------------------------------------
(***************************************************************************)
(* Properties                                                              *)
(***************************************************************************)

\* However often pipelines are loaded or fail to load, each name has one counter, which
\* all bridges and streams of that name share and a report shows once.
OneCounterPerName ==
    \A n \in Names : metrics[n] = IF n \in counters \cup making THEN 1 ELSE 0

\* What a timer thread sets is the event of a coroutine that is still there, in the very
\* iteration that started it.
TimerHasEvent == \A c \in timers : place[c] \in {"armed", "waiting"}

\* A Report that begins when every counter is known is whole, whatever is loaded
\* meanwhile...
ReportsAreWhole ==
    \A c \in Clients : place[c] = "data" /\ Registered(view[c]) = Names => report[c] = Names

\* ...and only one that began before can end the program.
OnlyEarlyReportsCrash ==
    crashed => \E c \in Clients : place[c] = "reporting" /\ Registered(view[c]) # Names

\* So the race of Report with a registration is confined to reports that begin early.
LateReportsWhole == ReportsAreWhole /\ OnlyEarlyReportsCrash

\* A session waits in Next for ever, and nobody else is served.
IoBlocked == <>[](io = "session")

\* A client that stays gets its next report, unless a session has blocked the io thread.
ReportsGoOn ==
    IoBlocked \/ \A c \in Clients : place[c] = "event" ~> place[c] \in {"data", "absent"} \/ crashed

=============================================================================
