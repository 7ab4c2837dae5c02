--------------------------- MODULE ServiceLifecycle ---------------------------
(***************************************************************************)
(* The life of a service process, the same for the basket-service and the  *)
(* catalog-service: main, which starts, serves and shuts down; the         *)
(* readiness monitor, which tells the health server every few seconds      *)
(* whether the database answers; and the requests being served, wrapped    *)
(* in the chain of interceptors.                                           *)
(***************************************************************************)
CONSTANTS
  Services,   \* names registered with the health manager
  Requests    \* calls clients make

\* The whole server is the service with the empty name.
Names == Services \cup {""}

ASSUME ServicesAssumption == "" \notin Services

Statuses == {"SERVING", "NOT_SERVING"}

VARIABLES
  main,         \* next step of main: "start", "serve", "unmark", "health",
                \* "telemetry", "drain" or "exited"
  stopping,     \* main's context is done: a signal came, or stop() was called
  forced,       \* main called Stop
  status,       \* the health server: name -> serving status
  healthDown,   \* the health server has been shut down
  toMark,       \* names main and the monitor have still to set
  monitor,      \* "none", "wait", "check", "mark", "leave" or "done"
  ready,        \* result of the last readiness check
  database,     \* the database answers
  telemetry,    \* the meter provider exports what is recorded
  server,       \* the gRPC server: "new", "open", "draining" or "stopped"
  request,      \* request -> "idle", "running", "answered", "recovered",
                \* "refused" or "cut"
  counted       \* requests recorded in the request metrics

health == <<status, healthDown>>
observed == <<telemetry, counted>>
vars == <<main, stopping, forced, health, toMark, monitor, ready, database,
          observed, server, request>>

Init ==
  /\ main = "start"
  /\ stopping = FALSE
  /\ forced = FALSE
  /\ status = [n \in Names |-> "NOT_SERVING"]
  /\ healthDown = FALSE
  /\ toMark = [who \in {"main", "monitor"} |-> {}]
  /\ monitor = "none"
  /\ ready = FALSE
  /\ database \in BOOLEAN
  /\ telemetry = TRUE
  /\ server = "new"
  /\ request = [r \in Requests |-> "idle"]
  /\ counted = {}

(***************************************************************************)
(* The health manager.  MarkServing and MarkNotServing hold its lock       *)
(* shared: two of them may run at once, and set one name after the other,  *)
(* the whole server first.  A health server that is shut down ignores them.*)
(***************************************************************************)
\* Wrong on purpose: the doubtful status of the health protocol.
StatusOfUnknown(isReady) == IF isReady THEN "SERVING" ELSE "UNKNOWN"

StatusOf(isReady) == IF isReady THEN "SERVING" ELSE "NOT_SERVING"

\* Wrong on purpose: only the whole server is marked.
MarkedWhole(who) == [toMark EXCEPT ![who] = {""}]

Marked(who) == [toMark EXCEPT ![who] = Names]

MarkNext(who, s) ==
  \E n \in toMark[who] :
    /\ "" \in toMark[who] => n = ""
    /\ status' = IF healthDown THEN status ELSE [status EXCEPT ![n] = s]
    /\ toMark' = [toMark EXCEPT ![who] = @ \ {n}]

(***************************************************************************)
(* main.                                                                   *)
(***************************************************************************)
\* Before Serve nobody sees the statuses: they are set at once.
Start ==
  /\ main = "start" /\ database
  /\ main' = "serve"
  /\ status' = [n \in Names |-> "SERVING"]
  /\ ready' = TRUE
  /\ server' = "open"
  /\ monitor' = "wait"
  /\ UNCHANGED <<stopping, forced, healthDown, toMark, database, observed, request>>

\* Not ready, no free port, a bad configuration: os.Exit(1).
StartFails ==
  /\ main = "start"
  /\ main' = "exited"
  /\ UNCHANGED <<stopping, forced, health, toMark, monitor, ready, database,
                 observed, server, request>>

Signal ==
  /\ main # "exited" /\ ~stopping
  /\ stopping' = TRUE
  /\ UNCHANGED <<main, forced, health, toMark, monitor, ready, database,
                 observed, server, request>>

\* main's select; stop() is called when Serve has failed.
SeeStop(serveFailed) ==
  /\ main = "serve"
  /\ stopping \/ serveFailed
  /\ main' = "unmark"
  /\ stopping' = TRUE
  /\ toMark' = Marked("main")
  /\ UNCHANGED <<forced, health, monitor, ready, database, observed, server, request>>

Unmark ==
  /\ main = "unmark"
  /\ MarkNext("main", "NOT_SERVING")
  /\ UNCHANGED <<main, stopping, forced, healthDown, monitor, ready, database,
                 observed, server, request>>

Unmarked ==
  /\ main = "unmark" /\ toMark["main"] = {}
  /\ main' = "health"
  /\ UNCHANGED <<stopping, forced, health, toMark, monitor, ready, database,
                 observed, server, request>>

\* Wrong on purpose: statuses set for the last time, but not for good.
HealthShutdownOpen ==
  /\ main = "health"
  /\ main' = "telemetry"
  /\ status' = [n \in Names |-> "NOT_SERVING"]
  /\ UNCHANGED <<stopping, forced, healthDown, toMark, monitor, ready, database,
                 observed, server, request>>

HealthShutdown ==
  /\ main = "health"
  /\ main' = "telemetry"
  /\ status' = [n \in Names |-> "NOT_SERVING"]
  /\ healthDown' = TRUE
  /\ UNCHANGED <<stopping, forced, toMark, monitor, ready, database, observed,
                 server, request>>

\* Flushed, or given up after its timeout: nothing recorded later is exported.
TelemetryShutdown ==
  /\ main = "telemetry"
  /\ main' = "drain"
  /\ telemetry' = FALSE
  /\ UNCHANGED <<stopping, forced, health, toMark, monitor, ready, database,
                 server, request, counted>>

\* What happens to running requests when their process goes.
CutOff == [r \in Requests |-> IF request[r] = "running" THEN "cut" ELSE request[r]]

\* GracefulStop, in a goroutine of its own: no new calls ...
Drain ==
  /\ main = "drain" /\ server = "open"
  /\ server' = "draining"
  /\ UNCHANGED <<main, stopping, forced, health, toMark, monitor, ready, database,
                 observed, request>>

\* Wrong on purpose: it does not wait for the calls being served.
DrainedEarly ==
  /\ main = "drain" /\ server = "draining"
  /\ server' = "stopped"
  /\ UNCHANGED <<main, stopping, forced, health, toMark, monitor, ready, database,
                 observed, request>>

\* ... and those being served run to their end.
Drained ==
  /\ main = "drain" /\ server = "draining"
  /\ \A r \in Requests : request[r] # "running"
  /\ server' = "stopped"
  /\ UNCHANGED <<main, stopping, forced, health, toMark, monitor, ready, database,
                 observed, request>>

\* main returns: the process ends with whatever it still runs.
Exit ==
  /\ main = "drain" /\ server = "stopped"
  /\ main' = "exited"
  /\ request' = CutOff
  /\ UNCHANGED <<stopping, forced, health, toMark, monitor, ready, database,
                 observed, server>>

\* Wrong on purpose: no timeout while calls are being served.
ForceStopIdle ==
  /\ main = "drain" /\ \A r \in Requests : request[r] # "running"
  /\ main' = "exited"
  /\ forced' = TRUE
  /\ server' = "stopped"
  /\ request' = CutOff
  /\ UNCHANGED <<stopping, health, toMark, monitor, ready, database, observed>>

\* The timeout: Stop, and return.
ForceStop ==
  /\ main = "drain" /\ server # "stopped"
  /\ main' = "exited"
  /\ forced' = TRUE
  /\ server' = "stopped"
  /\ request' = CutOff
  /\ UNCHANGED <<stopping, health, toMark, monitor, ready, database, observed>>

(***************************************************************************)
(* monitorReadiness.                                                       *)
(***************************************************************************)
Alive == main # "exited"

\* The ticker; when the context is done too, select may take either.
Tick ==
  /\ Alive /\ monitor = "wait"
  /\ monitor' = "check"
  /\ UNCHANGED <<main, stopping, forced, health, toMark, ready, database,
                 observed, server, request>>

\* Ready: the ping fails at once when the context is done.
Check ==
  /\ Alive /\ monitor = "check"
  /\ ready' = (database /\ ~stopping)
  /\ monitor' = "mark"
  /\ toMark' = Marked("monitor")
  /\ UNCHANGED <<main, stopping, forced, health, database, observed, server, request>>

MonitorMarks ==
  /\ Alive /\ monitor \in {"mark", "leave"}
  /\ MarkNext("monitor", StatusOf(monitor = "mark" /\ ready))
  /\ UNCHANGED <<main, stopping, forced, healthDown, monitor, ready, database,
                 observed, server, request>>

MonitorMarked ==
  /\ Alive /\ monitor \in {"mark", "leave"} /\ toMark["monitor"] = {}
  /\ monitor' = IF monitor = "mark" THEN "wait" ELSE "done"
  /\ UNCHANGED <<main, stopping, forced, health, toMark, ready, database,
                 observed, server, request>>

\* ctx.Done: the last word is NOT_SERVING.
Leave ==
  /\ Alive /\ monitor = "wait" /\ stopping
  /\ monitor' = "leave"
  /\ toMark' = Marked("monitor")
  /\ UNCHANGED <<main, stopping, forced, health, ready, database, observed,
                 server, request>>

(***************************************************************************)
(* Requests: Recovery(CorrelationID(RequestMetrics(Logging(handler)))).    *)
(***************************************************************************)
Arrive(r) ==
  /\ Alive /\ server = "open" /\ request[r] = "idle"
  /\ request' = [request EXCEPT ![r] = "running"]
  /\ UNCHANGED <<main, stopping, forced, health, toMark, monitor, ready, database,
                 observed, server>>

Refuse(r) ==
  /\ server # "open" /\ request[r] = "idle"
  /\ request' = [request EXCEPT ![r] = "refused"]
  /\ UNCHANGED <<main, stopping, forced, health, toMark, monitor, ready, database,
                 observed, server>>

\* The handler returns, with or without an error; the metrics interceptor
\* records the call when its own call of the handler has returned.
Finish(r) ==
  /\ Alive /\ request[r] = "running" /\ server # "stopped"
  /\ request' = [request EXCEPT ![r] = "answered"]
  /\ counted' = IF telemetry THEN counted \cup {r} ELSE counted
  /\ UNCHANGED <<main, stopping, forced, health, toMark, monitor, ready, database,
                 telemetry, server>>

\* The handler panics: the stack unwinds past the metrics interceptor to the
\* recovery interceptor, which answers Internal.
Panic(r) ==
  /\ Alive /\ request[r] = "running" /\ server # "stopped"
  /\ request' = [request EXCEPT ![r] = "recovered"]
  /\ UNCHANGED <<main, stopping, forced, health, toMark, monitor, ready, database,
                 observed, server>>

DatabaseChanges ==
  /\ Alive
  /\ database' = ~database
  /\ UNCHANGED <<main, stopping, forced, health, toMark, monitor, ready, observed,
                 server, request>>

Main ==
  \/ Start \/ StartFails
  \/ SeeStop(FALSE) \/ Unmark \/ Unmarked
  \/ HealthShutdown \/ TelemetryShutdown
  \/ Exit \/ ForceStop

GracefulStop == Drain \/ Drained

Monitor == Tick \/ Check \/ MonitorMarks \/ MonitorMarked \/ Leave

Request(r) == Arrive(r) \/ Refuse(r) \/ Finish(r) \/ Panic(r)

Environment == Signal \/ SeeStop(TRUE) \/ DatabaseChanges

Terminated == main = "exited" /\ UNCHANGED vars

Next ==
  \/ Main \/ GracefulStop \/ Monitor
  \/ \E r \in Requests : Request(r)
  \/ Environment
  \/ Terminated

Spec == Init /\ [][Next]_vars

\* main's own steps and timers, and the monitor's; handlers may hang.
FairSpec == Spec /\ WF_vars(Main) /\ WF_vars(Monitor)
=============================================================================
