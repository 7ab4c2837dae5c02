------------------------- MODULE LifecycleProperties -------------------------
(***************************************************************************)
(* What the orchestrator, the operators and the clients of a service       *)
(* process rely on.                                                        *)
(***************************************************************************)
EXTENDS ServiceLifecycle

\* The types of the variables; no status but the two of the health protocol that
\* are meant is ever shown.
LifecycleTypeOK ==
  /\ main \in {"start", "serve", "unmark", "health", "telemetry", "drain", "exited"}
  /\ stopping \in BOOLEAN
  /\ forced \in BOOLEAN
  /\ status \in [Names -> Statuses]
  /\ healthDown \in BOOLEAN
  /\ toMark \in [{"main", "monitor"} -> SUBSET Names]
  /\ monitor \in {"none", "wait", "check", "mark", "leave", "done"}
  /\ ready \in BOOLEAN
  /\ database \in BOOLEAN
  /\ telemetry \in BOOLEAN
  /\ server \in {"new", "open", "draining", "stopped"}
  /\ request \in [Requests ->
       {"idle", "running", "answered", "recovered", "refused", "cut"}]
  /\ counted \subseteq Requests

\* Health is NOT_SERVING before draining begins and stays so to the end, although
\* the monitor may be in the middle of MarkServing when main shuts down.
DrainsNotServing ==
  main \in {"telemetry", "drain", "exited"} =>
    \A n \in Names : status[n] = "NOT_SERVING"

\* Between two checks, every name shows what the last check found.
StatusIsLastCheck ==
  main = "serve" /\ monitor = "wait" => \A n \in Names : status[n] = StatusOf(ready)

\* A request is cut off only by the forced stop: a graceful one ends none.
CutOnlyByForce == \A r \in Requests : request[r] = "cut" => forced

\* Once asked to stop, the process ends, though its handlers may never return.
StopEndsProcess == stopping ~> main = "exited"

\* A database that stays away, or stays up, shows in every status sooner or later.
OutageShown ==
  /\ <>[](~database) => <>[](\A n \in Names : status[n] = "NOT_SERVING")
  /\ <>[](database /\ main = "serve" /\ ~stopping) =>
       <>[](\A n \in Names : status[n] = "SERVING")

\* graceful-shutdown.md: telemetry is flushed after the requests have finished.
FinishedAreCounted == \A r \in Requests : request[r] = "answered" => r \in counted

(***************************************************************************)
(* The inductive invariant of the proofs.                                  *)
(***************************************************************************)
\* The health server is open until main shuts it down; then nothing is SERVING.
HealthShutInOrder ==
  /\ main \in {"start", "serve", "unmark", "health"} => ~healthDown
  /\ main \in {"telemetry", "drain"} => healthDown
  /\ main = "start" => monitor = "none" /\ \A n \in Names : status[n] = "NOT_SERVING"

\* While only the monitor sets statuses, those it has set show its last check.
MarkedAreCurrent ==
  main = "serve" =>
    /\ monitor # "none"
    /\ monitor = "check" => \A n \in Names : status[n] = StatusOf(ready)
    /\ monitor = "mark" =>
         \A n \in Names \ toMark["monitor"] : status[n] = StatusOf(ready)

\* The server is open until main drains it; once GracefulStop has returned, nothing
\* is running.
StoppedIsIdle ==
  /\ main \in {"serve", "unmark", "health", "telemetry"} => server = "open"
  /\ main = "drain" /\ server = "stopped" => \A r \in Requests : request[r] # "running"

LifecycleInv ==
  /\ LifecycleTypeOK
  /\ DrainsNotServing
  /\ StatusIsLastCheck
  /\ CutOnlyByForce
  /\ HealthShutInOrder
  /\ MarkedAreCurrent
  /\ StoppedIsIdle
=============================================================================
