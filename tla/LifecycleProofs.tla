--------------------------- MODULE LifecycleProofs ---------------------------
(***************************************************************************)
(* Proofs of the safety properties of a service process: LifecycleInv is   *)
(* inductive.  One lemma for each part of it, with a step per action.      *)
(***************************************************************************)
EXTENDS LifecycleProperties, TLAPS

\* A process begins as LifecycleInv says: nothing is shown as serving.
LEMMA InitLifecycle == Init => LifecycleInv
  BY DEF Init, LifecycleInv, LifecycleTypeOK, DrainsNotServing,
     StatusIsLastCheck,
         CutOnlyByForce, HealthShutInOrder, MarkedAreCurrent, StoppedIsIdle, Statuses

\* Marking the next name keeps the types and sets no name but that one.
LEMMA MarkNextEffect ==
  ASSUME LifecycleTypeOK, NEW who \in {"main", "monitor"}, NEW s \in Statuses,
         MarkNext(who, s)
  PROVE  /\ status' \in [Names -> Statuses]
         /\ toMark' \in [{"main", "monitor"} -> SUBSET Names]
         /\ \A other \in {"main", "monitor"} \ {who} : toMark'[other] = toMark[other]
         /\ healthDown => status' = status
         /\ ~healthDown =>
              \A n \in Names : status'[n] = IF n \in toMark'[who] THEN status[n]
                                            ELSE IF n \in toMark[who] THEN s
                                            ELSE status[n]
  BY DEF MarkNext, LifecycleTypeOK

\* Every action keeps the types of the variables.
LEMMA StepTypes ==
  ASSUME LifecycleTypeOK, [Next]_vars
  PROVE  LifecycleTypeOK'
  <1> USE DEF LifecycleTypeOK, health, observed
  <1>1. CASE Start
    BY <1>1 DEF Start, Statuses
  <1>2. CASE StartFails
    BY <1>2 DEF StartFails
  <1>3. CASE SeeStop(FALSE)
    BY <1>3 DEF SeeStop, Marked
  <1>4. CASE Unmark
    BY <1>4, MarkNextEffect DEF Unmark, Statuses
  <1>5. CASE Unmarked
    BY <1>5 DEF Unmarked
  <1>6. CASE HealthShutdown
    BY <1>6 DEF HealthShutdown, Statuses
  <1>7. CASE TelemetryShutdown
    BY <1>7 DEF TelemetryShutdown
  <1>8. CASE Exit
    BY <1>8 DEF Exit, CutOff
  <1>9. CASE ForceStop
    BY <1>9 DEF ForceStop, CutOff
  <1>10. CASE Drain
    BY <1>10 DEF Drain
  <1>11. CASE Drained
    BY <1>11 DEF Drained
  <1>12. CASE Tick
    BY <1>12 DEF Tick
  <1>13. CASE Check
    BY <1>13 DEF Check, Marked
  <1>14. CASE MonitorMarks
    BY <1>14, MarkNextEffect DEF MonitorMarks, Statuses, StatusOf
  <1>15. CASE MonitorMarked
    BY <1>15 DEF MonitorMarked
  <1>16. CASE Leave
    BY <1>16 DEF Leave, Marked
  <1>17. ASSUME NEW r \in Requests, Arrive(r)
    PROVE  LifecycleTypeOK'
    BY <1>17 DEF Arrive
  <1>18. ASSUME NEW r \in Requests, Refuse(r)
    PROVE  LifecycleTypeOK'
    BY <1>18 DEF Refuse
  <1>19. ASSUME NEW r \in Requests, Finish(r)
    PROVE  LifecycleTypeOK'
    BY <1>19 DEF Finish
  <1>20. ASSUME NEW r \in Requests, Panic(r)
    PROVE  LifecycleTypeOK'
    BY <1>20 DEF Panic
  <1>21. CASE Signal
    BY <1>21 DEF Signal
  <1>22. CASE SeeStop(TRUE)
    BY <1>22 DEF SeeStop, Marked
  <1>23. CASE DatabaseChanges
    BY <1>23 DEF DatabaseChanges
  <1>24. CASE Terminated
    BY <1>24 DEF Terminated, vars
  <1>25. CASE UNCHANGED vars
    BY <1>25 DEF vars
  <1> QED
    BY <1>1, <1>2, <1>3, <1>4, <1>5, <1>6, <1>7, <1>8, <1>9, <1>10, <1>11,
       <1>12, <1>13, <1>14, <1>15, <1>16, <1>17, <1>18, <1>19, <1>20, <1>21,
       <1>22, <1>23, <1>24, <1>25 DEF Next, Main, GracefulStop, Monitor,
       Request, Environment

\* Shut down, the health server ignores whatever the monitor still does; before,
\* main has not come to where nothing may be SERVING.
LEMMA StepHealth ==
  ASSUME LifecycleTypeOK, DrainsNotServing, HealthShutInOrder, [Next]_vars
  PROVE  (DrainsNotServing /\ HealthShutInOrder)'
  <1> USE DEF DrainsNotServing, HealthShutInOrder, health, observed
  <1>1. CASE Start
    BY <1>1 DEF Start
  <1>2. CASE StartFails
    BY <1>2 DEF StartFails
  <1>3. CASE SeeStop(FALSE)
    BY <1>3 DEF SeeStop
  <1>4. CASE Unmark
    BY <1>4 DEF Unmark
  <1>5. CASE Unmarked
    BY <1>5 DEF Unmarked
  <1>6. CASE HealthShutdown
    BY <1>6 DEF HealthShutdown
  <1>7. CASE TelemetryShutdown
    BY <1>7 DEF TelemetryShutdown
  <1>8. CASE Exit
    BY <1>8 DEF Exit, LifecycleTypeOK
  <1>9. CASE ForceStop
    BY <1>9 DEF ForceStop
  <1>10. CASE Drain
    BY <1>10 DEF Drain
  <1>11. CASE Drained
    BY <1>11 DEF Drained
  <1>12. CASE Tick
    BY <1>12 DEF Tick
  <1>13. CASE Check
    BY <1>13 DEF Check
  <1>14. CASE MonitorMarks
    <2>1. /\ main # "exited"
          /\ MarkNext("monitor", StatusOf(monitor = "mark" /\ ready))
          /\ UNCHANGED <<main, healthDown, monitor>>
      BY <1>14 DEF MonitorMarks, Alive
    <2>2. main # "start"
      BY <1>14 DEF MonitorMarks, HealthShutInOrder
    <2>3. healthDown => status' = status
      BY <2>1, MarkNextEffect DEF StatusOf, Statuses
    <2> QED BY <2>1, <2>2, <2>3 DEF DrainsNotServing, HealthShutInOrder
  <1>15. CASE MonitorMarked
    BY <1>15 DEF MonitorMarked
  <1>16. CASE Leave
    BY <1>16 DEF Leave
  <1>17. ASSUME NEW r \in Requests, Arrive(r)
    PROVE  (DrainsNotServing /\ HealthShutInOrder)'
    BY <1>17 DEF Arrive
  <1>18. ASSUME NEW r \in Requests, Refuse(r)
    PROVE  (DrainsNotServing /\ HealthShutInOrder)'
    BY <1>18 DEF Refuse
  <1>19. ASSUME NEW r \in Requests, Finish(r)
    PROVE  (DrainsNotServing /\ HealthShutInOrder)'
    BY <1>19 DEF Finish
  <1>20. ASSUME NEW r \in Requests, Panic(r)
    PROVE  (DrainsNotServing /\ HealthShutInOrder)'
    BY <1>20 DEF Panic
  <1>21. CASE Signal
    BY <1>21 DEF Signal
  <1>22. CASE SeeStop(TRUE)
    BY <1>22 DEF SeeStop
  <1>23. CASE DatabaseChanges
    BY <1>23 DEF DatabaseChanges
  <1>24. CASE Terminated
    BY <1>24 DEF Terminated, LifecycleTypeOK, vars
  <1>25. CASE UNCHANGED vars
    BY <1>25 DEF vars
  <1> QED
    BY <1>1, <1>2, <1>3, <1>4, <1>5, <1>6, <1>7, <1>8, <1>9, <1>10, <1>11,
       <1>12, <1>13, <1>14, <1>15, <1>16, <1>17, <1>18, <1>19, <1>20, <1>21,
       <1>22, <1>23, <1>24, <1>25 DEF Next, Main, GracefulStop, Monitor,
       Request, Environment

\* While main serves, only the monitor sets statuses, to what its last check found.
LEMMA StepStatus ==
  ASSUME LifecycleTypeOK, HealthShutInOrder, StatusIsLastCheck, MarkedAreCurrent, [Next]_vars
  PROVE  (StatusIsLastCheck /\ MarkedAreCurrent)'
  <1> USE DEF StatusIsLastCheck, MarkedAreCurrent, health, observed
  <1>1. CASE Start
    BY <1>1 DEF Start, StatusOf
  <1>2. CASE StartFails
    BY <1>2 DEF StartFails
  <1>3. CASE SeeStop(FALSE)
    BY <1>3 DEF SeeStop
  <1>4. CASE Unmark
    BY <1>4 DEF Unmark
  <1>5. CASE Unmarked
    BY <1>5 DEF Unmarked
  <1>6. CASE HealthShutdown
    BY <1>6 DEF HealthShutdown
  <1>7. CASE TelemetryShutdown
    BY <1>7 DEF TelemetryShutdown
  <1>8. CASE Exit
    BY <1>8 DEF Exit
  <1>9. CASE ForceStop
    BY <1>9 DEF ForceStop
  <1>10. CASE Drain
    BY <1>10 DEF Drain
  <1>11. CASE Drained
    BY <1>11 DEF Drained
  <1>12. CASE Tick
    BY <1>12 DEF Tick
  <1>13. CASE Check
    BY <1>13 DEF Check, Marked, LifecycleTypeOK
  <1>14. CASE MonitorMarks
    BY <1>14, MarkNextEffect DEF MonitorMarks, LifecycleTypeOK,
       HealthShutInOrder, Alive, Statuses, StatusOf
  <1>15. CASE MonitorMarked
    BY <1>15 DEF MonitorMarked, LifecycleTypeOK
  <1>16. CASE Leave
    BY <1>16 DEF Leave
  <1>17. ASSUME NEW r \in Requests, Arrive(r)
    PROVE  (StatusIsLastCheck /\ MarkedAreCurrent)'
    BY <1>17 DEF Arrive
  <1>18. ASSUME NEW r \in Requests, Refuse(r)
    PROVE  (StatusIsLastCheck /\ MarkedAreCurrent)'
    BY <1>18 DEF Refuse
  <1>19. ASSUME NEW r \in Requests, Finish(r)
    PROVE  (StatusIsLastCheck /\ MarkedAreCurrent)'
    BY <1>19 DEF Finish
  <1>20. ASSUME NEW r \in Requests, Panic(r)
    PROVE  (StatusIsLastCheck /\ MarkedAreCurrent)'
    BY <1>20 DEF Panic
  <1>21. CASE Signal
    BY <1>21 DEF Signal
  <1>22. CASE SeeStop(TRUE)
    BY <1>22 DEF SeeStop
  <1>23. CASE DatabaseChanges
    BY <1>23 DEF DatabaseChanges
  <1>24. CASE Terminated
    BY <1>24 DEF Terminated, vars
  <1>25. CASE UNCHANGED vars
    BY <1>25 DEF vars
  <1> QED
    BY <1>1, <1>2, <1>3, <1>4, <1>5, <1>6, <1>7, <1>8, <1>9, <1>10, <1>11,
       <1>12, <1>13, <1>14, <1>15, <1>16, <1>17, <1>18, <1>19, <1>20, <1>21,
       <1>22, <1>23, <1>24, <1>25 DEF Next, Main, GracefulStop, Monitor,
       Request, Environment

\* A graceful stop waits until nothing runs; after it nothing begins.
LEMMA StepRequests ==
  ASSUME LifecycleTypeOK, CutOnlyByForce, StoppedIsIdle, [Next]_vars
  PROVE  (CutOnlyByForce /\ StoppedIsIdle)'
  <1> USE DEF CutOnlyByForce, StoppedIsIdle, health, observed
  <1>1. CASE Start
    BY <1>1 DEF Start
  <1>2. CASE StartFails
    BY <1>2 DEF StartFails
  <1>3. CASE SeeStop(FALSE)
    BY <1>3 DEF SeeStop
  <1>4. CASE Unmark
    BY <1>4 DEF Unmark
  <1>5. CASE Unmarked
    BY <1>5 DEF Unmarked
  <1>6. CASE HealthShutdown
    BY <1>6 DEF HealthShutdown
  <1>7. CASE TelemetryShutdown
    BY <1>7 DEF TelemetryShutdown
  <1>8. CASE Exit
    BY <1>8 DEF Exit, CutOff, LifecycleTypeOK
  <1>9. CASE ForceStop
    BY <1>9 DEF ForceStop, CutOff, LifecycleTypeOK
  <1>10. CASE Drain
    BY <1>10 DEF Drain
  <1>11. CASE Drained
    BY <1>11 DEF Drained
  <1>12. CASE Tick
    BY <1>12 DEF Tick
  <1>13. CASE Check
    BY <1>13 DEF Check
  <1>14. CASE MonitorMarks
    BY <1>14 DEF MonitorMarks
  <1>15. CASE MonitorMarked
    BY <1>15 DEF MonitorMarked
  <1>16. CASE Leave
    BY <1>16 DEF Leave
  <1>17. ASSUME NEW r \in Requests, Arrive(r)
    PROVE  (CutOnlyByForce /\ StoppedIsIdle)'
    BY <1>17 DEF Arrive, LifecycleTypeOK
  <1>18. ASSUME NEW r \in Requests, Refuse(r)
    PROVE  (CutOnlyByForce /\ StoppedIsIdle)'
    BY <1>18 DEF Refuse, LifecycleTypeOK
  <1>19. ASSUME NEW r \in Requests, Finish(r)
    PROVE  (CutOnlyByForce /\ StoppedIsIdle)'
    BY <1>19 DEF Finish, LifecycleTypeOK
  <1>20. ASSUME NEW r \in Requests, Panic(r)
    PROVE  (CutOnlyByForce /\ StoppedIsIdle)'
    BY <1>20 DEF Panic, LifecycleTypeOK
  <1>21. CASE Signal
    BY <1>21 DEF Signal
  <1>22. CASE SeeStop(TRUE)
    BY <1>22 DEF SeeStop
  <1>23. CASE DatabaseChanges
    BY <1>23 DEF DatabaseChanges
  <1>24. CASE Terminated
    BY <1>24 DEF Terminated, vars
  <1>25. CASE UNCHANGED vars
    BY <1>25 DEF vars
  <1> QED
    BY <1>1, <1>2, <1>3, <1>4, <1>5, <1>6, <1>7, <1>8, <1>9, <1>10, <1>11,
       <1>12, <1>13, <1>14, <1>15, <1>16, <1>17, <1>18, <1>19, <1>20, <1>21,
       <1>22, <1>23, <1>24, <1>25 DEF Next, Main, GracefulStop, Monitor,
       Request, Environment

\* LifecycleInv holds in every reachable state of a service process.
THEOREM LifecycleSafety == Spec => []LifecycleInv
  <1>1. LifecycleInv /\ [Next]_vars => LifecycleInv'
    BY StepTypes, StepHealth, StepStatus, StepRequests DEF LifecycleInv
  <1> QED BY <1>1, InitLifecycle, PTL DEF Spec

\* Every variable keeps its type: no status but SERVING and NOT_SERVING is shown,
\* for any number of names and requests.
THEOREM LifecycleTypes == Spec => []LifecycleTypeOK
  <1>1. LifecycleInv => LifecycleTypeOK
    BY DEF LifecycleInv
  <1> QED BY <1>1, LifecycleSafety, PTL

\* From before draining begins until the end, no name is SERVING, however the
\* monitor and main interleave.
THEOREM NotServingWhileDraining == Spec => []DrainsNotServing
  <1>1. LifecycleInv => DrainsNotServing
    BY DEF LifecycleInv
  <1> QED BY <1>1, LifecycleSafety, PTL

\* Between two checks every name shows the result of the last one.
THEOREM StatusShowsLastCheck == Spec => []StatusIsLastCheck
  <1>1. LifecycleInv => StatusIsLastCheck
    BY DEF LifecycleInv
  <1> QED BY <1>1, LifecycleSafety, PTL

\* Only the forced stop ends requests before their answer.
THEOREM GracefulCutsNothing == Spec => []CutOnlyByForce
  <1>1. LifecycleInv => CutOnlyByForce
    BY DEF LifecycleInv
  <1> QED BY <1>1, LifecycleSafety, PTL
=============================================================================
