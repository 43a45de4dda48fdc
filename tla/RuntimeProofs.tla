----------------------------- MODULE RuntimeProofs -----------------------------
(***************************************************************************)
(* The safety properties of Runtime, for any configurations, failures and  *)
(* bounds.  The invariant says which instance is in charge where run       *)
(* stands, that every other instance is idle, and that there are instances *)
(* enough for every edit of the file.                                      *)
(***************************************************************************)
EXTENDS Runtime, TLAPS

Looping == {"select", "reload"}

Stopping == {"shutdown", "drain", "join"}

-----------------------------------------------------------------------------
(* Types                                                                   *)

Flag(condition) == IF condition THEN 1 ELSE 0

\* Events that may still make run replace the instance.
Ahead ==
  fsEvents + Flag(timer # "off") + Flag(watcher = "change")
    + Flag(output = "change") + Flag(pc = "reload")

\* Each of them needs two instances, and a candidate one for its rollback.
EnoughInstances ==
  starting + 2 * Ahead
    + Flag(purpose = "reload" /\ pc \in Stopping \cup {"listen", "configure"})
      <= 1 + 2 * writes

\* What is started, and what a rollback goes back to, was accepted by Load.
Built ==
  /\ pc \in {"load", "watch"} =>
       starting = active /\ purpose = "boot" /\ watcher = "off"
  /\ pc \notin {"load", "watch", "exit"} =>
       conf[starting] \in Configs /\ conf[active] \in Configs

TypeInv == TypeOK /\ EnoughInstances /\ Built

LEMMA InstancesAre ==
  /\ 1 \in Instances
  /\ \A i \in Instances : i \in Nat /\ i >= 1
  /\ \A n, w \in Nat : n >= 1 /\ w <= MaxWrites /\ n <= 1 + 2 * w => n \in Instances
BY RuntimeAssumption DEF Instances

LEMMA TypeInit == Init => TypeInv
<1> SUFFICES ASSUME Init PROVE TypeInv
  OBVIOUS
<1>1. TypeOK
  <2>1. /\ errs \in [Instances -> 0 .. 2]
        /\ requests \in [Instances -> 0 .. MaxRequests]
        /\ fsEvents \in 0 .. MaxWrites /\ writes \in 0 .. MaxWrites
        /\ faults \in 0 .. MaxFaults
    BY RuntimeAssumption DEF Init
  <2>2. /\ conf \in [Instances -> Configs \cup {Invalid}]
        /\ runCtx \in [Instances -> {"none", "live", "reloading", "stopped"}]
        /\ socket \in [Instances -> BOOLEAN] /\ closing \in [Instances -> BOOLEAN]
        /\ http \in [Instances -> {"off", "spawned", "serving", "failed", "ended"}]
        /\ updates \in [Instances -> {"off", "receiving", "ended"}]
        /\ away \in [Instances -> BOOLEAN]
    BY DEF Init
  <2> QED
    BY <2>1, <2>2, InstancesAre DEF Init, TypeOK
<1>2. EnoughInstances
  BY DEF Init, EnoughInstances, Ahead, Flag, Stopping
<1>3. Built
  BY DEF Init, Built
<1> QED
  BY <1>1, <1>2, <1>3 DEF TypeInv

\* The numbers in EnoughInstances.
LEMMA CountsAre ==
  TypeOK => /\ fsEvents \in Nat /\ writes \in Nat /\ starting \in Nat /\ starting >= 1
            /\ writes <= MaxWrites /\ active \in Nat
BY RuntimeAssumption, InstancesAre DEF TypeOK

\* One more instance can be created where the count leaves room for it.
LEMMA RoomForOne ==
  ASSUME TypeOK, EnoughInstances,
         pc = "reload" \/ (purpose = "reload" /\ pc \in {"listen", "configure"})
  PROVE  starting + 1 \in Instances
<1>1. starting + 1 <= 1 + 2 * writes
  BY CountsAre DEF EnoughInstances, Ahead, Flag
<1> QED
  BY <1>1, CountsAre, InstancesAre

\* What StartFailed does to the variables it changes.
LEMMA StartFailedType ==
  ASSUME TypeInv, pc \in {"listen", "configure"}, StartFailed
  PROVE  /\ pc' \in {"listen", "exit"}
         /\ purpose' \in {"boot", "reload", "rollback", "exit"}
         /\ starting' \in Instances
         /\ conf' \in [Instances -> Configs \cup {Invalid}]
<1>1. CASE purpose = "reload"
  BY <1>1, RoomForOne DEF StartFailed, TypeInv, TypeOK
<1>2. CASE purpose # "reload"
  BY <1>2 DEF StartFailed, TypeInv, TypeOK
<1> QED
  BY <1>1, <1>2

\* Every step keeps the types.
LEMMA TypeStep == TypeInv /\ [Next]_vars => TypeOK'
<1> SUFFICES ASSUME TypeInv, [Next]_vars PROVE TypeOK'
  OBVIOUS
<1>1. CASE LoadAtBoot
  BY <1>1, RuntimeAssumption
  DEF LoadAtBoot, Exit, instanceVars, watcherVars, bounds, workerVars, TypeInv,
      TypeOK
<1>2. CASE WatchAtBoot
  BY <1>2, RuntimeAssumption
  DEF WatchAtBoot, NoFault, Fault, workerVars, TypeInv, TypeOK
<1>3. CASE Listen
  <2>1. /\ pc' \in {"listen", "configure", "exit"}
        /\ purpose' \in {"boot", "reload", "rollback", "exit"}
        /\ starting' \in Instances
        /\ conf' \in [Instances -> Configs \cup {Invalid}]
    <3>1. CASE StartFailed
      <4>1. pc = "listen"
        BY <1>3 DEF Listen
      <4> QED
        BY <3>1, <4>1, StartFailedType
    <3>2. CASE pc' = "configure" /\ UNCHANGED <<purpose, starting, conf>>
      BY <3>2 DEF TypeInv, TypeOK
    <3> QED
      BY <1>3, <3>1, <3>2 DEF Listen
  <2>2. /\ socket' \in [Instances -> BOOLEAN]
        /\ runCtx' \in [Instances -> {"none", "live", "reloading", "stopped"}]
    <3>1. \/ UNCHANGED <<socket, runCtx>>
          \/ /\ socket' = [socket EXCEPT ![starting] = TRUE]
             /\ runCtx' = [runCtx EXCEPT ![starting] = IF signal THEN "stopped" ELSE "live"]
      BY <1>3 DEF Listen
    <3> QED
      BY <3>1 DEF TypeInv, TypeOK
  <2>3. faults' \in 0 .. MaxFaults
    BY <1>3, RuntimeAssumption DEF Listen, NoFault, Fault, TypeInv, TypeOK
  <2>4. UNCHANGED <<loaded, active, signal, closing, http, updates, errs, requests,
                    away, registered, file, watcherVars, writes>>
    BY <1>3 DEF Listen
  <2> QED
    BY <2>1, <2>2, <2>3, <2>4 DEF watcherVars, TypeInv, TypeOK
<1>4. CASE Configure
  <2>1. ModeOf[conf[starting]] \in Modes
    BY <1>4, RuntimeAssumption DEF Configure, TypeInv, Built
  <2>2. CASE StartFailed
    <3>1. pc = "configure"
      BY <1>4 DEF Configure
    <3>2. registered' \in Modes
      BY <1>4, <2>1 DEF Configure, RegisterMode, TypeInv, TypeOK
    <3>3. /\ runCtx' \in [Instances -> {"none", "live", "reloading", "stopped"}]
          /\ socket' \in [Instances -> BOOLEAN]
      BY <1>4 DEF Configure, CloseListener, TypeInv, TypeOK
    <3>4. /\ http' \in [Instances -> {"off", "spawned", "serving", "failed", "ended"}]
          /\ updates' \in [Instances -> {"off", "receiving", "ended"}]
          /\ active' \in Instances
      BY <1>4 DEF Configure, TypeInv, TypeOK
    <3>5. faults' \in 0 .. MaxFaults
      BY <1>4, RuntimeAssumption DEF Configure, NoFault, Fault, TypeInv, TypeOK
    <3>6. UNCHANGED <<loaded, signal, closing, errs, requests, away, file, watcherVars, writes>>
      BY <1>4 DEF Configure
    <3> QED
      BY <2>2, <3>1, <3>2, <3>3, <3>4, <3>5, <3>6, StartFailedType DEF watcherVars, TypeInv, TypeOK
  <2>3. CASE ~StartFailed
    BY <1>4, <2>1, <2>3, RuntimeAssumption
    DEF Configure, NoFault, Fault, RegisterMode, watcherVars, TypeInv, TypeOK
  <2> QED
    BY <2>2, <2>3
<1>5. CASE Leave
  BY <1>5, RuntimeAssumption DEF Leave, Stop, watcherVars, bounds, TypeInv, TypeOK
<1>6. CASE TakeEvent
  BY <1>6, RuntimeAssumption
  DEF TakeEvent, instanceVars, bounds, workerVars, TypeInv, TypeOK
<1>7. CASE Reload
  <2>1. starting + 1 \in Instances
    BY <1>7, RoomForOne DEF Reload, TypeInv
  <2> QED
    BY <1>7, <2>1 DEF Reload, Stop, watcherVars, workerVars, bounds, TypeInv, TypeOK
<1>8. CASE Shutdown
  BY <1>8, RuntimeAssumption DEF Shutdown, watcherVars, bounds, TypeInv, TypeOK
<1>9. CASE Drained
  BY <1>9, RuntimeAssumption
  DEF Drained, instanceVars, watcherVars, bounds, workerVars, TypeInv, TypeOK
<1>10. CASE Join
  BY <1>10, RuntimeAssumption
  DEF Join, instanceVars, watcherVars, bounds, workerVars, TypeInv, TypeOK
<1>11. ASSUME NEW i \in Instances, Serve(i) PROVE TypeOK'
  BY <1>11, RuntimeAssumption DEF Serve, runVars, watcherVars, bounds, TypeInv, TypeOK
<1>12. ASSUME NEW i \in Instances, ServeReturns(i) PROVE TypeOK'
  BY <1>12, RuntimeAssumption
  DEF ServeReturns, NoFault, Fault, runVars, watcherVars, TypeInv, TypeOK
<1>13. ASSUME NEW i \in Instances, ReportError(i) PROVE TypeOK'
  BY <1>13, RuntimeAssumption
  DEF ReportError, SendError, runVars, watcherVars, bounds, TypeInv, TypeOK
<1>14. ASSUME NEW i \in Instances, UpdatesEnd(i) PROVE TypeOK'
  BY <1>14, RuntimeAssumption
  DEF UpdatesEnd, runVars, watcherVars, bounds, TypeInv, TypeOK
<1>15. ASSUME NEW i \in Instances, RequestArrives(i) PROVE TypeOK'
  BY <1>15, RuntimeAssumption
  DEF RequestArrives, runVars, workerVars, watcherVars, bounds, TypeInv, TypeOK
<1>16. ASSUME NEW i \in Instances, RequestEnds(i) PROVE TypeOK'
  <2>1. requests' \in [Instances -> 0 .. MaxRequests]
    <3>1. requests[i] - 1 \in 0 .. MaxRequests
      BY <1>16, RuntimeAssumption DEF RequestEnds, TypeInv, TypeOK
    <3> QED
      BY <1>16, <3>1 DEF RequestEnds, TypeInv, TypeOK
  <2>2. away' \in [Instances -> BOOLEAN]
    BY <1>16 DEF RequestEnds, TypeInv, TypeOK
  <2> QED
    BY <1>16, <2>1, <2>2
    DEF RequestEnds, runVars, workerVars, watcherVars, bounds, TypeInv, TypeOK
<1>17. ASSUME NEW i \in Instances, HumanReturns(i) PROVE TypeOK'
  BY <1>17, RuntimeAssumption
  DEF HumanReturns, runVars, workerVars, watcherVars, bounds, TypeInv, TypeOK
<1>18. CASE WatcherReceives
  <2>1. fsEvents' \in 0 .. MaxWrites
    BY <1>18, CountsAre, RuntimeAssumption
    DEF WatcherReceives, Debounce, TypeInv, EnoughInstances, Ahead, Flag, runVars,
        instanceVars, bounds, workerVars
  <2> QED
    BY <1>18, <2>1, RuntimeAssumption
    DEF WatcherReceives, Debounce, runVars, instanceVars, bounds, workerVars,
        TypeInv, TypeOK
<1>19. CASE WatcherNotifies
  BY <1>19, RuntimeAssumption
  DEF WatcherNotifies, NoFault, Fault, runVars, instanceVars, workerVars, TypeInv,
      TypeOK
<1>20. CASE WatcherSends
  BY <1>20, RuntimeAssumption
  DEF WatcherSends, Notify, GivesUp, runVars, instanceVars, bounds, workerVars,
      TypeInv, TypeOK
<1>21. CASE WatcherEnds
  BY <1>21, RuntimeAssumption
  DEF WatcherEnds, NoFault, Fault, runVars, instanceVars, workerVars, TypeInv,
      TypeOK
<1>22. CASE TimerFires
  BY <1>22, RuntimeAssumption
  DEF TimerFires, runVars, instanceVars, bounds, workerVars, TypeInv, TypeOK
<1>23. CASE EditFile
  <2>1. fsEvents' \in 0 .. MaxWrites
    BY <1>23, CountsAre, RuntimeAssumption
    DEF EditFile, Watching, TypeInv, EnoughInstances, Ahead, Flag, runVars,
        instanceVars, workerVars
  <2> QED
    BY <1>23, <2>1, RuntimeAssumption
    DEF EditFile, runVars, instanceVars, workerVars, TypeInv, TypeOK
<1>24. CASE Terminate
  BY <1>24, RuntimeAssumption
  DEF Terminate, workerVars, watcherVars, bounds, TypeInv, TypeOK
<1>25. CASE UNCHANGED vars
  BY <1>25
  DEF vars, runVars, instanceVars, workerVars, watcherVars, bounds, TypeInv, TypeOK
<1> QED
  BY <1>1, <1>2, <1>3, <1>4, <1>5, <1>6, <1>7, <1>8, <1>9, <1>10, <1>11, <1>12,
     <1>13, <1>14, <1>15, <1>16, <1>17, <1>18, <1>19, <1>20, <1>21, <1>22, <1>23, <1>24,
     <1>25
  DEF Next, Run, Workers, Watcher, Stopped

\* The count is kept.
LEMMA EnoughStep == TypeInv /\ [Next]_vars => EnoughInstances'
<1> SUFFICES ASSUME TypeInv, [Next]_vars PROVE EnoughInstances'
  OBVIOUS
<1> USE CountsAre
  DEF TypeInv, EnoughInstances, Ahead, Flag, Stopping
<1>1. CASE LoadAtBoot
  BY <1>1 DEF LoadAtBoot, Exit, instanceVars, watcherVars, bounds, workerVars
<1>2. CASE WatchAtBoot
  BY <1>2, CountsAre
  DEF WatchAtBoot, watcherVars, TypeInv, Built, EnoughInstances, Ahead, Flag,
      Stopping
<1>3. CASE Listen
  BY <1>3 DEF Listen, NoFault, Fault, watcherVars, StartFailed
<1>4. CASE Configure
  BY <1>4
  DEF Configure, NoFault, Fault, RegisterMode, CloseListener, watcherVars,
      StartFailed
<1>5. CASE Leave
  BY <1>5 DEF Leave, Stop, watcherVars, bounds
<1>6. CASE TakeEvent
  BY <1>6 DEF TakeEvent, instanceVars, bounds, workerVars
<1>7. CASE Reload
  BY <1>7 DEF Reload, Stop, workerVars, watcherVars, bounds
<1>8. CASE Shutdown
  BY <1>8 DEF Shutdown, watcherVars, bounds
<1>9. CASE Drained
  BY <1>9 DEF Drained, instanceVars, watcherVars, bounds, workerVars
<1>10. CASE Join
  BY <1>10 DEF Join, instanceVars, watcherVars, bounds, workerVars
<1>11. ASSUME NEW i \in Instances, Serve(i) PROVE EnoughInstances'
  BY <1>11 DEF Serve, runVars, watcherVars, bounds
<1>12. ASSUME NEW i \in Instances, ServeReturns(i) PROVE EnoughInstances'
  BY <1>12 DEF ServeReturns, NoFault, Fault, runVars, watcherVars
<1>13. ASSUME NEW i \in Instances, ReportError(i) PROVE EnoughInstances'
  BY <1>13 DEF ReportError, SendError, runVars, watcherVars, bounds
<1>14. ASSUME NEW i \in Instances, UpdatesEnd(i) PROVE EnoughInstances'
  BY <1>14 DEF UpdatesEnd, runVars, watcherVars, bounds
<1>15. ASSUME NEW i \in Instances, RequestArrives(i) PROVE EnoughInstances'
  BY <1>15 DEF RequestArrives, runVars, workerVars, watcherVars, bounds
<1>16. ASSUME NEW i \in Instances, RequestEnds(i) PROVE EnoughInstances'
  BY <1>16 DEF RequestEnds, runVars, workerVars, watcherVars, bounds
<1>17. ASSUME NEW i \in Instances, HumanReturns(i) PROVE EnoughInstances'
  BY <1>17 DEF HumanReturns, runVars, workerVars, watcherVars, bounds
<1>18. CASE WatcherReceives
  BY <1>18 DEF WatcherReceives, Debounce, runVars, instanceVars, bounds, workerVars
<1>19. CASE WatcherNotifies
  BY <1>19 DEF WatcherNotifies, NoFault, Fault, runVars, instanceVars, workerVars
<1>20. CASE WatcherSends
  BY <1>20 DEF WatcherSends, Notify, GivesUp, runVars, instanceVars, bounds, workerVars
<1>21. CASE WatcherEnds
  BY <1>21 DEF WatcherEnds, NoFault, Fault, runVars, instanceVars, workerVars
<1>22. CASE TimerFires
  BY <1>22 DEF TimerFires, runVars, instanceVars, bounds, workerVars
<1>23. CASE EditFile
  BY <1>23 DEF EditFile, runVars, instanceVars, workerVars
<1>24. CASE Terminate
  BY <1>24 DEF Terminate, workerVars, watcherVars, bounds
<1>25. CASE UNCHANGED vars
  BY <1>25 DEF vars, runVars, instanceVars, workerVars, watcherVars, bounds
<1> QED
  BY <1>1, <1>2, <1>3, <1>4, <1>5, <1>6, <1>7, <1>8, <1>9, <1>10, <1>11, <1>12,
     <1>13, <1>14, <1>15, <1>16, <1>17, <1>18, <1>19, <1>20, <1>21, <1>22, <1>23, <1>24,
     <1>25
  DEF Next, Run, Workers, Watcher, Stopped

\* What is started was accepted.
LEMMA BuiltStep == TypeInv /\ [Next]_vars => Built'
<1> SUFFICES ASSUME TypeInv, [Next]_vars PROVE Built'
  OBVIOUS
<1> USE DEF TypeInv, TypeOK, Built
<1>1. CASE LoadAtBoot
  BY <1>1 DEF LoadAtBoot, Exit, instanceVars, watcherVars, bounds, workerVars
<1>2. CASE WatchAtBoot
  BY <1>2 DEF WatchAtBoot, NoFault, Fault, workerVars
<1>3. CASE Listen
  <2>1. CASE StartFailed /\ purpose = "reload"
    <3>1. starting + 1 \in Instances
      BY <1>3, <2>1, RoomForOne DEF Listen, TypeInv
    <3> QED
      BY <1>3, <2>1, <3>1 DEF Listen, StartFailed, TypeInv, TypeOK, Built
  <2>2. CASE ~(StartFailed /\ purpose = "reload")
    BY <1>3, <2>2 DEF Listen, StartFailed, TypeInv, TypeOK, Built
  <2> QED
    BY <2>1, <2>2
<1>4. CASE Configure
  <2>1. CASE StartFailed /\ purpose = "reload"
    <3>1. starting + 1 \in Instances
      BY <1>4, <2>1, RoomForOne DEF Configure, TypeInv
    <3> QED
      BY <1>4, <2>1, <3>1 DEF Configure, StartFailed, TypeInv, TypeOK, Built
  <2>2. CASE ~(StartFailed /\ purpose = "reload")
    BY <1>4, <2>2 DEF Configure, StartFailed, TypeInv, TypeOK, Built
  <2> QED
    BY <2>1, <2>2
<1>5. CASE Leave
  BY <1>5 DEF Leave, Stop, watcherVars, bounds
<1>6. CASE TakeEvent
  BY <1>6 DEF TakeEvent, instanceVars, bounds, workerVars
<1>7. CASE Reload
  <2>1. starting + 1 \in Instances
    BY <1>7, RoomForOne DEF Reload, TypeInv
  <2> QED
    BY <1>7, <2>1 DEF Reload, Stop, TypeInv, TypeOK, Built
<1>8. CASE Shutdown
  BY <1>8 DEF Shutdown, watcherVars, bounds
<1>9. CASE Drained
  BY <1>9 DEF Drained, instanceVars, watcherVars, bounds, workerVars
<1>10. CASE Join
  BY <1>10 DEF Join, instanceVars, watcherVars, bounds, workerVars
<1>11. ASSUME NEW i \in Instances, Serve(i) PROVE Built'
  BY <1>11 DEF Serve, runVars, watcherVars, bounds
<1>12. ASSUME NEW i \in Instances, ServeReturns(i) PROVE Built'
  BY <1>12 DEF ServeReturns, NoFault, Fault, runVars, watcherVars
<1>13. ASSUME NEW i \in Instances, ReportError(i) PROVE Built'
  BY <1>13 DEF ReportError, SendError, runVars, watcherVars, bounds
<1>14. ASSUME NEW i \in Instances, UpdatesEnd(i) PROVE Built'
  BY <1>14 DEF UpdatesEnd, runVars, watcherVars, bounds
<1>15. ASSUME NEW i \in Instances, RequestArrives(i) PROVE Built'
  BY <1>15 DEF RequestArrives, runVars, workerVars, watcherVars, bounds
<1>16. ASSUME NEW i \in Instances, RequestEnds(i) PROVE Built'
  BY <1>16 DEF RequestEnds, runVars, workerVars, watcherVars, bounds
<1>17. ASSUME NEW i \in Instances, HumanReturns(i) PROVE Built'
  BY <1>17 DEF HumanReturns, runVars, workerVars, watcherVars, bounds
<1>18. CASE WatcherReceives
  BY <1>18 DEF WatcherReceives, Debounce, runVars, instanceVars, bounds, workerVars
<1>19. CASE WatcherNotifies
  BY <1>19 DEF WatcherNotifies, NoFault, Fault, runVars, instanceVars, workerVars
<1>20. CASE WatcherSends
  BY <1>20 DEF WatcherSends, Notify, GivesUp, runVars, instanceVars, bounds, workerVars
<1>21. CASE WatcherEnds
  BY <1>21 DEF WatcherEnds, NoFault, Fault, runVars, instanceVars, workerVars
<1>22. CASE TimerFires
  BY <1>22 DEF TimerFires, runVars, instanceVars, bounds, workerVars
<1>23. CASE EditFile
  BY <1>23 DEF EditFile, runVars, instanceVars, workerVars
<1>24. CASE Terminate
  BY <1>24 DEF Terminate, workerVars, watcherVars, bounds
<1>25. CASE UNCHANGED vars
  BY <1>25 DEF vars, runVars, instanceVars, workerVars, watcherVars, bounds
<1> QED
  BY <1>1, <1>2, <1>3, <1>4, <1>5, <1>6, <1>7, <1>8, <1>9, <1>10, <1>11, <1>12,
     <1>13, <1>14, <1>15, <1>16, <1>17, <1>18, <1>19, <1>20, <1>21, <1>22, <1>23, <1>24,
     <1>25
  DEF Next, Run, Workers, Watcher, Stopped

-----------------------------------------------------------------------------
(* Which instance is in charge                                             *)

InCharge(i) ==
  \/ pc = "configure" /\ i = starting
  \/ pc \in Looping \cup Stopping /\ i = active

Idle(i) ==
  /\ ~socket[i] /\ ~Live(i)
  /\ http[i] \in {"off", "ended"} /\ updates[i] \in {"off", "ended"}

\* The instance being started, unless there is none, has no workers yet.
Opening ==
  \/ pc \in {"load", "watch", "listen", "configure"}
  \/ pc \in Stopping /\ purpose = "reload"

Unused ==
  \A i \in Instances :
    i > starting \/ (i = starting /\ Opening) =>
      http[i] = "off" /\ updates[i] = "off" /\ ~closing[i]

Position ==
  /\ pc \in Looping => starting = active
  /\ pc \in Stopping => \/ purpose = "exit" /\ starting = active
                        \/ purpose = "reload" /\ starting > active

\* A server that has returned took its listener with it.
Closed == \A i \in Instances : http[i] \in {"failed", "ended"} => ~socket[i]

\* The context of the instance in charge.
Contexts ==
  /\ pc \in Stopping => ~Live(active)
  /\ pc \in Looping /\ ~signal => Live(active)
  /\ pc = "configure" /\ ~signal => Live(starting)

\* A server that is not being shut down and has ended left an error.
Reported ==
  pc \in Looping =>
    /\ ~closing[active]
    /\ ~signal /\ http[active] = "ended" => errs[active] > 0

Quiet == \A i \in Instances : ~InCharge(i) => Idle(i)

Charge == Unused /\ Position /\ Closed /\ Contexts /\ Reported /\ Quiet /\ ModeMatches

IInv == TypeInv /\ Charge

LEMMA ChargeInit == Init => Charge
BY RuntimeAssumption, InstancesAre
DEF Init, Charge, Unused, Position, Closed, Contexts, Reported, Quiet, ModeMatches, InCharge,
    Idle, Opening, Live, Looping, Stopping

\* Every step keeps the instances in order.
LEMMA ChargeStep == TypeInv /\ Charge /\ [Next]_vars => Charge'
<1> SUFFICES ASSUME TypeInv, Charge, [Next]_vars PROVE Charge'
  OBVIOUS
<1> USE CountsAre, InstancesAre
  DEF TypeInv, TypeOK, Charge, Unused, Position, Closed, Contexts, Reported, Quiet,
      ModeMatches, InCharge, Idle, Opening, Live, Looping, Stopping
<1>1. CASE LoadAtBoot
  BY <1>1 DEF LoadAtBoot, Exit, instanceVars, watcherVars, bounds, workerVars
<1>2. CASE WatchAtBoot
  BY <1>2 DEF WatchAtBoot, NoFault, Fault, workerVars
<1>3. CASE Listen
  BY <1>3 DEF Listen, NoFault, Fault, watcherVars, StartFailed
<1>4. CASE Configure
  BY <1>4
  DEF Configure, NoFault, Fault, RegisterMode, CloseListener, watcherVars,
      StartFailed
<1>5. CASE Leave
  BY <1>5 DEF Leave, Stop, watcherVars, bounds
<1>6. CASE TakeEvent
  BY <1>6 DEF TakeEvent, instanceVars, bounds, workerVars
<1>7. CASE Reload
  BY <1>7 DEF Reload, Stop, workerVars, watcherVars, bounds
<1>8. CASE Shutdown
  BY <1>8 DEF Shutdown, watcherVars, bounds
<1>9. CASE Drained
  BY <1>9 DEF Drained, instanceVars, watcherVars, bounds, workerVars
<1>10. CASE Join
  <2>1. /\ pc = "join" /\ pc' \in {"listen", "exit"}
        /\ UNCHANGED <<purpose, active, starting, instanceVars, registered>>
        /\ http[active] = "ended" /\ updates[active] = "ended"
        /\ pc' = "listen" => purpose = "reload"
    BY <1>10 DEF Join, WorkersDone, TypeInv, TypeOK, Charge, Position, Stopping
  <2>2. Quiet'
    <3> SUFFICES ASSUME NEW i \in Instances PROVE Idle(i)'
      BY DEF Quiet
    <3>1. Idle(i)
      <4>1. CASE i = active
        BY <2>1, <4>1 DEF Charge, Closed, Contexts, Stopping, Idle
      <4>2. CASE i # active
        BY <2>1, <4>2 DEF Charge, Quiet, InCharge
      <4> QED
        BY <4>1, <4>2
    <3> QED
      BY <2>1, <3>1 DEF Idle, Live, instanceVars, workerVars
  <2>3. Unused'
    BY <2>1 DEF Charge, Unused, Opening, Stopping, instanceVars, workerVars
  <2> QED
    BY <2>1, <2>2, <2>3
    DEF Charge, Position, Closed, Contexts, Reported, ModeMatches, Live, Looping, Stopping,
        instanceVars, workerVars
<1>11. ASSUME NEW i \in Instances, Serve(i) PROVE Charge'
  <2>1. CASE closing[i]
    <3>1. /\ http' = [http EXCEPT ![i] = "ended"]
          /\ socket' = [socket EXCEPT ![i] = FALSE]
      BY <1>11, <2>1 DEF Serve
    <3> QED
      BY <1>11, <2>1, <3>1, SMTT(30) DEF Serve, runVars, watcherVars, bounds
  <2>2. CASE ~closing[i]
    <3>1. /\ http' = [http EXCEPT ![i] = "serving"]
          /\ socket' = [socket EXCEPT ![i] = TRUE]
      BY <1>11, <2>2 DEF Serve
    <3> QED
      BY <1>11, <2>2, <3>1, SMTT(30) DEF Serve, runVars, watcherVars, bounds
  <2> QED
    BY <2>1, <2>2
<1>12. ASSUME NEW i \in Instances, ServeReturns(i) PROVE Charge'
  BY <1>12 DEF ServeReturns, NoFault, Fault, runVars, watcherVars
<1>13. ASSUME NEW i \in Instances, ReportError(i) PROVE Charge'
  BY <1>13 DEF ReportError, SendError, runVars, watcherVars, bounds
<1>14. ASSUME NEW i \in Instances, UpdatesEnd(i) PROVE Charge'
  BY <1>14 DEF UpdatesEnd, runVars, watcherVars, bounds
<1>15. ASSUME NEW i \in Instances, RequestArrives(i) PROVE Charge'
  BY <1>15 DEF RequestArrives, runVars, workerVars, watcherVars, bounds
<1>16. ASSUME NEW i \in Instances, RequestEnds(i) PROVE Charge'
  BY <1>16 DEF RequestEnds, runVars, workerVars, watcherVars, bounds
<1>17. ASSUME NEW i \in Instances, HumanReturns(i) PROVE Charge'
  BY <1>17 DEF HumanReturns, runVars, workerVars, watcherVars, bounds
<1>18. CASE WatcherReceives
  BY <1>18 DEF WatcherReceives, Debounce, runVars, instanceVars, bounds, workerVars
<1>19. CASE WatcherNotifies
  BY <1>19 DEF WatcherNotifies, NoFault, Fault, runVars, instanceVars, workerVars
<1>20. CASE WatcherSends
  BY <1>20 DEF WatcherSends, Notify, GivesUp, runVars, instanceVars, bounds, workerVars
<1>21. CASE WatcherEnds
  BY <1>21 DEF WatcherEnds, NoFault, Fault, runVars, instanceVars, workerVars
<1>22. CASE TimerFires
  BY <1>22 DEF TimerFires, runVars, instanceVars, bounds, workerVars
<1>23. CASE EditFile
  BY <1>23 DEF EditFile, runVars, instanceVars, workerVars
<1>24. CASE Terminate
  BY <1>24 DEF Terminate, workerVars, watcherVars, bounds
<1>25. CASE UNCHANGED vars
  BY <1>25 DEF vars, runVars, instanceVars, workerVars, watcherVars, bounds
<1> QED
  BY <1>1, <1>2, <1>3, <1>4, <1>5, <1>6, <1>7, <1>8, <1>9, <1>10, <1>11, <1>12,
     <1>13, <1>14, <1>15, <1>16, <1>17, <1>18, <1>19, <1>20, <1>21, <1>22, <1>23, <1>24,
     <1>25
  DEF Next, Run, Workers, Watcher, Stopped

-----------------------------------------------------------------------------
(* The theorems                                                            *)

\* The invariant holds in every reachable state.
THEOREM RuntimeInvariant == Spec => []IInv
<1>1. Init => IInv
  BY TypeInit, ChargeInit DEF IInv
<1>2. IInv /\ [Next]_vars => IInv'
  BY TypeStep, EnoughStep, BuiltStep, ChargeStep DEF IInv, TypeInv
<1> QED
  BY <1>1, <1>2, PTL DEF Spec

\* Every variable keeps its type; there are instances enough for every edit.
THEOREM RuntimeTypeCorrect == Spec => []TypeOK
<1>1. IInv => TypeOK
  BY DEF IInv, TypeInv
<1> QED
  BY <1>1, RuntimeInvariant, PTL

\* Two instances never hold a listener or have workers at the same time.
THEOREM RuntimeOneInstance == Spec => []OneInstanceRuns
<1>1. IInv => OneInstanceRuns
  <2> SUFFICES ASSUME IInv, NEW i \in Instances, NEW j \in Instances,
                      i # j, http[i] \in {"spawned", "serving", "failed"}
               PROVE  ~socket[j] /\ updates[j] # "receiving"
    BY DEF OneInstanceRuns
  <2>1. InCharge(i)
    BY DEF IInv, Charge, Quiet, Idle
  <2>2. ~InCharge(j)
    BY <2>1 DEF InCharge, Looping, Stopping
  <2> QED
    BY <2>2 DEF IInv, Charge, Quiet, Idle
<1> QED
  BY <1>1, RuntimeInvariant, PTL

\* Whichever way run returns, nothing is left behind.
THEOREM RuntimeExitIsClean == Spec => []ExitIsClean
<1>1. IInv => ExitIsClean
  BY DEF IInv, Charge, Quiet, Idle, InCharge, Looping, Stopping, ExitIsClean
<1> QED
  BY <1>1, RuntimeInvariant, PTL

\* Telegram delivers the way the instance that receives updates expects.
THEOREM RuntimeModeMatches == Spec => []ModeMatches
<1>1. IInv => ModeMatches
  BY DEF IInv, Charge
<1> QED
  BY <1>1, RuntimeInvariant, PTL

\* An HTTP server that died on its own left an error for run.
THEOREM RuntimeDeadServerIsReported == Spec => []DeadServerIsReported
<1>1. IInv => DeadServerIsReported
  BY DEF IInv, Charge, Reported, Looping, DeadServerIsReported
<1> QED
  BY <1>1, RuntimeInvariant, PTL

\* No step drops an edit that is on its way to run.
LEMMA ChangeStep ==
  TypeInv /\ [Next]_vars =>
    (Watching /\ Watching' /\ ~WatchOver' /\ (OnItsWay \/ file' # file)
       => OnItsWay' \/ loaded' = file')
<1> SUFFICES ASSUME TypeInv, [Next]_vars, Watching, Watching', ~WatchOver',
                    OnItsWay \/ file' # file
             PROVE  OnItsWay' \/ loaded' = file'
  OBVIOUS
<1>1. CASE LoadAtBoot
  BY <1>1, CountsAre
  DEF LoadAtBoot, Exit, watcherVars, runVars, OnItsWay, Watching, WatchOver
<1>2. CASE WatchAtBoot
  BY <1>2, CountsAre
  DEF WatchAtBoot, Fault, runVars, TypeInv, Built, OnItsWay, Watching, WatchOver
<1>3. CASE Listen
  BY <1>3, CountsAre
  DEF Listen, Fault, watcherVars, runVars, StartFailed, OnItsWay, Watching,
      WatchOver
<1>4. CASE Configure
  BY <1>4, CountsAre
  DEF Configure, Fault, watcherVars, runVars, StartFailed, OnItsWay, Watching,
      WatchOver
<1>5. CASE Leave
  BY <1>5, CountsAre
  DEF Leave, Stop, watcherVars, runVars, OnItsWay, Watching, WatchOver
<1>6. CASE TakeEvent
  BY <1>6, CountsAre DEF TakeEvent, runVars, OnItsWay, Watching, WatchOver
<1>7. CASE Reload
  BY <1>7, CountsAre
  DEF Reload, Stop, watcherVars, runVars, OnItsWay, Watching, WatchOver
<1>8. CASE Shutdown
  BY <1>8, CountsAre DEF Shutdown, watcherVars, runVars, OnItsWay, Watching, WatchOver
<1>9. CASE Drained
  BY <1>9, CountsAre DEF Drained, watcherVars, runVars, OnItsWay, Watching, WatchOver
<1>10. CASE Join
  BY <1>10, CountsAre DEF Join, watcherVars, runVars, OnItsWay, Watching, WatchOver
<1>11. ASSUME NEW i \in Instances, Serve(i) PROVE OnItsWay' \/ loaded' = file'
  BY <1>11, CountsAre DEF Serve, runVars, watcherVars, OnItsWay, Watching, WatchOver
<1>12. ASSUME NEW i \in Instances, ServeReturns(i) PROVE OnItsWay' \/ loaded' = file'
  BY <1>12, CountsAre
  DEF ServeReturns, Fault, runVars, watcherVars, OnItsWay, Watching, WatchOver
<1>13. ASSUME NEW i \in Instances, ReportError(i) PROVE OnItsWay' \/ loaded' = file'
  BY <1>13, CountsAre
  DEF ReportError, SendError, runVars, watcherVars, OnItsWay, Watching, WatchOver
<1>14. ASSUME NEW i \in Instances, UpdatesEnd(i) PROVE OnItsWay' \/ loaded' = file'
  BY <1>14, CountsAre
  DEF UpdatesEnd, runVars, watcherVars, OnItsWay, Watching, WatchOver
<1>15. ASSUME NEW i \in Instances, RequestArrives(i) PROVE OnItsWay' \/ loaded' = file'
  BY <1>15, CountsAre
  DEF RequestArrives, runVars, watcherVars, OnItsWay, Watching, WatchOver
<1>16. ASSUME NEW i \in Instances, RequestEnds(i) PROVE OnItsWay' \/ loaded' = file'
  BY <1>16, CountsAre
  DEF RequestEnds, runVars, watcherVars, OnItsWay, Watching, WatchOver
<1>17. ASSUME NEW i \in Instances, HumanReturns(i) PROVE OnItsWay' \/ loaded' = file'
  BY <1>17, CountsAre
  DEF HumanReturns, runVars, watcherVars, OnItsWay, Watching, WatchOver
<1>18. CASE WatcherReceives
  BY <1>18, CountsAre
  DEF WatcherReceives, Debounce, runVars, TypeInv, Built, OnItsWay, Watching,
      WatchOver
<1>19. CASE WatcherNotifies
  BY <1>19, CountsAre DEF WatcherNotifies, Fault, runVars, OnItsWay, Watching, WatchOver
<1>20. CASE WatcherSends
  BY <1>20, CountsAre
  DEF WatcherSends, Notify, GivesUp, runVars, OnItsWay, Watching, WatchOver
<1>21. CASE WatcherEnds
  BY <1>21, CountsAre DEF WatcherEnds, Fault, runVars, OnItsWay, Watching, WatchOver
<1>22. CASE TimerFires
  BY <1>22, CountsAre DEF TimerFires, runVars, OnItsWay, Watching, WatchOver
<1>23. CASE EditFile
  BY <1>23, CountsAre
  DEF EditFile, runVars, TypeInv, Built, OnItsWay, Watching, WatchOver
<1>24. CASE Terminate
  BY <1>24, CountsAre DEF Terminate, watcherVars, runVars, OnItsWay, Watching, WatchOver
<1>25. CASE UNCHANGED vars
  BY <1>25 DEF vars, runVars, watcherVars, OnItsWay, Watching, WatchOver
<1> QED
  BY <1>1, <1>2, <1>3, <1>4, <1>5, <1>6, <1>7, <1>8, <1>9, <1>10, <1>11, <1>12,
     <1>13, <1>14, <1>15, <1>16, <1>17, <1>18, <1>19, <1>20, <1>21, <1>22, <1>23, <1>24,
     <1>25
  DEF Next, Run, Workers, Watcher, Stopped

\* An edit of the watched file stays on its way until run has read it.
THEOREM RuntimeKeepsChanges == Spec => ChangeIsNeverLost
<1>1. IInv /\ [Next]_vars =>
        [Watching /\ Watching' /\ ~WatchOver' /\ (OnItsWay \/ file' # file)
           => OnItsWay' \/ loaded' = file']_vars
  BY ChangeStep DEF IInv, TypeInv
<1> QED
  BY <1>1, RuntimeInvariant, PTL DEF Spec, ChangeIsNeverLost

-----------------------------------------------------------------------------
(* A reload is a transaction                                               *)

\* What start and stop are for, and which configurations are at stake: a candidate's
\* differs from the one in charge, a rollback's does not.
Errand ==
  /\ active <= starting
  /\ pc \in {"load", "watch", "listen", "configure"} => purpose # "exit"
  /\ pc \in Looping => purpose # "exit"
  /\ pc \in Stopping => purpose \in {"exit", "reload"}
  /\ purpose = "reload" /\ pc \in Stopping \cup {"listen", "configure"} =>
       conf[starting] # conf[active]
  /\ purpose = "rollback" /\ pc \in {"listen", "configure"} =>
       conf[starting] = conf[active]

LEMMA ErrandInit == Init => Errand
BY DEF Init, Errand, Looping, Stopping

\* All that the promise sees of the state.
promised == <<pc, purpose, active, starting, conf>>

\* Everybody but run leaves it alone.
LEMMA OnlyRunMoves ==
  ASSUME [Next]_vars
  PROVE  Run \/ UNCHANGED promised
BY DEF Next, Workers, Serve, ServeReturns, ReportError, UpdatesEnd, RequestArrives,
       RequestEnds, HumanReturns, Watcher, WatcherReceives, WatcherNotifies, WatcherSends,
       WatcherEnds, TimerFires, EditFile, Terminate, Stopped, vars, runVars, instanceVars,
       promised

\* The configuration of a new instance comes to those there were.
LEMMA OneMoreConfig ==
  ASSUME TypeOK, Errand, starting + 1 \in Instances, NEW c,
         conf' = [conf EXCEPT ![starting + 1] = c]
  PROVE  conf'[starting + 1] = c /\ conf'[active] = conf[active] /\ active < starting + 1
BY CountsAre DEF TypeOK, Errand

\* A candidate that failed makes room for a rollback.
LEMMA StartFailedErrand ==
  ASSUME TypeInv, Errand, pc \in {"listen", "configure"}, StartFailed
  PROVE  \/ /\ purpose = "reload" /\ purpose' = "rollback" /\ pc' = "listen"
            /\ starting' = starting + 1 /\ conf'[starting'] = conf[active]
            /\ conf'[active] = conf[active] /\ active < starting'
         \/ /\ purpose # "reload" /\ pc' = "exit"
            /\ UNCHANGED <<purpose, starting, conf>>
<1>1. CASE purpose = "reload"
  <2>1. starting + 1 \in Instances
    BY <1>1, RoomForOne DEF TypeInv
  <2> QED
    BY <1>1, <2>1, OneMoreConfig DEF StartFailed, TypeInv
<1>2. CASE purpose # "reload"
  BY <1>2 DEF StartFailed
<1> QED
  BY <1>1, <1>2

LEMMA ErrandStep == TypeInv /\ Charge /\ Errand /\ [Next]_vars => Errand'
<1> SUFFICES ASSUME TypeInv, Charge, Errand, [Next]_vars PROVE Errand'
  OBVIOUS
<1> USE CountsAre DEF TypeInv, Errand, Looping, Stopping
<1>1. CASE LoadAtBoot
  BY <1>1 DEF LoadAtBoot, Exit, instanceVars
<1>2. CASE WatchAtBoot
  BY <1>2 DEF WatchAtBoot, Built
<1>3. CASE Listen
  BY <1>3, StartFailedErrand DEF Listen
<1>4. CASE Configure
  BY <1>4, StartFailedErrand DEF Configure
<1>5. CASE Leave
  BY <1>5 DEF Leave, Stop
<1>6. CASE TakeEvent
  BY <1>6 DEF TakeEvent, instanceVars
<1>7. CASE Reload
  <2>1. CASE file \in {Invalid, conf[active]} /\ pc' = "select" /\ UNCHANGED <<purpose, starting, conf>>
    BY <1>7, <2>1 DEF Reload
  <2>2. CASE /\ file # conf[active] /\ starting' = starting + 1
             /\ conf' = [conf EXCEPT ![starting + 1] = file]
             /\ Stop("reload", "reloading")
    <3>1. starting + 1 \in Instances
      BY <1>7, RoomForOne DEF Reload
    <3>2. conf'[starting'] = file /\ conf'[active] = conf[active] /\ active < starting'
      BY <2>2, <3>1, OneMoreConfig
    <3>3. pc' = "shutdown" /\ purpose' = "reload" /\ active' = active
      BY <1>7, <2>2 DEF Reload, Stop
    <3> QED
      BY <2>2, <3>2, <3>3
  <2> QED
    BY <1>7, <2>1, <2>2 DEF Reload
<1>8. CASE Shutdown
  BY <1>8 DEF Shutdown
<1>9. CASE Drained
  BY <1>9 DEF Drained, instanceVars
<1>10. CASE Join
  BY <1>10 DEF Join, instanceVars
<1>11. CASE UNCHANGED promised
  BY <1>11 DEF promised
<1> QED
  BY <1>1, <1>2, <1>3, <1>4, <1>5, <1>6, <1>7, <1>8, <1>9, <1>10, <1>11, OnlyRunMoves DEF Run

\* What the promise sees at each place in run.
LEMMA StagesAre ==
  TypeOK => /\ pc \in {"load", "watch"} <=> Stage = "new"
            /\ pc \in {"listen", "configure"} <=> Stage = "starting"
            /\ pc \in Looping <=> Stage = "up"
            /\ pc \in Stopping <=> Stage = "ending"
            /\ pc = "exit" <=> Stage = "over"
BY DEF TypeOK, Stage, Looping, Stopping

\* A start that failed restores what was, or is the end.
LEMMA StartFailedPromise ==
  ASSUME TypeInv, Errand, pc \in {"listen", "configure"}, StartFailed, UNCHANGED active
  PROVE  Promise!Next
<1> USE DEF Stage, Current, Upcoming
<1>1. conf[active] \in Configs /\ conf[active] # Invalid
  BY RuntimeAssumption DEF TypeInv, Built
<1>2. CASE purpose = "reload"
  <2>1. /\ purpose' = "rollback" /\ pc' = "listen" /\ starting' = starting + 1
        /\ conf'[starting'] = conf[active] /\ conf'[active] = conf[active]
    BY <1>2, StartFailedErrand
  <2>2. Promise!Restore
    BY <1>1, <1>2, <2>1 DEF Errand, Promise!Restore
  <2> QED
    BY <2>2 DEF Promise!Next
<1>3. CASE purpose # "reload"
  <2>1. pc' = "exit" /\ UNCHANGED <<purpose, starting, conf>>
    BY <1>3, StartFailedErrand
  <2>2. Current \in {Invalid, Upcoming}
    BY <1>3 DEF TypeInv, TypeOK, Errand
  <2>3. Promise!GiveUp
    BY <2>1, <2>2 DEF Promise!GiveUp
  <2> QED
    BY <2>3 DEF Promise!Next
<1> QED
  BY <1>2, <1>3

\* Every step of run is one of the promise, or none.
LEMMA PromiseStep ==
  ASSUME TypeInv, TypeInv', Charge, Errand, [Next]_vars
  PROVE  [Promise!Next]_Promise!succession
<1> USE DEF Promise!succession, Stage, Current, Upcoming
<1>1. CASE LoadAtBoot
  <2>1. CASE pc' = "watch"
    BY <1>1, <2>1 DEF LoadAtBoot, instanceVars, TypeInv, Built
  <2>2. CASE pc' = "exit"
    BY <1>1, <2>2 DEF LoadAtBoot, Exit, instanceVars, TypeInv, Built, Promise!GiveUp, Promise!Next
  <2> QED
    BY <1>1, <2>1, <2>2 DEF LoadAtBoot, Exit
<1>2. CASE WatchAtBoot
  BY <1>2 DEF WatchAtBoot, TypeInv, TypeOK, Built, Promise!Boot, Promise!GiveUp, Promise!Next
<1>3. CASE Listen
  <2>1. CASE StartFailed
    <3>1. pc = "listen" /\ UNCHANGED active
      BY <1>3 DEF Listen
    <3> QED
      BY <2>1, <3>1, StartFailedPromise
  <2>2. CASE ~StartFailed
    BY <1>3, <2>2 DEF Listen
  <2> QED
    BY <2>1, <2>2
<1>4. CASE Configure
  <2>1. CASE StartFailed /\ UNCHANGED active
    <3>1. pc = "configure"
      BY <1>4 DEF Configure
    <3> QED
      BY <2>1, <3>1, StartFailedPromise
  <2>2. CASE active' = starting /\ pc' = "select" /\ UNCHANGED <<purpose, starting, conf>>
    BY <1>4, <2>2 DEF Configure, Promise!Up, Promise!Next
  <2> QED
    BY <1>4, <2>1, <2>2 DEF Configure
<1>5. CASE Leave
  BY <1>5 DEF Leave, Stop, Errand, Looping, Promise!Finish, Promise!Next
<1>6. CASE TakeEvent
  BY <1>6 DEF TakeEvent, instanceVars
<1>7. CASE Reload
  <2>1. CASE pc' = "select" /\ UNCHANGED <<purpose, starting, conf>>
    BY <1>7, <2>1 DEF Reload
  <2>2. CASE /\ file \notin {Invalid, conf[active]} /\ starting' = starting + 1
             /\ conf' = [conf EXCEPT ![starting + 1] = file]
             /\ Stop("reload", "reloading")
    <3>1. starting + 1 \in Instances
      BY <1>7, RoomForOne DEF Reload, TypeInv
    <3>2. conf'[starting'] = file /\ conf'[active] = conf[active]
      BY <2>2, <3>1, OneMoreConfig DEF TypeInv
    <3>3. file \in Configs
      BY <2>2 DEF TypeInv, TypeOK
    <3>4. pc = "reload" /\ pc' = "shutdown" /\ purpose' = "reload" /\ active' = active
      BY <1>7, <2>2 DEF Reload, Stop
    <3>5. Promise!Replace(file)
      BY <2>2, <3>2, <3>4 DEF Promise!Replace
    <3> QED
      BY <3>3, <3>5 DEF Promise!Next
  <2> QED
    BY <1>7, <2>1, <2>2 DEF Reload
<1>8. CASE Shutdown
  BY <1>8 DEF Shutdown
<1>9. CASE Drained
  BY <1>9 DEF Drained, instanceVars
<1>10. CASE Join
  BY <1>10, RuntimeAssumption
  DEF Join, instanceVars, TypeInv, TypeOK, Built, Errand, Stopping, Promise!Start, Promise!GiveUp, Promise!Next
<1>11. CASE UNCHANGED promised
  BY <1>11 DEF promised
<1> QED
  BY <1>1, <1>2, <1>3, <1>4, <1>5, <1>6, <1>7, <1>8, <1>9, <1>10, <1>11, OnlyRunMoves DEF Run

\* However many edits and failures there are, whenever the signal comes: the process
\* serves one configuration after the other, and one that cannot be started is rolled
\* back, once.
THEOREM RuntimeReplacesOrRestores == Spec => ReplacesOrRestores
<1>1. Init => Promise!Init
  BY DEF Init, Promise!Init, Stage, Current, Upcoming
<1>2. Init => Errand
  BY ErrandInit
<1>3. IInv /\ Errand /\ [Next]_vars => Errand'
  BY ErrandStep DEF IInv
<1>4. IInv => TypeInv /\ Charge
  BY DEF IInv
<1>5. TypeInv /\ TypeInv' /\ Charge /\ Errand /\ [Next]_vars => [Promise!Next]_Promise!succession
  BY PromiseStep
<1> QED
  BY <1>1, <1>2, <1>3, <1>4, <1>5, RuntimeInvariant, PTL DEF Spec, ReplacesOrRestores, Promise!Spec

=============================================================================
