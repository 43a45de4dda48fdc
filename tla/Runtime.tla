------------------------------- MODULE Runtime -------------------------------
(***************************************************************************)
(* The process around the completion service: cmd/sotapi/runtime.go runs   *)
(* one instance of the service at a time and replaces it when the file     *)
(* watcher of internal/config/watcher.go reports that the configuration    *)
(* may have changed.                                                       *)
(*                                                                         *)
(* Four kinds of goroutine share the state: run itself, the two workers of *)
(* an instance (HTTP server, Telegram updates), the HTTP handlers, and the *)
(* watcher.  The environment edits the file, signals the process, sends    *)
(* requests and makes calls fail.                                          *)
(*                                                                         *)
(* pc is where run stands: load and watch while the process boots, listen  *)
(* and configure in start, select in the loop, reload when an event was    *)
(* received, shutdown, drain and join in stop, exit at the end.            *)
(***************************************************************************)
EXTENDS Integers

CONSTANTS Configs,      \* contents of the file that load and build accept
          ModeOf,       \* the update mode a configuration asks for
          Invalid,      \* any other content, an edit in progress or no file
          Faults,       \* what can fail: "listen", "configure", "serve", "watch"
          MaxWrites,    \* bound: edits of the file
          MaxFaults,    \* bound: failures
          MaxRequests   \* bound: requests in flight per instance

Modes == {"polling", "webhook"}

ASSUME RuntimeAssumption ==
  /\ Configs # {} /\ Invalid \notin Configs
  /\ ModeOf \in [Configs -> Modes]
  /\ Faults \subseteq {"listen", "configure", "serve", "watch"}
  /\ MaxWrites \in Nat /\ MaxFaults \in Nat /\ MaxRequests \in Nat

\* Every edit is announced once and leads to a candidate and a rollback at most.
Instances == 1 .. (1 + 2 * MaxWrites)

VARIABLES
  \* run
  pc,         \* where run stands
  purpose,    \* what start or stop is for: "boot", "reload", "rollback", "exit"
  loaded,     \* what the last loadRuntimeConfig returned
  active,     \* the instance in charge
  starting,   \* the instance being started, the last one that was created
  signal,     \* SIGINT or SIGTERM has arrived
  \* instances
  conf,       \* the configuration an instance was built from
  runCtx,     \* its context: "none", "live", or the cause that ended it
  socket,     \* its listener is open
  closing,    \* its server's Shutdown was called
  http,       \* its HTTP worker
  updates,    \* its update worker
  errs,       \* errors in its channel of capacity two
  requests,   \* HTTP handlers in flight
  away,       \* its availability store has the human offline
  \* Telegram
  registered, \* the update mode Telegram was last told
  \* watcher
  file,       \* the configuration file
  fsEvents,   \* file system events not yet received by the watcher
  timer,      \* its debounce timer: "off", "armed" or "fired"
  watcher,    \* "off", "select", "ended", or what it is sending
  output,     \* the channel of capacity one to run: "empty", or an event
  \* bounds
  writes, faults

runVars == <<pc, purpose, loaded, active, starting, signal>>
workerVars == <<socket, closing, http, updates, errs>>
instanceVars == <<conf, runCtx, workerVars, requests, away>>
watcherVars == <<fsEvents, timer, watcher, output>>
bounds == <<writes, faults>>
vars == <<runVars, instanceVars, registered, file, watcherVars, bounds>>

TypeOK ==
  /\ pc \in {"load", "watch", "listen", "configure", "select", "reload",
             "shutdown", "drain", "join", "exit"}
  /\ purpose \in {"boot", "reload", "rollback", "exit"}
  /\ loaded \in Configs \cup {Invalid}
  /\ active \in Instances /\ starting \in Instances
  /\ signal \in BOOLEAN
  /\ conf \in [Instances -> Configs \cup {Invalid}]
  /\ runCtx \in [Instances -> {"none", "live", "reloading", "stopped"}]
  /\ socket \in [Instances -> BOOLEAN]
  /\ closing \in [Instances -> BOOLEAN]
  /\ http \in [Instances -> {"off", "spawned", "serving", "failed", "ended"}]
  /\ updates \in [Instances -> {"off", "receiving", "ended"}]
  /\ errs \in [Instances -> 0 .. 2]
  /\ requests \in [Instances -> 0 .. MaxRequests]
  /\ away \in [Instances -> BOOLEAN]
  /\ registered \in Modes
  /\ file \in Configs \cup {Invalid}
  /\ fsEvents \in 0 .. MaxWrites
  /\ timer \in {"off", "armed", "fired"}
  /\ watcher \in {"off", "select", "change", "error", "ended"}
  /\ output \in {"empty", "change", "error"}
  /\ writes \in 0 .. MaxWrites /\ faults \in 0 .. MaxFaults

Init ==
  /\ pc = "load" /\ purpose = "boot" /\ loaded = Invalid
  /\ active = 1 /\ starting = 1 /\ signal = FALSE
  /\ conf = [i \in Instances |-> Invalid]
  /\ runCtx = [i \in Instances |-> "none"]
  /\ socket = [i \in Instances |-> FALSE]
  /\ closing = [i \in Instances |-> FALSE]
  /\ http = [i \in Instances |-> "off"]
  /\ updates = [i \in Instances |-> "off"]
  /\ errs = [i \in Instances |-> 0]
  /\ requests = [i \in Instances |-> 0]
  /\ away = [i \in Instances |-> FALSE]
  /\ registered \in Modes
  /\ file \in Configs \cup {Invalid}
  /\ fsEvents = 0 /\ timer = "off" /\ watcher = "off" /\ output = "empty"
  /\ writes = 0 /\ faults = 0

Live(i) == runCtx[i] = "live"

\* A failure of kind f, while the bound allows one.
Fault(f) == f \in Faults /\ faults < MaxFaults /\ faults' = faults + 1

NoFault == UNCHANGED faults

-----------------------------------------------------------------------------
(* run: boot                                                               *)

Exit == pc' = "exit" /\ UNCHANGED purpose

\* The file is read before it is watched.  What cannot be served is refused here or,
\* where Load accepts it, when the instance is built.
LoadAtBoot ==
  /\ pc = "load"
  /\ loaded' = file
  /\ \/ file = Invalid /\ Exit
     \/ pc' = "watch" /\ UNCHANGED purpose
  /\ UNCHANGED <<active, starting, signal, instanceVars, registered, file,
                 watcherVars, bounds>>

\* config.Watch, then newRuntimeInstance for what was read, which may refuse it and
\* leave the watcher to its context.
WatchAtBoot ==
  /\ pc = "watch"
  /\ \/ /\ loaded # Invalid
        /\ watcher' = "select"
        /\ conf' = [conf EXCEPT ![starting] = loaded]
        /\ pc' = "listen" /\ NoFault
     \/ /\ loaded = Invalid
        /\ watcher' = "select"
        /\ pc' = "exit" /\ NoFault
        /\ UNCHANGED conf
     \/ Fault("watch") /\ pc' = "exit" /\ UNCHANGED <<watcher, conf>>
  /\ UNCHANGED <<purpose, loaded, active, starting, signal, runCtx, workerVars,
                 requests, away, registered, file, fsEvents, timer, output,
                 writes>>

-----------------------------------------------------------------------------
(* start                                                                   *)

\* Seeded fault: a rollback that failed is tried again.
RollbackAgain ==
  IF purpose # "boot"
  THEN /\ purpose' = "rollback"
       /\ starting' = starting + 1
       /\ conf' = [conf EXCEPT ![starting + 1] = conf[active]]
       /\ pc' = "listen"
  ELSE /\ pc' = "exit"
       /\ UNCHANGED <<purpose, starting, conf>>

\* start returned an error.  At boot, and when the previous configuration
\* cannot be restored, run returns it; a candidate's failure restores the
\* previous configuration in an instance of its own.
StartFailed ==
  IF purpose = "reload"
  THEN /\ purpose' = "rollback"
       /\ starting' = starting + 1
       /\ conf' = [conf EXCEPT ![starting + 1] = conf[active]]
       /\ pc' = "listen"
  ELSE /\ pc' = "exit"
       /\ UNCHANGED <<purpose, starting, conf>>

\* net.Listen fails when the address is taken, by this process or another one.
PortIsFree == \A i \in Instances : ~socket[i]

Listen ==
  /\ pc = "listen"
  /\ \/ /\ PortIsFree
        /\ socket' = [socket EXCEPT ![starting] = TRUE]
        /\ runCtx' = [runCtx EXCEPT ![starting] =
                        IF signal THEN "stopped" ELSE "live"]
        /\ pc' = "configure"
        /\ UNCHANGED <<purpose, starting, conf>> /\ NoFault
     \/ /\ \/ ~PortIsFree /\ NoFault
           \/ PortIsFree /\ Fault("listen")
        /\ StartFailed
        /\ UNCHANGED <<socket, runCtx>>
  /\ UNCHANGED <<loaded, active, signal, closing, http, updates, errs, requests,
                 away, registered, file, watcherVars, writes>>

\* Seeded fault: a rollback trusts that Telegram still has its mode.
RegisterUnlessRollback ==
  registered' = IF purpose = "rollback" THEN registered ELSE ModeOf[conf[starting]]

\* setWebhook or deleteWebhook took effect.
RegisterMode == registered' = ModeOf[conf[starting]]

\* Seeded fault: the listener of a failed start stays open.
KeepListener == UNCHANGED socket

CloseListener == socket' = [socket EXCEPT ![starting] = FALSE]

\* Configure, then the two workers.  A call that failed may have taken effect
\* at Telegram all the same.
Configure ==
  /\ pc = "configure"
  /\ \/ /\ Live(starting)
        /\ RegisterMode
        /\ http' = [http EXCEPT ![starting] = "spawned"]
        /\ updates' = [updates EXCEPT ![starting] = "receiving"]
        /\ active' = starting
        /\ pc' = "select"
        /\ UNCHANGED <<runCtx, socket, purpose, starting, conf>> /\ NoFault
     \/ /\ \/ ~Live(starting) /\ NoFault
           \/ Live(starting) /\ Fault("configure")
        /\ RegisterMode \/ UNCHANGED registered
        /\ runCtx' = [runCtx EXCEPT ![starting] = "stopped"]
        /\ CloseListener
        /\ StartFailed
        /\ UNCHANGED <<http, updates, active>>
  /\ UNCHANGED <<loaded, signal, closing, errs, requests, away, file,
                 watcherVars, writes>>

-----------------------------------------------------------------------------
(* run: the loop                                                           *)

\* Seeded fault: stop forgets to cancel.
StopKeepsContext(why, cause) ==
  purpose' = why /\ pc' = "shutdown" /\ UNCHANGED runCtx

\* stop begins by ending the instance's context, unless the signal has.
Stop(why, cause) ==
  /\ purpose' = why
  /\ runCtx' = [runCtx EXCEPT ![active] = IF @ = "live" THEN cause ELSE @]
  /\ pc' = "shutdown"

\* The three reasons to leave the loop: the signal, an error of a worker, and
\* the end of the watcher.
Leave ==
  /\ pc = "select"
  /\ \/ signal /\ UNCHANGED errs
     \/ errs[active] > 0 /\ errs' = [errs EXCEPT ![active] = @ - 1]
     \/ watcher = "ended" /\ output = "empty" /\ UNCHANGED errs
  /\ Stop("exit", "stopped")
  /\ UNCHANGED <<loaded, active, starting, signal, conf, socket, closing, http,
                 updates, requests, away, registered, file, watcherVars, bounds>>

\* An event is taken from the watcher; an error is only logged.
TakeEvent ==
  /\ pc = "select" /\ output # "empty"
  /\ output' = "empty"
  /\ pc' = IF output = "change" THEN "reload" ELSE "select"
  /\ UNCHANGED <<purpose, loaded, active, starting, signal, instanceVars,
                 registered, file, fsEvents, timer, watcher, bounds>>

\* The file is read again.  One that is rejected, or is what the active instance
\* runs with, changes nothing; for any other the candidate is built and the
\* active instance stopped.
Reload ==
  /\ pc = "reload"
  /\ loaded' = file
  /\ \/ /\ file \in {Invalid, conf[active]}
        /\ pc' = "select"
        /\ UNCHANGED <<purpose, starting, conf, runCtx>>
     \/ /\ file \notin {Invalid, conf[active]}
        /\ starting' = starting + 1
        /\ conf' = [conf EXCEPT ![starting + 1] = file]
        /\ Stop("reload", "reloading")
  /\ UNCHANGED <<active, signal, workerVars, requests, away, registered, file,
                 watcherVars, bounds>>

-----------------------------------------------------------------------------
(* stop                                                                    *)

\* Server.Shutdown closes the listener the server has taken over; one that
\* Serve has not taken over yet is closed by Serve.
Shutdown ==
  /\ pc = "shutdown"
  /\ closing' = [closing EXCEPT ![active] = TRUE]
  /\ socket' = [socket EXCEPT ![active] = @ /\ http[active] = "spawned"]
  /\ pc' = "drain"
  /\ UNCHANGED <<purpose, loaded, active, starting, signal, conf, runCtx, http,
                 updates, errs, requests, away, registered, file, watcherVars,
                 bounds>>

\* Shutdown returns when no handler is left, or after the shutdown timeout, when
\* Close drops the connections and leaves the handlers behind: either way.
Drained ==
  /\ pc = "drain"
  /\ pc' = "join"
  /\ UNCHANGED <<purpose, loaded, active, starting, signal, instanceVars,
                 registered, file, watcherVars, bounds>>

\* Seeded fault: a reload does not wait for the update worker.
UpdatesAbandoned ==
  http[active] = "ended" /\ (purpose = "exit" \/ signal => updates[active] = "ended")

WorkersDone == http[active] = "ended" /\ updates[active] = "ended"

\* The instance is gone once both workers are: run ends, or starts the candidate
\* unless the signal arrived meanwhile.
Join ==
  /\ pc = "join" /\ WorkersDone
  /\ pc' = IF purpose = "exit" \/ signal THEN "exit" ELSE "listen"
  /\ UNCHANGED <<purpose, loaded, active, starting, signal, instanceVars,
                 registered, file, watcherVars, bounds>>

-----------------------------------------------------------------------------
(* The workers of an instance                                              *)

\* Serve refuses to start on a server that is shutting down.
Serve(i) ==
  /\ http[i] = "spawned"
  /\ http' = [http EXCEPT ![i] = IF closing[i] THEN "ended" ELSE "serving"]
  /\ socket' = [socket EXCEPT ![i] = ~closing[i]]
  /\ UNCHANGED <<runVars, conf, runCtx, closing, updates, errs, requests, away,
                 registered, file, watcherVars, bounds>>

\* Serve returns ErrServerClosed after Shutdown, any other error closes the
\* listener and is reported.
ServeReturns(i) ==
  /\ http[i] = "serving"
  /\ \/ closing[i] /\ http' = [http EXCEPT ![i] = "ended"] /\ NoFault
     \/ ~closing[i] /\ Fault("serve") /\ http' = [http EXCEPT ![i] = "failed"]
  /\ socket' = [socket EXCEPT ![i] = FALSE]
  /\ UNCHANGED <<runVars, conf, runCtx, closing, updates, errs, requests, away,
                 registered, file, watcherVars, writes>>

\* Seeded fault: an error is reported only if run is waiting for it.
SendErrorIfAwaited(i) == errs' = [errs EXCEPT ![i] = IF pc = "select" THEN 1 ELSE @]

SendError(i) == errs[i] < 2 /\ errs' = [errs EXCEPT ![i] = @ + 1]

\* reportError: either branch of the select when both are ready.
ReportError(i) ==
  /\ http[i] = "failed"
  /\ SendError(i) \/ (~Live(i) /\ UNCHANGED errs)
  /\ http' = [http EXCEPT ![i] = "ended"]
  /\ UNCHANGED <<runVars, conf, runCtx, socket, closing, updates, requests, away,
                 registered, file, watcherVars, bounds>>

\* Seeded fault: only a polling client looks at its context.
OnlyPollingReturns(i) == ~Live(i) /\ ModeOf[conf[i]] = "polling"

MayReturn(i) == ~Live(i)

\* Receive returns, never with an error, once the instance's context has ended.
UpdatesEnd(i) ==
  /\ updates[i] = "receiving" /\ MayReturn(i)
  /\ updates' = [updates EXCEPT ![i] = "ended"]
  /\ UNCHANGED <<runVars, conf, runCtx, socket, closing, http, errs, requests,
                 away, registered, file, watcherVars, bounds>>

-----------------------------------------------------------------------------
(* HTTP handlers and the availability store they change                    *)

RequestArrives(i) ==
  /\ http[i] = "serving" /\ ~closing[i] /\ requests[i] < MaxRequests
  /\ requests' = [requests EXCEPT ![i] = @ + 1]
  /\ UNCHANGED <<runVars, conf, runCtx, workerVars, away, registered, file,
                 watcherVars, bounds>>

\* A handler returns; its request may have been the miss that takes the human
\* offline.
RequestEnds(i) ==
  /\ requests[i] > 0
  /\ requests' = [requests EXCEPT ![i] = @ - 1]
  /\ UNCHANGED away \/ (Live(i) /\ away' = [away EXCEPT ![i] = TRUE])
  /\ UNCHANGED <<runVars, conf, runCtx, workerVars, registered, file,
                 watcherVars, bounds>>

\* /online.
HumanReturns(i) ==
  /\ updates[i] = "receiving" /\ away[i]
  /\ away' = [away EXCEPT ![i] = FALSE]
  /\ UNCHANGED <<runVars, conf, runCtx, workerVars, requests, registered, file,
                 watcherVars, bounds>>

-----------------------------------------------------------------------------
(* The watcher                                                             *)

Watching == watcher \notin {"off", "ended"}

\* watchCtx has ended: with the signal, or when run returned.
WatchOver == signal \/ pc = "exit"

\* Seeded fault: a running timer is stopped but not reset.
DebounceStops == timer' = IF timer = "off" THEN "armed" ELSE "off"

\* Every relevant event starts the debounce timer anew; one that has fired
\* already is drained first.
Debounce == timer' = "armed"

WatcherReceives ==
  /\ watcher = "select" /\ fsEvents > 0
  /\ fsEvents' = fsEvents - 1
  /\ Debounce
  /\ UNCHANGED <<runVars, instanceVars, registered, file, watcher, output, bounds>>

TimerFires ==
  /\ timer = "armed"
  /\ timer' = "fired"
  /\ UNCHANGED <<runVars, instanceVars, registered, file, fsEvents, watcher,
                 output, bounds>>

\* What the watcher has to say: a change when the timer fired, or an error.
WatcherNotifies ==
  /\ watcher = "select"
  /\ \/ timer = "fired" /\ timer' = "off" /\ watcher' = "change" /\ NoFault
     \/ Fault("watch") /\ watcher' = "error" /\ UNCHANGED timer
  /\ UNCHANGED <<runVars, instanceVars, registered, file, fsEvents, output, writes>>

\* Seeded fault: an event is dropped when the channel is full.
NotifyIfRoom ==
  /\ watcher \in {"change", "error"}
  /\ output' = IF output = "empty" THEN watcher ELSE output

\* notifyWatchEvent waits for room.
Notify ==
  /\ watcher \in {"change", "error"} /\ output = "empty"
  /\ output' = watcher

\* Seeded fault: the send does not look at the context.
NeverGivesUp == FALSE

GivesUp == watcher \in {"change", "error"} /\ WatchOver /\ UNCHANGED output

WatcherSends ==
  /\ Notify \/ GivesUp
  /\ watcher' = "select"
  /\ UNCHANGED <<runVars, instanceVars, registered, file, fsEvents, timer, bounds>>

\* watchFile returns when its context or fsnotify's channels end.
WatcherEnds ==
  /\ watcher = "select"
  /\ (WatchOver /\ NoFault) \/ Fault("watch")
  /\ watcher' = "ended" /\ timer' = "off"
  /\ UNCHANGED <<runVars, instanceVars, registered, file, fsEvents, output, writes>>

-----------------------------------------------------------------------------
(* The environment                                                         *)

\* The file is edited.  An edit between the first load and the watch is
\* announced to nobody.
EditFile ==
  /\ writes < MaxWrites /\ pc # "exit"
  /\ writes' = writes + 1
  /\ file' \in Configs \cup {Invalid}
  /\ fsEvents' = IF Watching THEN fsEvents + 1 ELSE fsEvents
  /\ UNCHANGED <<runVars, instanceVars, registered, timer, watcher, output, faults>>

\* The signal ends the parent of every context.
Terminate ==
  /\ ~signal /\ pc # "exit"
  /\ signal' = TRUE
  /\ runCtx' = [i \in Instances |-> IF Live(i) THEN "stopped" ELSE runCtx[i]]
  /\ UNCHANGED <<pc, purpose, loaded, active, starting, conf, workerVars,
                 requests, away, registered, file, watcherVars, bounds>>

\* run has returned.
Stopped == pc = "exit" /\ UNCHANGED vars

-----------------------------------------------------------------------------
Run == LoadAtBoot \/ WatchAtBoot \/ Listen \/ Configure \/ Leave \/ TakeEvent
       \/ Reload \/ Shutdown \/ Drained \/ Join

Workers(i) == Serve(i) \/ ServeReturns(i) \/ ReportError(i) \/ UpdatesEnd(i)

Watcher == WatcherReceives \/ WatcherNotifies \/ WatcherSends \/ WatcherEnds

Next ==
  \/ Run
  \/ \E i \in Instances : Workers(i) \/ RequestArrives(i) \/ RequestEnds(i)
                          \/ HumanReturns(i)
  \/ Watcher \/ TimerFires
  \/ EditFile \/ Terminate \/ Stopped

Spec == Init /\ [][Next]_vars

\* The goroutines of the process and its timers are scheduled fairly; edits, the
\* signal and requests are not owed.  The watcher does not fail for ever, since
\* failures are bounded.
FairSpec ==
  /\ Spec
  /\ WF_vars(Run) /\ WF_vars(Watcher) /\ WF_vars(TimerFires)
  /\ \A i \in Instances : WF_vars(Workers(i))

-----------------------------------------------------------------------------
(* Properties                                                              *)

\* A candidate starts only when the previous instance is gone: at no time do two
\* instances hold a listener or have workers, so that no two poll Telegram.
OneInstanceRuns ==
  \A i, j \in Instances :
    i # j /\ http[i] \in {"spawned", "serving", "failed"} =>
      ~socket[j] /\ updates[j] # "receiving"

\* run leaves nothing behind, by whichever of its ways out it returned: no
\* listener, no worker, no context that is still live.
ExitIsClean ==
  pc = "exit" =>
    \A i \in Instances :
      /\ ~socket[i] /\ ~Live(i)
      /\ http[i] \in {"off", "ended"} /\ updates[i] \in {"off", "ended"}

\* While an instance receives updates, Telegram is set up to deliver them the
\* way this instance expects, even after a reload that failed half-way.
ModeMatches ==
  \A i \in Instances : updates[i] = "receiving" => registered = ModeOf[conf[i]]

\* An HTTP server that died on its own is not forgotten: as long as its instance
\* is in charge the error is there for run to read.
DeadServerIsReported ==
  pc = "select" /\ ~signal /\ http[active] = "ended" => errs[active] > 0

\* An edit is on its way to run through the debounce timer, the one-place channel
\* and an ongoing reload.
OnItsWay ==
  \/ fsEvents > 0 \/ timer # "off"
  \/ "change" \in {watcher, output}
  \/ pc = "reload"

\* No step of the watcher or of a reload drops an edit of the watched file: from
\* the edit on it stays on its way until run has read what the file holds.
ChangeIsNeverLost ==
  [][Watching /\ Watching' /\ ~WatchOver' /\ (OnItsWay \/ file' # file)
       => OnItsWay' \/ loaded' = file']_vars

\* How run looks from outside: the stage it is at, the configuration that is or was
\* in charge, which a failed boot never has, and the one to be started.
Stage ==
  CASE pc \in {"load", "watch"} -> "new"
    [] pc \in {"listen", "configure"} -> "starting"
    [] pc \in {"select", "reload"} -> "up"
    [] pc \in {"shutdown", "drain", "join"} -> "ending"
    [] pc = "exit" -> "over"

Current ==
  IF purpose = "boot" /\ Stage # "up" THEN Invalid ELSE conf[active]

Upcoming ==
  IF Stage = "starting" \/ (Stage = "ending" /\ purpose = "reload")
  THEN conf[starting]
  ELSE Invalid

\* A reload is a transaction: the old configuration is in charge until the new one
\* has started, one that does not start is rolled back, once, and run returns with
\* nothing left to try or because it was told to (run, start and stop).
Promise == INSTANCE Succession WITH
  None <- Invalid, stage <- Stage, current <- Current, next <- Upcoming, turn <- starting

ReplacesOrRestores == Promise!Spec

\* A valid edit of the watched file is what the service runs with in the end, if
\* the file is left alone and nothing fails.
FileIsApplied ==
  \A c \in Configs :
    file = c /\ fsEvents > 0 ~> conf[active] = c \/ file # c \/ pc = "exit"

\* stop comes to an end whatever the workers, handlers and the watcher do.
StopCompletes == pc = "shutdown" ~> pc \in {"listen", "exit"}

\* SIGTERM ends the process from wherever it is, also in the middle of a reload,
\* and the watcher with it, even when nobody reads its channel any more.
SignalStops == signal ~> pc = "exit" /\ ~Watching

\* "Store keeps availability state for one process lifetime" (availability/store.go
\* line 36): a human who is offline stays so when the configuration is reloaded.
AvailabilityOutlivesReload == [][active' # active => away'[active'] = away[active]]_vars

=============================================================================
