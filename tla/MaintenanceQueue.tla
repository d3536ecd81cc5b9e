-------------------------- MODULE MaintenanceQueue --------------------------
(***************************************************************************)
(* Maintenance of the Monitor: an administrator's request becomes a row of *)
(* maintenance_jobs and a systemd unit that runs it outside the web        *)
(* service, under one file lock that automatic retention takes too.  Some  *)
(* actions stop the web service, work, and start it again; a marker in     *)
(* /run tells ExecStopPost of a unit that died to start it.  A watchdog    *)
(* restarts the web service when it does not answer.                       *)
(*                                                                         *)
(* A tick is half a day, the TimeoutStartSec of a unit.                    *)
(***************************************************************************)
EXTENDS Naturals

CONSTANTS
  Workers,    \* threads of the web service that serve administrators
  None,       \* nobody: the lock is free
  Retention,  \* the retention service, as a holder of the lock
  MaxJobs,    \* bound: rows ever inserted
  Timeout,    \* TimeoutStartSec of a maintenance unit
  StaleAge,   \* age past which an active row is taken for dead
  MaxFaults   \* bound: kills, crashes, reboots and commands that fail

Jobs == 1 .. MaxJobs

ASSUME DelaysAssumption ==
  /\ {Timeout, StaleAge, MaxJobs, MaxFaults} \subseteq Nat
  /\ Timeout < StaleAge
ASSUME HoldersAssumption == None # Retention /\ {None, Retention} \cap Jobs = {}

VARIABLES
  job,        \* maintenance_jobs: a row per id
  lastId,     \* the sequence of its ids
  request,    \* per worker: the submission it serves
  unit,       \* per job: its systemd unit
  lock,       \* holder of bw-monitor-maintenance.lock
  retention,  \* the retention service
  cancelled,  \* the units a reset has told systemd to stop
  web,        \* bw-monitor.service
  marker,     \* /run/bw-monitor-maintenance-web-offline exists
  failures,   \* failed probes in a row: 2 stands for two or more
  done,       \* history: the jobs whose work has succeeded
  faults      \* bound: faults so far

queueVars == <<job, lastId, request>>
webVars   == <<web, marker, failures>>
vars == <<queueVars, unit, lock, retention, cancelled, webVars, done, faults>>

-----------------------------------------------------------------------------
(* online: retention, checkpoint, history, purges, API cleanup.  compact: the*)
(* same followed by an offline VACUUM.  offline: vacuum and the clears.      *)
Kinds == {"online", "compact", "offline", "reset"}

Active == {"queued", "running"}

(* The steps of a runner that holds the lock and has claimed its row. *)
Working == {"online", "stop", "stopping", "cancel", "wipe", "offline",
            "restart", "unmark", "report"}

Steps == Working \cup {"off", "load", "claim", "finish", "post", "remove"}

(* "none": there is no such row.  age is the time since created_at, counted  *)
(* up to the first at which an active row is stale.                          *)
Ages   == 0 .. StaleAge + 1
NoJob  == [status |-> "none", kind |-> "online", age |-> 0]
NoUnit == [pc |-> "off", stopped |-> FALSE, failed |-> FALSE]
Idle   == [pc |-> "idle", job |-> 0, stale |-> {}]

ActiveJobs == {j \in Jobs : job[j].status \in Active}
Live(j)    == unit[j].pc # "off"

(* Mutant: an active row is taken for dead after the unit's time limit. *)
StaleSoon == {j \in ActiveJobs : job[j].age >= Timeout}

(* The rows the next submission recovers. *)
StaleJobs == {j \in ActiveJobs : job[j].age > StaleAge}

Fault == faults < MaxFaults /\ faults' = faults + 1

Goto(j, step) == unit' = [unit EXCEPT ![j].pc = step]
SetStatus(j, status) == job' = [job EXCEPT ![j].status = status]

Init ==
  /\ lastId = 0
  /\ job = [j \in Jobs |-> NoJob]
  /\ request = [w \in Workers |-> Idle]
  /\ unit = [j \in Jobs |-> NoUnit]
  /\ lock = None /\ retention = "idle" /\ cancelled = {}
  /\ web = "up" /\ marker = FALSE /\ failures = 0
  /\ done = {} /\ faults = 0

-----------------------------------------------------------------------------
(* The submission.  BEGIN IMMEDIATE does nothing under PostgreSQL: the      *)
(* transactions of two workers overlap, unless both recover the same row.   *)

(* The UPDATE of the stale rows, which locks them, and the look for an      *)
(* active row.  A submission that finds one is rolled back.                 *)
Check(w) ==
  /\ web = "up" /\ request[w].pc = "idle" /\ lastId < MaxJobs
  /\ ActiveJobs \subseteq StaleJobs
  /\ \A v \in Workers : request[v].stale \cap StaleJobs = {}
  /\ request' = [request EXCEPT ![w] = [pc |-> "checked", job |-> 0, stale |-> StaleJobs]]
  /\ UNCHANGED <<job, lastId, unit, lock, retention, cancelled, webVars, done, faults>>

(* The INSERT and the commit. *)
Insert(w) ==
  /\ request[w].pc = "checked" /\ lastId < MaxJobs
  /\ \E kind \in Kinds :
       job' = [j \in Jobs |->
         CASE j = lastId + 1 -> [status |-> "queued", kind |-> kind, age |-> 0]
           [] j \in request[w].stale -> [job[j] EXCEPT !.status = "error"]
           [] OTHER -> job[j]]
  /\ lastId' = lastId + 1
  /\ request' = [request EXCEPT ![w] = [pc |-> "start", job |-> lastId + 1, stale |-> {}]]
  /\ UNCHANGED <<unit, lock, retention, cancelled, webVars, done, faults>>

(* systemctl --no-block start. *)
StartUnit(w) ==
  LET j == request[w].job IN
  /\ request[w].pc = "start"
  /\ request' = [request EXCEPT ![w] = Idle]
  /\ \/ Goto(j, "load") /\ UNCHANGED <<job, faults>>
     \/ Fault /\ SetStatus(j, "error") /\ UNCHANGED unit
  /\ UNCHANGED <<lastId, lock, retention, cancelled, webVars, done>>

(* The worker is killed, or systemctl times out: the row stays as it is. *)
LoseRequest(w) ==
  /\ request[w].pc # "idle" /\ Fault
  /\ request' = [request EXCEPT ![w] = Idle]
  /\ UNCHANGED <<job, lastId, unit, lock, retention, cancelled, webVars, done>>

Submission(w) == Check(w) \/ Insert(w) \/ StartUnit(w) \/ LoseRequest(w)

-----------------------------------------------------------------------------
(* The runner. *)

(* The action ends: the runner goes on to restart the web service if it has *)
(* stopped it, then reports.                                                *)
Leave(j, failed) ==
  unit' = [unit EXCEPT ![j].failed = failed,
                       ![j].pc = IF unit[j].stopped THEN "restart" ELSE "report"]

(* The handler of every exception: the row becomes an error. *)
Abort(j) == SetStatus(j, "error") /\ Goto(j, "finish")

(* Mutant: the lock is opened and not tested. *)
TakeLockUntested(j) ==
  /\ unit[j].pc = "load"
  /\ lock' = j /\ Goto(j, "claim")
  /\ UNCHANGED <<queueVars, retention, cancelled, webVars, done, faults>>

(* acquire_lock: the loser does not wait, it marks its own row. *)
AcquireLock(j) ==
  /\ unit[j].pc = "load"
  /\ \/ lock = None /\ lock' = j /\ Goto(j, "claim") /\ UNCHANGED job
     \/ lock # None /\ Abort(j) /\ UNCHANGED lock
  /\ UNCHANGED <<lastId, request, retention, cancelled, webVars, done, faults>>

(* read_job and the update to running.  The row may be gone or finished. *)
Claim(j) ==
  /\ unit[j].pc = "claim"
  /\ \/ /\ job[j].status \in Active
        /\ SetStatus(j, "running")
        /\ Goto(j, IF job[j].kind \in {"online", "compact"} THEN "online" ELSE "stop")
     \/ /\ job[j].status \notin Active
        /\ job' = [job EXCEPT ![j].status = IF @ = "none" THEN @ ELSE "error"]
        /\ Goto(j, "finish")
  /\ UNCHANGED <<lastId, request, lock, retention, cancelled, webVars, done, faults>>

(* The part of an action that runs beside the web service; it may raise. *)
WorkOnline(j) ==
  /\ unit[j].pc = "online"
  /\ \/ /\ job[j].kind = "online" /\ Leave(j, FALSE) /\ done' = done \cup {j}
     \/ /\ job[j].kind = "compact" /\ Goto(j, "stop") /\ UNCHANGED done
     \/ Leave(j, TRUE) /\ UNCHANGED done
  /\ UNCHANGED <<queueVars, lock, retention, cancelled, webVars, faults>>

AfterStop(j) == IF job[j].kind = "reset" THEN "cancel" ELSE "offline"

(* stop_service: only a service that is active gets the marker and the stop. *)
MarkWeb(j) ==
  /\ unit[j].pc = "stop"
  /\ \/ web = "up" /\ marker' = TRUE /\ Goto(j, "stopping")
     \/ web # "up" /\ UNCHANGED marker /\ Goto(j, AfterStop(j))
  /\ UNCHANGED <<queueVars, lock, retention, cancelled, web, failures, done, faults>>

(* systemctl stop.  If it fails or is interrupted stop_service raises: the  *)
(* caller has no was_active and leaves the restart to ExecStopPost.         *)
StopWeb(j) ==
  /\ unit[j].pc = "stopping"
  /\ \/ /\ web' = "down" /\ request' = [w \in Workers |-> Idle] /\ UNCHANGED faults
        /\ unit' = [unit EXCEPT ![j].pc = AfterStop(j), ![j].stopped = TRUE]
     \/ /\ Fault /\ Leave(j, TRUE)
        /\ \/ web' = "down" /\ request' = [w \in Workers |-> Idle]
           \/ UNCHANGED <<web, request>>
  /\ UNCHANGED <<job, lastId, lock, retention, cancelled, marker, failures, done>>

(* cancel_and_clear_other_maintenance_jobs: first it has systemd stop the   *)
(* units of the other active rows.  A unit stopped before it owns the lock  *)
(* ends through its exception handler and its ExecStopPost.                 *)
CancelOthers(j) ==
  LET others == {i \in ActiveJobs \ {j} : unit[i].pc = "load"} IN
  /\ unit[j].pc = "cancel"
  /\ cancelled' = {i \in ActiveJobs \ {j} : Live(i)}
  /\ unit' = [i \in Jobs |-> CASE i = j -> [unit[i] EXCEPT !.pc = "wipe"]
                               [] i \in others -> [unit[i] EXCEPT !.pc = "finish"]
                               [] OTHER -> unit[i]]
  /\ job' = [i \in Jobs |-> IF i \in others THEN [job[i] EXCEPT !.status = "error"] ELSE job[i]]
  /\ UNCHANGED <<lastId, request, lock, retention, webVars, done, faults>>

(* ... and, when they have stopped, deletes every other row.  It raises when *)
(* systemctl stop takes more than a minute.                                  *)
WipeOthers(j) ==
  /\ unit[j].pc = "wipe" /\ cancelled' = {}
  /\ \/ /\ \A i \in cancelled : ~Live(i)
        /\ Goto(j, "offline") /\ UNCHANGED faults
        /\ job' = [i \in Jobs |-> IF i = j THEN job[i] ELSE [job[i] EXCEPT !.status = "none"]]
     \/ Fault /\ Leave(j, TRUE) /\ UNCHANGED job
  /\ UNCHANGED <<lastId, request, lock, retention, webVars, done>>

(* Mutant: an error of the offline work is recorded and not raised. *)
ErrorSwallowed(j) ==
  /\ unit[j].pc = "offline"
  /\ Leave(j, FALSE)
  /\ \/ done' = done \cup {j}
     \/ UNCHANGED done
  /\ UNCHANGED <<queueVars, lock, retention, cancelled, webVars, faults>>

(* VACUUM, the clears, the reset: the work of the offline window. *)
WorkOffline(j) ==
  /\ unit[j].pc = "offline"
  /\ \/ Leave(j, FALSE) /\ done' = done \cup {j}
     \/ Leave(j, TRUE) /\ UNCHANGED done
  /\ UNCHANGED <<queueVars, lock, retention, cancelled, webVars, faults>>

(* _start_service_reliably, which raises when its three attempts fail. *)
RestartWeb(j) ==
  /\ unit[j].pc = "restart"
  /\ \/ web' = "up" /\ Goto(j, "unmark") /\ UNCHANGED faults
     \/ /\ Fault /\ UNCHANGED web
        /\ unit' = [unit EXCEPT ![j].pc = "report", ![j].failed = TRUE]
  /\ UNCHANGED <<queueVars, lock, retention, cancelled, marker, failures, done>>

Unmark(j) ==
  /\ unit[j].pc = "unmark"
  /\ marker' = FALSE /\ Goto(j, "report")
  /\ UNCHANGED <<queueVars, lock, retention, cancelled, web, failures, done, faults>>

(* The update to ok, or the exception handler's to error. *)
Report(j) ==
  /\ unit[j].pc = "report"
  /\ SetStatus(j, IF unit[j].failed THEN "error" ELSE "ok") /\ Goto(j, "finish")
  /\ UNCHANGED <<lastId, request, lock, retention, cancelled, webVars, done, faults>>

(* delete_current_reset_job and the release of the lock.  A signal that     *)
(* comes now still ends in the exception handler.                           *)
Finish(j) ==
  /\ unit[j].pc = "finish" /\ Goto(j, "post")
  /\ lock' = IF lock = j THEN None ELSE lock
  /\ \/ /\ UNCHANGED faults
        /\ job' = IF job[j].status = "ok" /\ job[j].kind = "reset"
                  THEN [job EXCEPT ![j].status = "none"] ELSE job
     \/ Fault /\ job[j].status = "ok" /\ SetStatus(j, "error")
  /\ UNCHANGED <<lastId, request, retention, cancelled, webVars, done>>

(* ExecStopPost: with a marker, start the web service and ignore a failure. *)
StopPost(j) ==
  /\ unit[j].pc = "post"
  /\ \/ ~marker /\ unit' = [unit EXCEPT ![j] = NoUnit] /\ UNCHANGED <<web, faults>>
     \/ marker /\ Goto(j, "remove") /\ web' = "up" /\ UNCHANGED faults
     \/ marker /\ Goto(j, "remove") /\ Fault /\ UNCHANGED web
  /\ UNCHANGED <<queueVars, lock, retention, cancelled, marker, failures, done>>

RemoveMarker(j) ==
  /\ unit[j].pc = "remove"
  /\ marker' = FALSE /\ unit' = [unit EXCEPT ![j] = NoUnit]
  /\ UNCHANGED <<queueVars, lock, retention, cancelled, web, failures, done, faults>>

Runner(j) ==
  \/ AcquireLock(j) \/ Claim(j) \/ WorkOnline(j) \/ MarkWeb(j) \/ StopWeb(j)
  \/ CancelOthers(j) \/ WipeOthers(j) \/ WorkOffline(j) \/ RestartWeb(j) \/ Unmark(j)
  \/ Report(j) \/ Finish(j) \/ StopPost(j) \/ RemoveMarker(j)

(* SIGKILL, out of memory, or the unit's time limit: the kernel frees the   *)
(* lock, the row stays as it is, systemd goes on to ExecStopPost.  So it    *)
(* does when the application module cannot be loaded.                       *)
Kill(j) ==
  /\ unit[j].pc \notin {"off", "post", "remove"} /\ Fault
  /\ Goto(j, "post")
  /\ lock' = IF lock = j THEN None ELSE lock
  /\ cancelled' = IF unit[j].pc = "wipe" THEN {} ELSE cancelled
  /\ UNCHANGED <<queueVars, retention, webVars, done>>

-----------------------------------------------------------------------------
(* Automatic retention: it skips its turn when the lock is held.            *)
RetentionLock ==
  /\ retention = "idle" /\ lock = None
  /\ retention' = "locked" /\ lock' = Retention
  /\ UNCHANGED <<queueVars, unit, cancelled, webVars, done, faults>>

(* ... or when a job is queued or running, whether or not its unit lives. *)
RetentionCheck ==
  /\ retention = "locked"
  /\ \/ ActiveJobs = {} /\ retention' = "working" /\ UNCHANGED lock
     \/ ActiveJobs # {} /\ retention' = "idle" /\ lock' = None
  /\ UNCHANGED <<queueVars, unit, cancelled, webVars, done, faults>>

RetentionEnd ==
  /\ retention = "working"
  /\ retention' = "idle" /\ lock' = None
  /\ UNCHANGED <<queueVars, unit, cancelled, webVars, done, faults>>

RetentionService == RetentionLock \/ RetentionCheck \/ RetentionEnd

-----------------------------------------------------------------------------
(* The web service fails, and systemd starts it again after two seconds. *)
WebFails ==
  /\ web = "up" /\ Fault
  /\ web' = "failed" /\ request' = [w \in Workers |-> Idle]
  /\ UNCHANGED <<job, lastId, unit, lock, retention, cancelled, marker, failures, done>>

SystemdRestarts ==
  /\ web = "failed" /\ web' = "up"
  /\ UNCHANGED <<queueVars, unit, lock, retention, cancelled, marker, failures, done, faults>>

(* Mutant: a watchdog that counts the failed probes and only logs them. *)
ProbeOnly ==
  /\ failures' = IF web = "up" \/ failures = 2 THEN 0 ELSE failures + 1
  /\ failures' # failures
  /\ UNCHANGED <<queueVars, unit, lock, retention, cancelled, web, marker, done, faults>>

(* Mutant: the count is not reset by the probe that restarts the service. *)
CountKept ==
  /\ web # "up" /\ failures' = failures + 1
  /\ web' = IF failures' > 1 THEN "up" ELSE web
  /\ UNCHANGED <<queueVars, unit, lock, retention, cancelled, marker, done, faults>>

(* health-watch: the second failed probe in a row restarts the service,     *)
(* whether or not maintenance has stopped it.  A restart that fails leaves  *)
(* the count, and the next probe tries again.                               *)
Probe ==
  /\ \/ web = "up" /\ failures # 0 /\ failures' = 0 /\ UNCHANGED <<web, faults>>
     \/ web # "up" /\ failures = 0 /\ failures' = 1 /\ UNCHANGED <<web, faults>>
     \/ web # "up" /\ failures # 0 /\ failures' = 0 /\ web' = "up" /\ UNCHANGED faults
     \/ web # "up" /\ failures # 0 /\ failures' = 2 /\ Fault /\ UNCHANGED web
  /\ UNCHANGED <<queueVars, unit, lock, retention, cancelled, marker, done>>

(* A reboot empties /run and starts the web service. *)
Reboot ==
  /\ Fault
  /\ unit' = [j \in Jobs |-> NoUnit] /\ request' = [w \in Workers |-> Idle]
  /\ lock' = None /\ retention' = "idle" /\ cancelled' = {}
  /\ web' = "failed" /\ marker' = FALSE /\ failures' = 0
  /\ UNCHANGED <<job, lastId, done>>

(* A submission ends within the tick, a unit within its time limit. *)
Tick ==
  /\ \A w \in Workers : request[w].pc = "idle"
  /\ \A j \in Jobs : Live(j) => job[j].age < Timeout
  /\ job' = [j \in Jobs |-> IF j > lastId \/ job[j].age > StaleAge THEN job[j]
                            ELSE [job[j] EXCEPT !.age = @ + 1]]
  /\ UNCHANGED <<lastId, request, unit, lock, retention, cancelled, webVars, done, faults>>

Next ==
  \/ \E w \in Workers : Submission(w)
  \/ \E j \in Jobs : Runner(j) \/ Kill(j)
  \/ RetentionService
  \/ WebFails \/ SystemdRestarts \/ Probe \/ Reboot
  \/ Tick

(* Units and the web service run; the timer of the watchdog fires.  Nothing *)
(* obliges an administrator to submit, retention to start or time to pass.  *)
Fairness ==
  /\ \A j \in Jobs : WF_vars(Runner(j))
  /\ WF_vars(SystemdRestarts) /\ WF_vars(Probe)
  /\ WF_vars(RetentionCheck) /\ WF_vars(RetentionEnd)

Spec == Init /\ [][Next]_vars /\ Fairness

-----------------------------------------------------------------------------
(* The values the variables take. *)
TypeOK ==
  /\ lastId \in 0 .. MaxJobs /\ faults \in 0 .. MaxFaults
  /\ job \in [Jobs -> [status : Active \cup {"none", "ok", "error"}, kind : Kinds,
                       age : Ages]]
  /\ request \in [Workers -> [pc : {"idle", "checked", "start"}, job : Jobs \cup {0},
                              stale : SUBSET Jobs]]
  /\ unit \in [Jobs -> [pc : Steps, stopped : BOOLEAN, failed : BOOLEAN]]
  /\ lock \in Jobs \cup {None, Retention} /\ retention \in {"idle", "locked", "working"}
  /\ cancelled \subseteq Jobs /\ done \subseteq Jobs
  /\ web \in {"up", "down", "failed"} /\ marker \in BOOLEAN /\ failures \in 0 .. 2

(* However submissions, kills and reboots interleave, two jobs never work at *)
(* once, nor a job beside retention: the rows of overlapping submissions can *)
(* both be active, and the lock alone keeps their deletions apart            *)
(* (acquire_lock, retention.main).                                           *)
ActionsExclusive ==
  /\ \A i, j \in Jobs : {unit[i].pc, unit[j].pc} \subseteq Working => i = j
  /\ retention = "working" => \A j \in Jobs : unit[j].pc \notin Working

(* While a runner works its row says so: the recovery of rows older than a   *)
(* day never hits a living runner, and no reset deletes the row from under   *)
(* it (enqueue_maintenance_job, cancel_and_clear_other_maintenance_jobs).    *)
RunnerRecorded ==
  \A j \in Jobs : unit[j].pc \in Working => job[j].status = "running"

(* A job that reads ok has done its work: an error, a signal or a kill never *)
(* ends in ok (execute_action, _offline_vacuum, main).                       *)
OkMeansDone ==
  \A j \in Jobs : job[j].status = "ok" => j \in done

(* Whatever is killed or fails, a web service that maintenance has stopped   *)
(* comes back: by the runner's finally, by ExecStopPost or by the watchdog.  *)
ServiceReturns == (web # "up") ~> (web = "up")

(* What the code says of its offline work: it is done while the web service  *)
(* is stopped (clear_all_monitoring_data, reset_all_app_data and the comment *)
(* in execute_action).                                                       *)
OfflineBoundary ==
  \A j \in Jobs : unit[j].pc = "offline" => web # "up"
=============================================================================
