----------------------- MODULE MaintenanceQueueProofs -----------------------
(***************************************************************************)
(* Theorems about MaintenanceQueue, for any number of workers, rows and    *)
(* faults and any time limits the assumptions of that module allow.        *)
(***************************************************************************)
EXTENDS MaintenanceQueue, TLAPS

Rows     == [status : Active \cup {"none", "ok", "error"}, kind : Kinds, age : Ages]
Requests == [pc : {"idle", "checked", "start"}, job : Jobs \cup {0}, stale : SUBSET Jobs]
Units    == [pc : Steps, stopped : BOOLEAN, failed : BOOLEAN]

(* A number of jobs, and ages, are numbers: what arithmetic needs. *)
LEMMA Numbers == /\ MaxJobs \in Nat /\ StaleAge \in Nat /\ Timeout \in Nat /\ MaxFaults \in Nat
                 /\ Timeout < StaleAge /\ Jobs \subseteq Nat /\ 0 \notin Jobs /\ 0 \in Ages
BY DelaysAssumption DEF Jobs, Ages

(* What a step that changes one unit, or one row, leaves in its type. *)
LEMMA GotoType ==
  ASSUME unit \in [Jobs -> Units], NEW j \in Jobs, NEW step \in Steps, Goto(j, step)
  PROVE  unit' \in [Jobs -> Units]
BY DEF Goto, Units

LEMMA LeaveType ==
  ASSUME unit \in [Jobs -> Units], NEW j \in Jobs, NEW failed \in BOOLEAN, Leave(j, failed)
  PROVE  unit' \in [Jobs -> Units]
BY DEF Leave, Units, Steps, Working

LEMMA StatusType ==
  ASSUME job \in [Jobs -> Rows], NEW j \in Jobs,
         NEW status \in Active \cup {"none", "ok", "error"}, SetStatus(j, status)
  PROVE  job' \in [Jobs -> Rows]
BY DEF SetStatus, Rows

LEMMA AbortType ==
  ASSUME job \in [Jobs -> Rows], unit \in [Jobs -> Units], NEW j \in Jobs, Abort(j)
  PROVE  job' \in [Jobs -> Rows] /\ unit' \in [Jobs -> Units]
<1>1. job' \in [Jobs -> Rows]
  BY StatusType DEF Abort
<1>2. unit' \in [Jobs -> Units]
  BY GotoType DEF Abort, Steps
<1>3. QED
  BY <1>1, <1>2

LEMMA FaultType ==
  ASSUME faults \in 0 .. MaxFaults, Fault
  PROVE  faults' \in 0 .. MaxFaults
BY Numbers DEF Fault

LEMMA TypeInit == Init => TypeOK
<1> SUFFICES ASSUME Init
             PROVE  TypeOK
  OBVIOUS
<1>1. NoJob \in Rows /\ NoUnit \in Units /\ Idle \in Requests
  BY Numbers DEF NoJob, NoUnit, Idle, Rows, Units, Requests, Kinds, Steps
<1>2. lastId \in 0 .. MaxJobs /\ faults \in 0 .. MaxFaults /\ failures \in 0 .. 2
  BY Numbers DEF Init
<1>3. QED
  BY <1>1, <1>2 DEF Init, TypeOK, Rows, Units, Requests

(* A submission writes rows and requests of their types. *)
LEMMA SubmissionTypes ==
  ASSUME TypeOK, NEW w \in Workers, Submission(w)
  PROVE  TypeOK'
<1>1. CASE Check(w)
  <2>1. StaleJobs \subseteq Jobs
    BY DEF StaleJobs, ActiveJobs
  <2>2. request' \in [Workers -> Requests]
    BY <1>1, <2>1 DEF Check, TypeOK, Requests
  <2>3. QED
    BY <1>1, <2>2 DEF Check, TypeOK, Requests, webVars
<1>2. CASE Insert(w)
  <2>1. lastId' \in 0 .. MaxJobs /\ lastId + 1 \in Jobs
    BY <1>2, Numbers DEF Insert, TypeOK, Jobs
  <2>2. request' \in [Workers -> Requests]
    BY <1>2, <2>1 DEF Insert, TypeOK, Requests
  <2>3. job' \in [Jobs -> Rows]
    <3>1. PICK kind \in Kinds :
            job' = [j \in Jobs |->
              CASE j = lastId + 1 -> [status |-> "queued", kind |-> kind, age |-> 0]
                [] j \in request[w].stale -> [job[j] EXCEPT !.status = "error"]
                [] OTHER -> job[j]]
      BY <1>2 DEF Insert
    <3>2. ASSUME NEW j \in Jobs
          PROVE  job'[j] \in Rows
      <4>1. job[j] \in Rows
        BY DEF TypeOK, Rows
      <4>2. [status |-> "queued", kind |-> kind, age |-> 0] \in Rows
        BY Numbers DEF Rows, Active
      <4>3. [job[j] EXCEPT !.status = "error"] \in Rows
        BY <4>1 DEF Rows
      <4>4. job'[j] \in {[status |-> "queued", kind |-> kind, age |-> 0],
                         [job[j] EXCEPT !.status = "error"], job[j]}
        BY <3>1
      <4>5. QED
        BY <4>1, <4>2, <4>3, <4>4
    <3>3. QED
      BY <3>1, <3>2
  <2>4. QED
    BY <1>2, <2>1, <2>2, <2>3 DEF Insert, TypeOK, Requests, Rows, webVars
<1>3. CASE StartUnit(w)
  <2>1. request' \in [Workers -> Requests]
    BY <1>3 DEF StartUnit, TypeOK, Requests, Idle
  <2>2. unit' \in [Jobs -> Units] /\ job' \in [Jobs -> Rows] /\ faults' \in 0 .. MaxFaults
    <3>1. \/ /\ unit' = [unit EXCEPT ![request[w].job].pc = "load"]
             /\ UNCHANGED <<job, faults>>
          \/ /\ job' = [job EXCEPT ![request[w].job].status = "error"]
             /\ Fault /\ UNCHANGED unit
      BY <1>3 DEF StartUnit, Goto, SetStatus
    <3>2. job \in [Jobs -> Rows] /\ unit \in [Jobs -> Units] /\ faults \in 0 .. MaxFaults
      BY DEF TypeOK, Rows, Units
    <3>3. [unit EXCEPT ![request[w].job].pc = "load"] \in [Jobs -> Units]
      BY <3>2 DEF Units, Steps
    <3>4. [job EXCEPT ![request[w].job].status = "error"] \in [Jobs -> Rows]
      BY <3>2 DEF Rows
    <3>5. QED
      BY <3>1, <3>2, <3>3, <3>4, FaultType
  <2>3. QED
    BY <1>3, <2>1, <2>2 DEF StartUnit, TypeOK, Requests, Rows, Units, webVars
<1>4. CASE LoseRequest(w)
  <2>1. request' \in [Workers -> Requests]
    BY <1>4 DEF LoseRequest, TypeOK, Requests, Idle
  <2>2. faults' \in 0 .. MaxFaults
    BY <1>4, FaultType DEF LoseRequest, TypeOK
  <2>3. QED
    BY <1>4, <2>1, <2>2 DEF LoseRequest, TypeOK, Requests, webVars
<1>5. QED
  BY <1>1, <1>2, <1>3, <1>4 DEF Submission

(* A runner's steps keep the types. *)
LEMMA RunnerTypes ==
  ASSUME TypeOK, NEW j \in Jobs, Runner(j) \/ Kill(j)
  PROVE  TypeOK'
<1> USE DEF Rows, Units, Requests
<1>0. /\ job \in [Jobs -> Rows] /\ unit \in [Jobs -> Units] /\ faults \in 0 .. MaxFaults
      /\ request \in [Workers -> Requests] /\ [w \in Workers |-> Idle] \in [Workers -> Requests]
  BY DEF TypeOK, Idle
<1>1. CASE AcquireLock(j)
  <2>1. job' \in [Jobs -> Rows] /\ unit' \in [Jobs -> Units]
    BY <1>0, <1>1, AbortType, GotoType DEF AcquireLock, Steps
  <2>2. QED
    BY <1>1, <2>1 DEF AcquireLock, TypeOK, webVars
<1>2. CASE Claim(j)
  <2>1. job' \in [Jobs -> Rows]
    <3>1. ASSUME job' = [job EXCEPT ![j].status = IF @ = "none" THEN @ ELSE "error"]
          PROVE  job' \in [Jobs -> Rows]
      BY <1>0, <3>1
    <3>2. QED
      BY <1>0, <1>2, <3>1, StatusType DEF Claim, Active
  <2>2. unit' \in [Jobs -> Units]
    BY <1>0, <1>2, GotoType DEF Claim, Steps, Working
  <2>3. QED
    BY <1>2, <2>1, <2>2 DEF Claim, TypeOK, webVars
<1>3. CASE WorkOnline(j)
  <2>1. unit' \in [Jobs -> Units]
    BY <1>0, <1>3, GotoType, LeaveType DEF WorkOnline, Steps, Working
  <2>2. QED
    BY <1>3, <2>1 DEF WorkOnline, TypeOK, queueVars, webVars
<1>4. CASE MarkWeb(j)
  <2>1. unit' \in [Jobs -> Units]
    BY <1>0, <1>4, GotoType DEF MarkWeb, AfterStop, Steps, Working
  <2>2. QED
    BY <1>4, <2>1 DEF MarkWeb, TypeOK, queueVars
<1>5. CASE StopWeb(j)
  <2>1. unit' \in [Jobs -> Units]
    <3>1. AfterStop(j) \in Steps
      BY DEF AfterStop, Steps, Working
    <3>2. [unit EXCEPT ![j].pc = AfterStop(j), ![j].stopped = TRUE] \in [Jobs -> Units]
      BY <1>0, <3>1
    <3>3. QED
      BY <1>0, <1>5, <3>2, LeaveType DEF StopWeb
  <2>2. request' \in [Workers -> Requests]
    BY <1>0, <1>5 DEF StopWeb
  <2>3. faults' \in 0 .. MaxFaults /\ web' \in {"up", "down", "failed"}
    BY <1>0, <1>5, FaultType DEF StopWeb, TypeOK
  <2>4. QED
    BY <1>5, <2>1, <2>2, <2>3 DEF StopWeb, TypeOK
<1>6. CASE CancelOthers(j)
  <2>1. cancelled' \subseteq Jobs
    BY <1>6 DEF CancelOthers, ActiveJobs
  <2>2. unit' \in [Jobs -> Units]
    <3>1. ASSUME NEW i \in Jobs
          PROVE  unit'[i] \in Units
      <4>1. unit[i] \in Units
        BY <1>0
      <4>2. unit'[i] \in {[unit[i] EXCEPT !.pc = "wipe"], [unit[i] EXCEPT !.pc = "finish"],
                         unit[i]}
        BY <1>6 DEF CancelOthers
      <4>3. QED
        BY <4>1, <4>2 DEF Steps, Working
    <3>2. QED
      BY <1>6, <3>1 DEF CancelOthers
  <2>3. job' \in [Jobs -> Rows]
    BY <1>0, <1>6 DEF CancelOthers
  <2>4. QED
    BY <1>6, <2>1, <2>2, <2>3 DEF CancelOthers, TypeOK, webVars
<1>7. CASE WipeOthers(j)
  <2>1. job' \in [Jobs -> Rows]
    <3>1. ASSUME NEW i \in Jobs
          PROVE  [job[i] EXCEPT !.status = "none"] \in Rows /\ job[i] \in Rows
      BY <1>0
    <3>2. QED
      BY <1>0, <1>7, <3>1 DEF WipeOthers, Leave
  <2>2. unit' \in [Jobs -> Units]
    BY <1>0, <1>7, GotoType, LeaveType DEF WipeOthers, Steps, Working
  <2>3. faults' \in 0 .. MaxFaults
    BY <1>0, <1>7, FaultType DEF WipeOthers
  <2>4. QED
    BY <1>7, <2>1, <2>2, <2>3 DEF WipeOthers, TypeOK, webVars
<1>8. CASE WorkOffline(j)
  <2>1. unit' \in [Jobs -> Units]
    BY <1>0, <1>8, LeaveType DEF WorkOffline
  <2>2. QED
    BY <1>8, <2>1 DEF WorkOffline, TypeOK, queueVars, webVars
<1>9. CASE RestartWeb(j)
  <2>1. unit' \in [Jobs -> Units]
    <3>1. [unit EXCEPT ![j].pc = "report", ![j].failed = TRUE] \in [Jobs -> Units]
      <4>1. "report" \in Steps
        BY DEF Steps, Working
      <4>2. QED
        BY <1>0, <4>1
    <3>2. QED
      BY <1>0, <1>9, <3>1, GotoType DEF RestartWeb, Steps, Working
  <2>2. faults' \in 0 .. MaxFaults
    BY <1>0, <1>9, FaultType DEF RestartWeb
  <2>3. QED
    BY <1>9, <2>1, <2>2 DEF RestartWeb, TypeOK, queueVars
<1>10. CASE Unmark(j)
  <2>1. unit' \in [Jobs -> Units]
    BY <1>0, <1>10, GotoType DEF Unmark, Steps, Working
  <2>2. QED
    BY <1>10, <2>1 DEF Unmark, TypeOK, queueVars
<1>11. CASE Report(j)
  <2>1. job' \in [Jobs -> Rows] /\ unit' \in [Jobs -> Units]
    BY <1>0, <1>11, StatusType, GotoType DEF Report, Steps
  <2>2. QED
    BY <1>11, <2>1 DEF Report, TypeOK, webVars
<1>12. CASE Finish(j)
  <2>1. unit' \in [Jobs -> Units]
    BY <1>0, <1>12, GotoType DEF Finish, Steps
  <2>2. job' \in [Jobs -> Rows]
    <3>1. [job EXCEPT ![j].status = "none"] \in [Jobs -> Rows]
      BY <1>0
    <3>2. QED
      BY <1>0, <1>12, <3>1, StatusType DEF Finish
  <2>3. faults' \in 0 .. MaxFaults
    BY <1>0, <1>12, FaultType DEF Finish
  <2>4. QED
    BY <1>12, <2>1, <2>2, <2>3 DEF Finish, TypeOK, webVars
<1>13. CASE StopPost(j)
  <2>1. unit' \in [Jobs -> Units]
    <3>1. "remove" \in Steps /\ NoUnit \in Units
      BY DEF NoUnit, Steps
    <3>2. [unit EXCEPT ![j] = NoUnit] \in [Jobs -> Units]
      BY <1>0, <3>1
    <3>3. QED
      BY <1>0, <1>13, <3>1, <3>2, GotoType DEF StopPost
  <2>2. faults' \in 0 .. MaxFaults
    BY <1>0, <1>13, FaultType DEF StopPost
  <2>3. QED
    BY <1>13, <2>1, <2>2 DEF StopPost, TypeOK, queueVars
<1>14. CASE RemoveMarker(j)
  <2>1. unit' \in [Jobs -> Units]
    BY <1>0, <1>14 DEF RemoveMarker, NoUnit, Steps
  <2>2. QED
    BY <1>14, <2>1 DEF RemoveMarker, TypeOK, queueVars
<1>15. CASE Kill(j)
  <2>1. unit' \in [Jobs -> Units] /\ faults' \in 0 .. MaxFaults
    BY <1>0, <1>15, GotoType, FaultType DEF Kill, Steps
  <2>2. QED
    BY <1>15, <2>1 DEF Kill, TypeOK, queueVars, webVars
<1>16. QED
  BY <1>1, <1>2, <1>3, <1>4, <1>5, <1>6, <1>7, <1>8, <1>9, <1>10, <1>11, <1>12,
     <1>13, <1>14, <1>15 DEF Runner

(* So do retention, the watchdog, reboots and the clock. *)
LEMMA WorldTypes ==
  ASSUME TypeOK,
         RetentionService \/ WebFails \/ SystemdRestarts \/ Probe \/ Reboot \/ Tick
  PROVE  TypeOK'
<1> USE DEF Rows, Units, Requests
<1>0. /\ [w \in Workers |-> Idle] \in [Workers -> Requests]
      /\ [j \in Jobs |-> NoUnit] \in [Jobs -> Units]
  BY DEF Idle, NoUnit, Steps
<1>1. CASE RetentionService
  BY <1>1 DEF RetentionService, RetentionLock, RetentionCheck, RetentionEnd, TypeOK,
              queueVars, webVars
<1>2. CASE WebFails
  <2>1. faults' \in 0 .. MaxFaults
    BY <1>2, FaultType DEF WebFails, TypeOK
  <2>2. QED
    BY <1>0, <1>2, <2>1 DEF WebFails, TypeOK
<1>3. CASE SystemdRestarts
  BY <1>3 DEF SystemdRestarts, TypeOK, queueVars
<1>4. CASE Probe
  <2>1. faults' \in 0 .. MaxFaults /\ failures' \in 0 .. 2 /\ web' \in {"up", "down", "failed"}
    BY <1>4, FaultType DEF Probe, TypeOK
  <2>2. QED
    BY <1>4, <2>1 DEF Probe, TypeOK, queueVars
<1>5. CASE Reboot
  <2>1. faults' \in 0 .. MaxFaults /\ failures' \in 0 .. 2
    BY <1>5, FaultType DEF Reboot, TypeOK
  <2>2. QED
    BY <1>0, <1>5, <2>1 DEF Reboot, TypeOK
<1>6. CASE Tick
  <2>1. ASSUME NEW j \in Jobs
        PROVE  job'[j] \in Rows
    <3>1. job[j] \in Rows /\ job[j].age \in 0 .. StaleAge + 1
      BY DEF TypeOK, Ages
    <3>2. job'[j] = IF j > lastId \/ job[j].age > StaleAge THEN job[j]
                    ELSE [job[j] EXCEPT !.age = @ + 1]
      BY <1>6 DEF Tick
    <3>3. job[j].age <= StaleAge => job[j].age + 1 \in Ages
      BY <3>1, Numbers DEF Ages
    <3>4. QED
      BY <3>1, <3>2, <3>3, Numbers
  <2>2. job' \in [Jobs -> Rows]
    BY <1>6, <2>1 DEF Tick
  <2>3. QED
    BY <1>6, <2>2 DEF Tick, TypeOK, webVars
<1>7. QED
  BY <1>1, <1>2, <1>3, <1>4, <1>5, <1>6

LEMMA TypeNext == TypeOK /\ [Next]_vars => TypeOK'
<1> SUFFICES ASSUME TypeOK, [Next]_vars
             PROVE  TypeOK'
  OBVIOUS
<1>1. CASE UNCHANGED vars
  BY <1>1 DEF vars, queueVars, webVars, TypeOK
<1>2. QED
  BY <1>1, SubmissionTypes, RunnerTypes, WorldTypes DEF Next

(* Every row, request and unit is in a state the code knows. *)
THEOREM TypeCorrect == Spec => []TypeOK
<1>1. QED
  BY TypeInit, TypeNext, PTL DEF Spec

-----------------------------------------------------------------------------
(* The lock is with whoever claims a row or works, and with retention. *)
LockHeld ==
  /\ \A j \in Jobs : unit[j].pc \in Working \cup {"claim"} => lock = j
  /\ retention # "idle" => lock = Retention

(* What Goto and Leave do to the units. *)
LEMMA GotoEffect ==
  ASSUME TypeOK, NEW j \in Jobs, NEW step, Goto(j, step)
  PROVE  /\ unit'[j].pc = step /\ unit'[j].failed = unit[j].failed
         /\ \A i \in Jobs \ {j} : unit'[i] = unit[i]
BY DEF TypeOK, Goto

LEMMA FailureEffect ==
  ASSUME TypeOK, NEW j \in Jobs, Leave(j, TRUE)
  PROVE  unit'[j].failed /\ \A i \in Jobs \ {j} : unit'[i] = unit[i]
BY DEF TypeOK, Leave

LEMMA LeaveEffect ==
  ASSUME TypeOK, NEW j \in Jobs, NEW failed, Leave(j, failed)
  PROVE  /\ unit'[j].pc \in {"restart", "report"} /\ unit'[j].failed = failed
         /\ \A i \in Jobs \ {j} : unit'[i] = unit[i]
BY DEF TypeOK, Leave

(* What a step of a runner that holds the lock does to the units: its own    *)
(* goes on, none that waits begins to work.                                  *)
LEMMA WorkEffect ==
  ASSUME TypeOK, NEW j \in Jobs,
         \/ Claim(j) \/ WorkOnline(j) \/ MarkWeb(j) \/ StopWeb(j) \/ CancelOthers(j)
         \/ WipeOthers(j) \/ WorkOffline(j) \/ RestartWeb(j) \/ Unmark(j) \/ Report(j)
  PROVE  /\ unit[j].pc \in Working \cup {"claim"}
         /\ UNCHANGED <<lock, retention>>
         /\ unit'[j].pc \in Working \cup {"finish"}
         /\ \A i \in Jobs \ {j} : \/ unit'[i] = unit[i]
                                  \/ unit[i].pc = "load" /\ unit'[i].pc = "finish"
<1>1. CASE Claim(j)
  BY <1>1, GotoEffect DEF Claim, Working
<1>2. CASE WorkOnline(j)
  BY <1>2, GotoEffect, LeaveEffect DEF WorkOnline, Working
<1>3. CASE MarkWeb(j)
  BY <1>3, GotoEffect DEF MarkWeb, AfterStop, Working
<1>4. CASE StopWeb(j)
  <2>1. \/ unit' = [unit EXCEPT ![j].pc = AfterStop(j), ![j].stopped = TRUE]
        \/ Leave(j, TRUE)
    BY <1>4 DEF StopWeb
  <2>2. ASSUME unit' = [unit EXCEPT ![j].pc = AfterStop(j), ![j].stopped = TRUE]
        PROVE  unit'[j].pc \in Working /\ \A i \in Jobs \ {j} : unit'[i] = unit[i]
    BY <2>2 DEF TypeOK, AfterStop, Working
  <2>3. QED
    BY <1>4, <2>1, <2>2, LeaveEffect DEF StopWeb, Working
<1>5. CASE CancelOthers(j)
  BY <1>5 DEF CancelOthers, TypeOK, Working
<1>6. CASE WipeOthers(j)
  BY <1>6, GotoEffect, LeaveEffect DEF WipeOthers, Working
<1>7. CASE WorkOffline(j)
  BY <1>7, LeaveEffect DEF WorkOffline, Working
<1>8. CASE RestartWeb(j)
  <2>1. \/ Goto(j, "unmark")
        \/ unit' = [unit EXCEPT ![j].pc = "report", ![j].failed = TRUE]
    BY <1>8 DEF RestartWeb
  <2>2. ASSUME unit' = [unit EXCEPT ![j].pc = "report", ![j].failed = TRUE]
        PROVE  unit'[j].pc = "report" /\ \A i \in Jobs \ {j} : unit'[i] = unit[i]
    BY <2>2 DEF TypeOK
  <2>3. QED
    BY <1>8, <2>1, <2>2, GotoEffect DEF RestartWeb, Working
<1>9. CASE Unmark(j)
  BY <1>9, GotoEffect DEF Unmark, Working
<1>10. CASE Report(j)
  BY <1>10, GotoEffect DEF Report, Working
<1>11. QED
  BY <1>1, <1>2, <1>3, <1>4, <1>5, <1>6, <1>7, <1>8, <1>9, <1>10

LEMMA LockInit == Init => LockHeld
BY DEF Init, LockHeld, NoUnit, Working

LEMMA LockNext == TypeOK /\ LockHeld /\ [Next]_vars => LockHeld'
<1> SUFFICES ASSUME TypeOK, LockHeld, [Next]_vars
             PROVE  LockHeld'
  OBVIOUS
<1>1. ASSUME UNCHANGED <<lock, retention>>,
             \A j \in Jobs : unit'[j].pc \in Working \cup {"claim"}
                             => unit[j].pc \in Working \cup {"claim"}
      PROVE  LockHeld'
  BY <1>1 DEF LockHeld
<1>2. ASSUME NEW w \in Workers, Submission(w)
      PROVE  LockHeld'
  <2>1. UNCHANGED <<lock, retention>>
    BY <1>2 DEF Submission, Check, Insert, StartUnit, LoseRequest
  <2>2. \/ UNCHANGED unit
        \/ unit' = [unit EXCEPT ![request[w].job].pc = "load"]
    BY <1>2 DEF Submission, Check, Insert, StartUnit, LoseRequest, Goto
  <2>3. ASSUME NEW j \in Jobs
        PROVE  unit'[j] = unit[j] \/ unit'[j].pc = "load"
    BY <2>2 DEF TypeOK
  <2>4. QED
    BY <1>1, <2>1, <2>3 DEF Working
<1>3. ASSUME NEW j \in Jobs, Runner(j) \/ Kill(j)
      PROVE  LockHeld'
  <2>1. CASE AcquireLock(j)
    <3>1. CASE lock = None /\ lock' = j /\ Goto(j, "claim")
      <4>1. \A i \in Jobs : unit[i].pc \notin Working \cup {"claim"}
        BY <3>1, HoldersAssumption DEF LockHeld
      <4>2. retention' = "idle"
        BY <2>1, <3>1, HoldersAssumption DEF LockHeld, AcquireLock
      <4>3. QED
        BY <3>1, <4>1, <4>2, GotoEffect DEF LockHeld
    <3>2. CASE lock # None /\ Abort(j) /\ UNCHANGED lock
      BY <1>1, <2>1, <3>2, GotoEffect DEF AcquireLock, Abort, Working
    <3>3. QED
      BY <2>1, <3>1, <3>2 DEF AcquireLock
  <2>2. CASE Finish(j) \/ Kill(j)
    <3>1. /\ Goto(j, "post") /\ retention' = retention
          /\ lock' = IF lock = j THEN None ELSE lock
      BY <2>2 DEF Finish, Kill
    <3>2. ASSUME NEW i \in Jobs, unit'[i].pc \in Working \cup {"claim"}
          PROVE  lock' = i
      <4>1. i # j /\ unit'[i] = unit[i]
        BY <3>1, <3>2, GotoEffect DEF Working
      <4>2. QED
        BY <3>1, <3>2, <4>1 DEF LockHeld
    <3>3. retention' # "idle" => lock' = Retention
      BY <3>1, HoldersAssumption DEF LockHeld
    <3>4. QED
      BY <3>2, <3>3 DEF LockHeld
  <2>3. CASE StopPost(j) \/ RemoveMarker(j)
    <3>1. UNCHANGED <<lock, retention>>
      BY <2>3 DEF StopPost, RemoveMarker
    <3>2. unit' = [unit EXCEPT ![j] = NoUnit] \/ Goto(j, "remove")
      BY <2>3 DEF StopPost, RemoveMarker
    <3>3. ASSUME unit' = [unit EXCEPT ![j] = NoUnit], NEW i \in Jobs
          PROVE  unit'[i] = unit[i] \/ unit'[i].pc = "off"
      BY <3>3 DEF TypeOK, NoUnit
    <3>4. QED
      BY <1>1, <3>1, <3>2, <3>3, GotoEffect DEF Working
  <2>4. CASE ~(AcquireLock(j) \/ Finish(j) \/ Kill(j) \/ StopPost(j) \/ RemoveMarker(j))
    <3>1. /\ unit[j].pc \in Working \cup {"claim"} /\ UNCHANGED <<lock, retention>>
          /\ \A i \in Jobs \ {j} : \/ unit'[i] = unit[i]
                                   \/ unit[i].pc = "load" /\ unit'[i].pc = "finish"
      BY <1>3, <2>4, WorkEffect DEF Runner
    <3>2. QED
      BY <1>1, <3>1 DEF Working
  <2>5. QED
    BY <2>1, <2>2, <2>3, <2>4
<1>4. CASE RetentionService
  <2>1. UNCHANGED unit
    BY <1>4 DEF RetentionService, RetentionLock, RetentionCheck, RetentionEnd
  <2>2. CASE RetentionLock
    BY <2>1, <2>2, HoldersAssumption DEF RetentionLock, LockHeld
  <2>3. CASE RetentionCheck \/ RetentionEnd
    <3>1. /\ lock = Retention
          /\ \/ UNCHANGED lock
             \/ retention' = "idle"
      BY <2>3 DEF RetentionCheck, RetentionEnd, LockHeld
    <3>2. \A j \in Jobs : unit[j].pc \notin Working \cup {"claim"}
      BY <3>1, HoldersAssumption DEF LockHeld
    <3>3. QED
      BY <2>1, <3>1, <3>2 DEF LockHeld
  <2>4. QED
    BY <1>4, <2>2, <2>3 DEF RetentionService
<1>5. CASE WebFails \/ SystemdRestarts \/ Probe \/ Tick \/ UNCHANGED vars
  <2>1. UNCHANGED <<lock, retention, unit>>
    BY <1>5 DEF WebFails, SystemdRestarts, Probe, Tick, vars
  <2>2. QED
    BY <1>1, <2>1
<1>6. CASE Reboot
  BY <1>6 DEF Reboot, LockHeld, NoUnit, Working
<1>7. QED
  BY <1>2, <1>3, <1>4, <1>5, <1>6 DEF Next

(* Two jobs never work at once, nor does one beside retention: for any       *)
(* number of workers and overlapping submissions.                            *)
THEOREM OneAtATime == Spec => []ActionsExclusive
<1>1. LockHeld => ActionsExclusive
  BY HoldersAssumption DEF LockHeld, ActionsExclusive
<1>2. QED
  BY <1>1, LockInit, LockNext, TypeCorrect, PTL DEF Spec

-----------------------------------------------------------------------------
(* Ages keep recovery away from what lives: a unit's time limit is shorter   *)
(* than the age of a row taken for dead, and time stands still between the   *)
(* look for such rows and their recovery.                                    *)
AgesTell ==
  /\ \A j \in Jobs : j > lastId => job[j].status = "none" /\ ~Live(j)
  /\ \A j \in Jobs : Live(j) => job[j].age <= Timeout
  /\ \A w \in Workers : \A j \in request[w].stale : j <= lastId /\ job[j].age > StaleAge

(* A submission that is about to start a unit has a row of its own, fresh    *)
(* and without a unit.                                                       *)
StartsFresh ==
  /\ \A w \in Workers : request[w].pc = "start" =>
       LET j == request[w].job IN
       j \in Jobs /\ j <= lastId /\ ~Live(j) /\ job[j].age = 0
  /\ \A v, w \in Workers :
       /\ request[v].pc = "start" /\ request[w].pc = "start"
       /\ request[v].job = request[w].job
       => v = w

Recorded == AgesTell /\ StartsFresh /\ RunnerRecorded

(* What a runner's step does to the rows: it writes its own, or, when it     *)
(* resets the application, those of the others.                              *)
LEMMA RowEffect ==
  ASSUME TypeOK, NEW j \in Jobs, Runner(j) \/ Kill(j)
  PROVE  /\ Live(j)
         /\ \A i \in Jobs : job'[i].age = job[i].age /\ (Live(i)' => Live(i))
         /\ \A i \in Jobs \ {j} : job[i].status = "none" => job'[i].status = "none"
         /\ lastId' = lastId /\ (UNCHANGED request \/ request' = [w \in Workers |-> Idle])
<1>0. job \in [Jobs -> Rows] /\ unit \in [Jobs -> Units]
  BY DEF TypeOK, Rows, Units
<1>1. ASSUME NEW status, SetStatus(j, status)
      PROVE  \A i \in Jobs : /\ job'[i].age = job[i].age
                             /\ i # j => job'[i] = job[i]
  BY <1>0, <1>1 DEF SetStatus, Rows
<1>2. CASE CancelOthers(j)
  <2>1. ASSUME NEW i \in Jobs
        PROVE  /\ job'[i].age = job[i].age /\ (Live(i)' => Live(i))
               /\ job[i].status = "none" => job'[i].status = "none"
    <3>1. \/ job'[i] = job[i]
          \/ job'[i] = [job[i] EXCEPT !.status = "error"] /\ i \in ActiveJobs
      BY <1>2 DEF CancelOthers
    <3>2. i = j \/ unit[i].pc = "load" \/ unit'[i] = unit[i]
      BY <1>2 DEF CancelOthers
    <3>3. unit[j].pc = "cancel"
      BY <1>2 DEF CancelOthers
    <3>4. job[i] \in Rows
      BY <1>0
    <3>5. QED
      BY <3>1, <3>2, <3>3, <3>4 DEF Live, ActiveJobs, Active, Rows
  <2>2. QED
    BY <1>2, <2>1 DEF CancelOthers, Live
<1>3. CASE WipeOthers(j)
  <2>1. ASSUME NEW i \in Jobs
        PROVE  /\ job'[i].age = job[i].age
               /\ job[i].status = "none" => job'[i].status = "none"
    <3>1. job'[i] = job[i] \/ job'[i] = [job[i] EXCEPT !.status = "none"]
      BY <1>3 DEF WipeOthers
    <3>2. job[i] \in Rows
      BY <1>0
    <3>3. QED
      BY <3>1, <3>2 DEF Rows
  <2>2. \A i \in Jobs : Live(i)' => Live(i)
    BY <1>3, WorkEffect DEF Live, Working
  <2>3. QED
    BY <1>3, <2>1, <2>2 DEF WipeOthers, Live
<1>4. CASE AcquireLock(j) \/ Finish(j) \/ Kill(j)
  <2>1. /\ Live(j) /\ UNCHANGED <<lastId, request>>
        /\ \/ Goto(j, "claim") \/ Goto(j, "finish") \/ Goto(j, "post")
        /\ \/ UNCHANGED job
           \/ SetStatus(j, "error")
           \/ job' = [job EXCEPT ![j].status = "none"]
    BY <1>4 DEF AcquireLock, Finish, Kill, Abort, Live, queueVars
  <2>2. SetStatus(j, "none") <=> job' = [job EXCEPT ![j].status = "none"]
    BY DEF SetStatus
  <2>3. \A i \in Jobs : job'[i].age = job[i].age /\ (i # j => job'[i] = job[i])
    BY <1>1, <2>1, <2>2
  <2>4. \A i \in Jobs : Live(i)' => Live(i)
    BY <2>1, GotoEffect DEF Live
  <2>5. QED
    BY <2>1, <2>3, <2>4
<1>5. CASE StopPost(j) \/ RemoveMarker(j)
  <2>1. /\ Live(j) /\ UNCHANGED <<lastId, request, job>>
        /\ Goto(j, "remove") \/ unit' = [unit EXCEPT ![j] = NoUnit]
    BY <1>5 DEF StopPost, RemoveMarker, Live, queueVars
  <2>2. \A i \in Jobs : Live(i)' => Live(i)
    BY <1>0, <2>1, GotoEffect DEF Live
  <2>3. QED
    BY <2>1, <2>2
<1>6. CASE \/ Claim(j) \/ WorkOnline(j) \/ MarkWeb(j) \/ StopWeb(j)
           \/ WorkOffline(j) \/ RestartWeb(j) \/ Unmark(j) \/ Report(j)
  <2>1. /\ Live(j) /\ \A i \in Jobs : Live(i)' => Live(i)
    BY <1>6, WorkEffect DEF Live, Working
  <2>2. /\ lastId' = lastId /\ (UNCHANGED request \/ request' = [w \in Workers |-> Idle])
        /\ \/ UNCHANGED job
           \/ \E status : SetStatus(j, status)
    <3>1. ASSUME job' = [job EXCEPT ![j].status = IF @ = "none" THEN @ ELSE "error"]
          PROVE  SetStatus(j, IF job[j].status = "none" THEN job[j].status ELSE "error")
      BY <3>1 DEF SetStatus
    <3>2. QED
      BY <1>6, <3>1 DEF Claim, WorkOnline, MarkWeb, StopWeb, WorkOffline, RestartWeb, Unmark,
                        Report, queueVars
  <2>3. QED
    BY <1>1, <2>1, <2>2
<1>7. QED
  BY <1>2, <1>3, <1>4, <1>5, <1>6 DEF Runner

LEMMA RecordInit == Init => Recorded
<1> SUFFICES ASSUME Init
             PROVE  Recorded
  OBVIOUS
<1>1. \A j \in Jobs : job[j].status = "none" /\ ~Live(j) /\ unit[j].pc \notin Working
  BY DEF Init, NoJob, NoUnit, Live, Working
<1>2. \A w \in Workers : request[w].pc = "idle" /\ request[w].stale = {}
  BY DEF Init, Idle
<1>3. QED
  BY <1>1, <1>2 DEF Recorded, AgesTell, StartsFresh, RunnerRecorded

(* A submission recovers only rows without a unit, inserts a row above all   *)
(* others and starts that row's unit.                                        *)
LEMMA SubmissionRecords ==
  ASSUME TypeOK, Recorded, NEW w \in Workers, Submission(w)
  PROVE  Recorded'
<1>0. /\ job \in [Jobs -> Rows] /\ unit \in [Jobs -> Units]
      /\ request \in [Workers -> Requests] /\ lastId \in 0 .. MaxJobs
  BY DEF TypeOK, Rows, Units, Requests
<1>a. \A j \in Jobs : unit[j].pc \in Working => Live(j)
  BY DEF Working, Live
<1>1. CASE Check(w)
  <2>1. UNCHANGED <<job, lastId, unit>>
    BY <1>1 DEF Check
  <2>2. ASSUME NEW v \in Workers
        PROVE  \/ request'[v] = request[v]
               \/ request'[v].pc = "checked" /\ request'[v].stale = StaleJobs
    BY <1>0, <1>1 DEF Check
  <2>3. \A j \in StaleJobs : j \in Jobs /\ j <= lastId /\ job[j].age > StaleAge
    <3>1. ASSUME NEW j \in Jobs, ~(j <= lastId)
          PROVE  j > lastId
      BY <1>0, <3>1, Numbers
    <3>2. QED
      BY <3>1 DEF StaleJobs, ActiveJobs, Active, Recorded, AgesTell
  <2>4. AgesTell'
    BY <2>1, <2>2, <2>3 DEF Recorded, AgesTell, Live
  <2>5. StartsFresh' /\ RunnerRecorded'
    BY <2>1, <2>2 DEF Recorded, StartsFresh, RunnerRecorded, Live
  <2>6. QED
    BY <2>4, <2>5 DEF Recorded
<1>2. CASE Insert(w)
  <2>1. /\ lastId' = lastId + 1 /\ lastId + 1 \in Jobs /\ unit' = unit
        /\ request[w].pc = "checked"
        /\ request' = [request EXCEPT ![w] = [pc |-> "start", job |-> lastId + 1, stale |-> {}]]
    BY <1>0, <1>2, Numbers DEF Insert, Jobs
  <2>5. \A v \in Workers : \A j \in request[v].stale :
          j \in Jobs /\ j <= lastId /\ job[j].age > StaleAge
    BY <1>0 DEF Recorded, AgesTell, Requests
  <2>2. ASSUME NEW j \in Jobs
        PROVE  /\ j = lastId + 1 => job'[j].age = 0
               /\ j # lastId + 1 => job'[j].age = job[j].age
               /\ j # lastId + 1 => \/ job'[j] = job[j]
                                    \/ j \in request[w].stale
    <3>1. PICK kind \in Kinds :
            job' = [i \in Jobs |->
              CASE i = lastId + 1 -> [status |-> "queued", kind |-> kind, age |-> 0]
                [] i \in request[w].stale -> [job[i] EXCEPT !.status = "error"]
                [] OTHER -> job[i]]
      BY <1>2 DEF Insert
    <3>2. job[j] \in Rows
      BY <1>0
    <3>3. j = lastId + 1 => job'[j].age = 0
      <4>1. j = lastId + 1 => job'[j] = [status |-> "queued", kind |-> kind, age |-> 0]
        <5>1. j = lastId + 1 => j \notin request[w].stale
          BY <1>0, <2>5, Numbers
        <5>2. QED
          BY <3>1, <5>1
      <4>2. QED
        BY <4>1
    <3>4. j # lastId + 1 => \/ job'[j] = job[j]
                            \/ j \in request[w].stale /\ job'[j] = [job[j] EXCEPT !.status = "error"]
      BY <3>1
    <3>5. QED
      BY <3>2, <3>3, <3>4 DEF Rows
  <2>3. ~Live(lastId + 1)
    BY <1>0, <2>1, Numbers DEF Recorded, AgesTell
  <2>4. \A v \in Workers : \/ v # w /\ request'[v] = request[v]
                           \/ /\ v = w /\ request'[v].pc = "start"
                              /\ request'[v].job = lastId + 1 /\ request'[v].stale = {}
    BY <1>0, <2>1
  <2>6. AgesTell'
    <3>1. ASSUME NEW j \in Jobs, j > lastId'
          PROVE  job'[j].status = "none" /\ ~Live(j)'
      <4>1. j > lastId /\ j # lastId + 1
        BY <1>0, <2>1, <3>1, Numbers
      <4>2. job'[j] = job[j]
        BY <1>0, <2>2, <2>5, <4>1, Numbers
      <4>3. QED
        BY <2>1, <4>1, <4>2 DEF Recorded, AgesTell, Live
    <3>2. ASSUME NEW j \in Jobs, Live(j)'
          PROVE  job'[j].age <= Timeout
      BY <2>1, <2>2, <2>3, <3>2 DEF Recorded, AgesTell, Live
    <3>3. ASSUME NEW v \in Workers, NEW j \in request'[v].stale
          PROVE  j <= lastId' /\ job'[j].age > StaleAge
      <4>1. j \in request[v].stale
        BY <2>4
      <4>2. j \in Jobs /\ j <= lastId /\ job[j].age > StaleAge
        BY <2>5, <4>1
      <4>3. j # lastId + 1 /\ j <= lastId + 1
        BY <1>0, <4>2, Numbers
      <4>4. QED
        BY <2>1, <2>2, <4>2, <4>3
    <3>4. QED
      BY <3>1, <3>2, <3>3 DEF AgesTell
  <2>7. StartsFresh'
    <3>1. ASSUME NEW v \in Workers, request'[v].pc = "start", NEW k, k = request'[v].job
          PROVE  /\ k \in Jobs /\ k <= lastId' /\ ~Live(k)' /\ job'[k].age = 0
                 /\ v # w <=> k # lastId + 1
      <4>1. CASE v = w
        <5>1. k = lastId + 1
          BY <2>4, <3>1, <4>1
        <5>2. ~Live(k)' /\ job'[k].age = 0
          BY <2>1, <2>2, <2>3, <5>1 DEF Live
        <5>3. k <= lastId'
          BY <1>0, <2>1, <5>1, Numbers
        <5>4. QED
          BY <2>1, <4>1, <5>1, <5>2, <5>3
      <4>2. CASE v # w
        <5>1. request'[v] = request[v]
          BY <2>4, <4>2
        <5>2. k \in Jobs /\ k <= lastId /\ ~Live(k) /\ job[k].age = 0
          BY <3>1, <5>1 DEF Recorded, StartsFresh
        <5>3. k # lastId + 1 /\ k <= lastId + 1
          BY <1>0, <5>2, Numbers
        <5>4. ~Live(k)' /\ job'[k].age = 0
          BY <2>1, <2>2, <5>2, <5>3 DEF Live
        <5>5. QED
          BY <2>1, <4>2, <5>2, <5>3, <5>4
      <4>3. QED
        BY <4>1, <4>2
    <3>2. ASSUME NEW u \in Workers, NEW v \in Workers, request'[u].pc = "start",
                 request'[v].pc = "start", request'[u].job = request'[v].job
          PROVE  u = v
      BY <2>4, <3>1, <3>2 DEF Recorded, StartsFresh
    <3>3. QED
      BY <3>1, <3>2 DEF StartsFresh, Live
  <2>8. RunnerRecorded'
    <3>1. ASSUME NEW j \in Jobs, unit[j].pc \in Working
          PROVE  job'[j] = job[j]
      <4>1. Live(j) /\ job[j].age <= Timeout
        BY <1>a, <3>1 DEF Recorded, AgesTell
      <4>2. j # lastId + 1 /\ j \notin request[w].stale
        BY <1>0, <2>3, <2>5, <4>1, Numbers DEF Rows, Ages
      <4>3. QED
        BY <2>2, <4>2
    <3>2. QED
      BY <2>1, <3>1 DEF RunnerRecorded, Recorded
  <2>9. QED
    BY <2>6, <2>7, <2>8 DEF Recorded
<1>3. CASE StartUnit(w) \/ LoseRequest(w)
  <2>1. lastId' = lastId /\ request' = [request EXCEPT ![w] = Idle]
    BY <1>3 DEF StartUnit, LoseRequest, queueVars
  <2>2. \A v \in Workers : \/ v # w /\ request'[v] = request[v]
                           \/ request'[v].pc = "idle" /\ request'[v].stale = {}
    BY <1>0, <2>1 DEF Idle
  <2>3. CASE UNCHANGED <<job, unit>>
    BY <2>1, <2>2, <2>3 DEF Recorded, AgesTell, StartsFresh, RunnerRecorded, Live
  <2>4. CASE StartUnit(w) /\ ~UNCHANGED <<job, unit>>
    <3> DEFINE j == request[w].job
    <3>1. /\ request[w].pc = "start" /\ j \in Jobs /\ j <= lastId /\ ~Live(j)
          /\ job[j].age = 0
      BY <2>4 DEF StartUnit, Recorded, StartsFresh
    <3>2. \/ Goto(j, "load") /\ job' = job
          \/ SetStatus(j, "error") /\ unit' = unit
      BY <2>4 DEF StartUnit
    <3>3. \A i \in Jobs : /\ job'[i].age = job[i].age
                          /\ i # j => job'[i] = job[i] /\ unit'[i] = unit[i]
                          /\ unit'[j].pc \in {"off", "load"}
      BY <1>0, <3>1, <3>2 DEF Goto, SetStatus, Live, Rows, Units
    <3>4. AgesTell'
      <4>1. ASSUME NEW i \in Jobs, i > lastId
            PROVE  job'[i].status = "none" /\ ~Live(i)'
        <5>1. i # j
          BY <1>0, <3>1, <4>1, Numbers
        <5>2. QED
          BY <3>3, <4>1, <5>1 DEF Recorded, AgesTell, Live
      <4>2. ASSUME NEW i \in Jobs, Live(i)'
            PROVE  job'[i].age <= Timeout
        BY <3>1, <3>3, <4>2, Numbers DEF Recorded, AgesTell, Live
      <4>3. ASSUME NEW v \in Workers, NEW i \in request'[v].stale
            PROVE  i <= lastId' /\ job'[i].age > StaleAge
        <5>1. i \in request[v].stale /\ i \in Jobs
          BY <1>0, <2>2 DEF Requests
        <5>2. QED
          BY <2>1, <3>3, <5>1 DEF Recorded, AgesTell
      <4>4. QED
        BY <2>1, <4>1, <4>2, <4>3 DEF AgesTell
    <3>5. StartsFresh'
      <4>1. ASSUME NEW v \in Workers, request'[v].pc = "start"
            PROVE  /\ request'[v] = request[v] /\ request[v].job # j
        BY <2>2, <3>1, <4>1 DEF Recorded, StartsFresh
      <4>2. QED
        BY <2>1, <3>3, <4>1 DEF Recorded, StartsFresh, Live
    <3>6. RunnerRecorded'
      BY <3>3 DEF Recorded, RunnerRecorded, Working
    <3>7. QED
      BY <3>4, <3>5, <3>6 DEF Recorded
  <2>5. QED
    BY <1>3, <2>3, <2>4 DEF LoseRequest, queueVars
<1>4. QED
  BY <1>1, <1>2, <1>3 DEF Submission

(* A runner works on a row that reads running, and only the holder of the    *)
(* lock touches the rows of others.                                          *)
LEMMA RunnerRecords ==
  ASSUME TypeOK, LockHeld, Recorded, NEW j \in Jobs, Runner(j) \/ Kill(j)
  PROVE  Recorded'
<1>0. /\ job \in [Jobs -> Rows] /\ unit \in [Jobs -> Units]
      /\ request \in [Workers -> Requests] /\ lastId \in 0 .. MaxJobs
  BY DEF TypeOK, Rows, Units, Requests
<1>1. /\ Live(j) /\ lastId' = lastId
      /\ \A i \in Jobs : job'[i].age = job[i].age /\ (Live(i)' => Live(i))
      /\ \A i \in Jobs \ {j} : job[i].status = "none" => job'[i].status = "none"
  BY RowEffect
<1>2. \A w \in Workers : \/ request'[w] = request[w]
                         \/ request'[w].pc = "idle" /\ request'[w].stale = {}
  <2>1. request' = request \/ request' = [w \in Workers |-> Idle]
    BY RowEffect
  <2>2. Idle.pc = "idle" /\ Idle.stale = {}
    BY DEF Idle
  <2>3. \A w \in Workers : request'[w] = request[w] \/ request'[w] = Idle
    BY <2>1, Zenon
  <2>4. QED
    BY <2>2, <2>3
<1>3. AgesTell'
  <2>1. ASSUME NEW i \in Jobs, i > lastId
        PROVE  job'[i].status = "none" /\ ~Live(i)'
    BY <1>1, <2>1 DEF Recorded, AgesTell
  <2>2. ASSUME NEW i \in Jobs, Live(i)'
        PROVE  job'[i].age <= Timeout
    BY <1>1, <2>2 DEF Recorded, AgesTell
  <2>3. ASSUME NEW w \in Workers, NEW i \in request'[w].stale
        PROVE  i <= lastId' /\ job'[i].age > StaleAge
    <3>1. i \in request[w].stale /\ i \in Jobs
      BY <1>0, <1>2 DEF Requests
    <3>2. QED
      BY <1>1, <3>1 DEF Recorded, AgesTell
  <2>4. QED
    BY <1>1, <2>1, <2>2, <2>3 DEF AgesTell
<1>4. StartsFresh'
  <2>1. ASSUME NEW w \in Workers, request'[w].pc = "start", NEW k, k = request'[w].job
        PROVE  k \in Jobs /\ k <= lastId' /\ ~Live(k)' /\ job'[k].age = 0
    <3>1. request'[w] = request[w]
      BY <1>2, <2>1
    <3>2. k \in Jobs /\ k <= lastId /\ ~Live(k) /\ job[k].age = 0
      BY <2>1, <3>1 DEF Recorded, StartsFresh
    <3>3. QED
      BY <1>1, <3>2
  <2>2. ASSUME NEW v \in Workers, NEW w \in Workers, request'[v].pc = "start",
               request'[w].pc = "start", request'[v].job = request'[w].job
        PROVE  v = w
    BY <1>2, <2>2 DEF Recorded, StartsFresh
  <2>3. QED
    BY <2>1, <2>2 DEF StartsFresh, Live
<1>5. ASSUME NEW i \in Jobs, unit'[i].pc \in Working
      PROVE  job'[i].status = "running"
  <2>1. CASE \/ AcquireLock(j) \/ Finish(j) \/ Kill(j) \/ StopPost(j) \/ RemoveMarker(j)
    <3>1. /\ \/ Goto(j, "claim") \/ Goto(j, "finish") \/ Goto(j, "post") \/ Goto(j, "remove")
             \/ unit' = [unit EXCEPT ![j] = NoUnit]
          /\ \/ UNCHANGED job
             \/ SetStatus(j, "error")
             \/ job' = [job EXCEPT ![j].status = "none"]
      BY <2>1 DEF AcquireLock, Finish, Kill, StopPost, RemoveMarker, Abort, queueVars
    <3>2. unit'[j].pc \notin Working /\ \A k \in Jobs \ {j} : unit'[k] = unit[k]
      <4>1. CASE unit' = [unit EXCEPT ![j] = NoUnit]
        BY <1>0, <4>1 DEF NoUnit, Working
      <4>2. QED
        BY <3>1, <4>1, GotoEffect DEF Working
    <3>3. i # j /\ unit[i].pc \in Working /\ job'[i] = job[i]
      BY <1>0, <1>5, <3>1, <3>2 DEF SetStatus
    <3>4. QED
      BY <3>3 DEF Recorded, RunnerRecorded
  <2>2. CASE ~(AcquireLock(j) \/ Finish(j) \/ Kill(j) \/ StopPost(j) \/ RemoveMarker(j))
    <3>1. /\ unit[j].pc \in Working \cup {"claim"}
          /\ \A k \in Jobs \ {j} : \/ unit'[k] = unit[k]
                                   \/ unit[k].pc = "load" /\ unit'[k].pc = "finish"
      BY <2>2, WorkEffect DEF Runner
    <3>2. i = j
      BY <1>5, <3>1 DEF LockHeld, Working
    <3>3. CASE Claim(j)
      <4>1. \/ SetStatus(j, "running")
            \/ Goto(j, "finish")
        BY <3>3 DEF Claim
      <4>2. CASE Goto(j, "finish")
        BY <1>5, <3>2, <4>2, GotoEffect DEF Working
      <4>3. CASE SetStatus(j, "running")
        BY <1>0, <3>2, <4>3 DEF SetStatus, Rows
      <4>4. QED
        BY <4>1, <4>2, <4>3
    <3>4. CASE Report(j)
      BY <1>5, <3>2, <3>4, GotoEffect DEF Report, Working
    <3>5. CASE CancelOthers(j) \/ WipeOthers(j)
      <4>1. job'[j] = job[j] /\ unit[j].pc \in Working
        <5>1. CASE CancelOthers(j)
          BY <5>1 DEF CancelOthers, Working
        <5>2. CASE WipeOthers(j)
          BY <5>2 DEF WipeOthers, Working
        <5>3. QED
          BY <3>5, <5>1, <5>2
      <4>2. QED
        BY <3>2, <4>1 DEF Recorded, RunnerRecorded
    <3>6. CASE ~(Claim(j) \/ Report(j) \/ CancelOthers(j) \/ WipeOthers(j))
      <4>1. UNCHANGED job /\ unit[j].pc \in Working
        BY <2>2, <3>6 DEF Runner, WorkOnline, MarkWeb, StopWeb, WorkOffline, RestartWeb,
                          Unmark, queueVars, Working
      <4>2. QED
        BY <3>2, <4>1 DEF Recorded, RunnerRecorded
    <3>7. QED
      BY <3>3, <3>4, <3>5, <3>6
  <2>3. QED
    BY <2>1, <2>2
<1>6. QED
  BY <1>3, <1>4, <1>5 DEF Recorded, RunnerRecorded

LEMMA RecordNext == TypeOK /\ LockHeld /\ Recorded /\ [Next]_vars => Recorded'
<1> SUFFICES ASSUME TypeOK, LockHeld, Recorded, [Next]_vars
             PROVE  Recorded'
  OBVIOUS
<1>0. /\ job \in [Jobs -> Rows] /\ unit \in [Jobs -> Units]
      /\ request \in [Workers -> Requests] /\ lastId \in 0 .. MaxJobs
  BY DEF TypeOK, Rows, Units, Requests
<1>1. CASE RetentionService \/ SystemdRestarts \/ Probe \/ UNCHANGED vars
  <2>1. UNCHANGED <<job, lastId, request, unit>>
    BY <1>1 DEF RetentionService, RetentionLock, RetentionCheck, RetentionEnd,
                SystemdRestarts, Probe, vars, queueVars
  <2>2. QED
    BY <2>1 DEF Recorded, AgesTell, StartsFresh, RunnerRecorded, Live
<1>2. CASE WebFails \/ Reboot
  <2>1. UNCHANGED <<job, lastId>> /\ request' = [w \in Workers |-> Idle]
    BY <1>2 DEF WebFails, Reboot
  <2>2. \A w \in Workers : request'[w].pc = "idle" /\ request'[w].stale = {}
    BY <2>1 DEF Idle
  <2>3. \A j \in Jobs : unit'[j] = unit[j] \/ unit'[j].pc = "off"
    BY <1>2 DEF WebFails, Reboot, NoUnit
  <2>4. QED
    BY <2>1, <2>2, <2>3 DEF Recorded, AgesTell, StartsFresh, RunnerRecorded, Live, Working
<1>3. CASE Tick
  <2>1. /\ UNCHANGED <<lastId, request, unit>>
        /\ \A w \in Workers : request[w].pc = "idle"
        /\ \A j \in Jobs : Live(j) => job[j].age < Timeout
    BY <1>3 DEF Tick
  <2>2. ASSUME NEW j \in Jobs
        PROVE  /\ job'[j].status = job[j].status
               /\ job'[j].age \in {job[j].age, job[j].age + 1}
               /\ job[j].age > StaleAge => job'[j].age = job[j].age
    <3>1. job'[j] = IF j > lastId \/ job[j].age > StaleAge THEN job[j]
                    ELSE [job[j] EXCEPT !.age = @ + 1]
      BY <1>3 DEF Tick
    <3>2. job[j] \in Rows
      BY <1>0
    <3>3. CASE j > lastId \/ job[j].age > StaleAge
      BY <3>1, <3>3
    <3>4. CASE ~(j > lastId \/ job[j].age > StaleAge)
      BY <3>1, <3>2, <3>4 DEF Rows
    <3>5. QED
      BY <3>3, <3>4
  <2>3. AgesTell'
    <3>1. ASSUME NEW j \in Jobs, Live(j)
          PROVE  job'[j].age <= Timeout
      <4>1. job[j].age \in Nat /\ job[j].age < Timeout
        BY <1>0, <2>1, <3>1, Numbers DEF Rows, Ages
      <4>2. QED
        BY <2>2, <4>1, Numbers
    <3>2. ASSUME NEW w \in Workers, NEW j \in request[w].stale
          PROVE  j <= lastId /\ job'[j].age > StaleAge
      <4>1. j \in Jobs
        BY <1>0 DEF Requests
      <4>2. QED
        BY <2>2, <4>1 DEF Recorded, AgesTell
    <3>3. QED
      BY <2>1, <2>2, <3>1, <3>2 DEF Recorded, AgesTell, Live
  <2>4. QED
    BY <2>1, <2>2, <2>3 DEF Recorded, StartsFresh, RunnerRecorded
<1>4. QED
  BY <1>1, <1>2, <1>3, SubmissionRecords, RunnerRecords DEF Next

(* While a runner works its row reads running: recovery and reset never hit  *)
(* it, whatever the time limits as long as a unit's is below the age of a    *)
(* row taken for dead.                                                       *)
THEOREM RowOfRunnerKept == Spec => []RunnerRecorded
<1>1. Recorded => RunnerRecorded
  BY DEF Recorded
<1>2. TypeOK /\ LockHeld /\ Recorded /\ [Next]_vars
        => (TypeOK /\ LockHeld /\ Recorded)'
  BY TypeNext, LockNext, RecordNext
<1>3. QED
  BY <1>1, <1>2, TypeInit, LockInit, RecordInit, PTL DEF Spec

-----------------------------------------------------------------------------
(* A runner that has left its action without an error has done it. *)
SuccessIsDone ==
  \A j \in Jobs : unit[j].pc \in {"restart", "unmark", "report"} /\ ~unit[j].failed
                  => j \in done

LEMMA DoneInit == Init => SuccessIsDone /\ OkMeansDone
BY DEF Init, NoUnit, NoJob, SuccessIsDone, OkMeansDone

(* Only Report writes ok, and only after a success. *)
LEMMA RunnerDone ==
  ASSUME TypeOK, SuccessIsDone, OkMeansDone, NEW j \in Jobs, Runner(j) \/ Kill(j)
  PROVE  SuccessIsDone' /\ OkMeansDone'
<1>0. job \in [Jobs -> Rows] /\ unit \in [Jobs -> Units]
  BY DEF TypeOK, Rows, Units
<1>1. done \subseteq done'
  BY DEF Runner, AcquireLock, Claim, WorkOnline, MarkWeb, StopWeb, CancelOthers, WipeOthers,
         WorkOffline, RestartWeb, Unmark, Report, Finish, StopPost, RemoveMarker, Kill
<1>2. ASSUME NEW i \in Jobs, job'[i].status = "ok"
      PROVE  job[i].status = "ok" \/ i \in done
  <2>1. ASSUME NEW status, SetStatus(j, status), status # "ok"
        PROVE  job[i].status = "ok"
    BY <1>0, <1>2, <2>1 DEF SetStatus, Rows
  <2>2. CASE CancelOthers(j) \/ WipeOthers(j)
    <3>1. \/ job'[i] = job[i]
          \/ job'[i] = [job[i] EXCEPT !.status = "error"]
          \/ job'[i] = [job[i] EXCEPT !.status = "none"]
      BY <2>2 DEF CancelOthers, WipeOthers
    <3>2. QED
      BY <1>0, <1>2, <3>1 DEF Rows
  <2>3. CASE Claim(j)
    <3>1. SetStatus(j, "running") \/ job' = [job EXCEPT ![j].status = IF @ = "none" THEN @ ELSE "error"]
      BY <2>3 DEF Claim
    <3>2. ASSUME job' = [job EXCEPT ![j].status = IF @ = "none" THEN @ ELSE "error"]
          PROVE  SetStatus(j, IF job[j].status = "none" THEN "none" ELSE "error")
      BY <1>0, <3>2 DEF SetStatus
    <3>3. QED
      BY <2>1, <3>1, <3>2
  <2>4. CASE Report(j)
    <3>1. CASE unit[j].failed
      BY <2>1, <2>4, <3>1 DEF Report
    <3>2. CASE ~unit[j].failed
      <4>1. j \in done
        BY <2>4, <3>2 DEF Report, SuccessIsDone
      <4>2. i # j => job'[i] = job[i]
        BY <1>0, <2>4 DEF Report, SetStatus
      <4>3. QED
        BY <1>2, <4>1, <4>2
    <3>3. QED
      BY <3>1, <3>2
  <2>5. CASE AcquireLock(j) \/ Finish(j)
    <3>1. UNCHANGED job \/ SetStatus(j, "error") \/ SetStatus(j, "none")
      BY <2>5 DEF AcquireLock, Abort, Finish, SetStatus
    <3>2. QED
      BY <1>2, <2>1, <3>1
  <2>6. CASE \/ WorkOnline(j) \/ MarkWeb(j) \/ StopWeb(j) \/ WorkOffline(j) \/ RestartWeb(j)
             \/ Unmark(j) \/ StopPost(j) \/ RemoveMarker(j) \/ Kill(j)
    <3>1. UNCHANGED job
      BY <2>6 DEF WorkOnline, MarkWeb, StopWeb, WorkOffline, RestartWeb, Unmark, StopPost,
                  RemoveMarker, Kill, queueVars
    <3>2. QED
      BY <1>2, <3>1
  <2>7. QED
    BY <2>2, <2>3, <2>4, <2>5, <2>6 DEF Runner
<1>3. ASSUME NEW i \in Jobs, unit'[i].pc \in {"restart", "unmark", "report"}, ~unit'[i].failed
      PROVE  \/ unit[i].pc \in {"restart", "unmark", "report"} /\ ~unit[i].failed
             \/ i \in done'
  <2>1. CASE WorkOnline(j) \/ WorkOffline(j)
    <3>1. \/ Leave(j, FALSE) /\ j \in done'
          \/ Leave(j, TRUE)
          \/ Goto(j, "stop")
      BY <2>1 DEF WorkOnline, WorkOffline
    <3>2. QED
      <4>1. CASE Leave(j, FALSE) /\ j \in done'
        BY <1>3, <4>1, LeaveEffect
      <4>2. CASE Leave(j, TRUE)
        BY <1>3, <4>2, FailureEffect
      <4>3. CASE Goto(j, "stop")
        BY <1>3, <4>3, GotoEffect
      <4>4. QED
        BY <3>1, <4>1, <4>2, <4>3
  <2>2. CASE CancelOthers(j)
    <3>1. unit'[i] = unit[i] \/ unit'[i].pc \in {"wipe", "finish"}
      BY <1>0, <2>2 DEF CancelOthers, Units
    <3>2. QED
      BY <1>3, <3>1
  <2>3. CASE StopWeb(j) \/ WipeOthers(j)
    <3>1. \/ unit' = [unit EXCEPT ![j].pc = AfterStop(j), ![j].stopped = TRUE]
          \/ Leave(j, TRUE)
          \/ Goto(j, "offline")
      BY <2>3 DEF StopWeb, WipeOthers
    <3>2. ASSUME unit' = [unit EXCEPT ![j].pc = AfterStop(j), ![j].stopped = TRUE]
          PROVE  unit'[i] = unit[i] \/ unit'[i].pc \in {"cancel", "offline"}
      BY <1>0, <3>2 DEF AfterStop, Units
    <3>3. QED
      <4>1. CASE Leave(j, TRUE)
        BY <1>3, <4>1, FailureEffect
      <4>2. CASE Goto(j, "offline")
        BY <1>3, <4>2, GotoEffect
      <4>3. QED
        BY <1>3, <3>1, <3>2, <4>1, <4>2
  <2>4. CASE RestartWeb(j)
    <3>1. /\ unit[j].pc = "restart"
          /\ \/ Goto(j, "unmark")
             \/ unit' = [unit EXCEPT ![j].pc = "report", ![j].failed = TRUE]
      BY <2>4 DEF RestartWeb
    <3>2. ASSUME unit' = [unit EXCEPT ![j].pc = "report", ![j].failed = TRUE]
          PROVE  unit'[i] = unit[i] \/ unit'[i].failed
      BY <1>0, <3>2 DEF Units
    <3>3. QED
      BY <1>3, <3>1, <3>2, GotoEffect
  <2>5. CASE \/ AcquireLock(j) \/ Claim(j) \/ MarkWeb(j) \/ Unmark(j) \/ Report(j)
             \/ Finish(j) \/ Kill(j)
    <3>1. \E step : /\ Goto(j, step)
                    /\ step \in {"restart", "unmark", "report"} => unit[j].pc = "unmark"
      BY <2>5 DEF AcquireLock, Abort, Claim, MarkWeb, AfterStop, Unmark, Report, Finish, Kill
    <3>2. QED
      BY <1>3, <3>1, GotoEffect
  <2>6. CASE StopPost(j) \/ RemoveMarker(j)
    <3>1. Goto(j, "remove") \/ unit' = [unit EXCEPT ![j] = NoUnit]
      BY <2>6 DEF StopPost, RemoveMarker
    <3>2. ASSUME unit' = [unit EXCEPT ![j] = NoUnit]
          PROVE  unit'[i] = unit[i] \/ unit'[i].pc = "off"
      BY <1>0, <3>2 DEF NoUnit
    <3>3. QED
      BY <1>3, <3>1, <3>2, GotoEffect
  <2>7. QED
    BY <2>1, <2>2, <2>3, <2>4, <2>5, <2>6 DEF Runner
<1>4. QED
  BY <1>1, <1>2, <1>3 DEF SuccessIsDone, OkMeansDone

LEMMA DoneNext == TypeOK /\ SuccessIsDone /\ OkMeansDone /\ [Next]_vars
                    => SuccessIsDone' /\ OkMeansDone'
<1> SUFFICES ASSUME TypeOK, SuccessIsDone, OkMeansDone, [Next]_vars
             PROVE  SuccessIsDone' /\ OkMeansDone'
  OBVIOUS
<1>0. job \in [Jobs -> Rows] /\ unit \in [Jobs -> Units]
  BY DEF TypeOK, Rows, Units
<1>1. ASSUME done' = done,
             \A j \in Jobs : job'[j].status = "ok" => job[j].status = "ok",
             \A j \in Jobs : unit'[j] = unit[j] \/ unit'[j].pc \in {"off", "load"}
      PROVE  SuccessIsDone' /\ OkMeansDone'
  BY <1>1 DEF SuccessIsDone, OkMeansDone
<1>2. ASSUME NEW w \in Workers, Submission(w)
      PROVE  SuccessIsDone' /\ OkMeansDone'
  <2>1. done' = done
    BY <1>2 DEF Submission, Check, Insert, StartUnit, LoseRequest
  <2>2. ASSUME NEW j \in Jobs, job'[j].status = "ok"
        PROVE  job[j].status = "ok"
    <3>1. CASE Insert(w)
      <4>1. \/ job'[j] = job[j]
            \/ job'[j] = [job[j] EXCEPT !.status = "error"]
            \/ job'[j].status = "queued"
        BY <3>1 DEF Insert
      <4>2. QED
        BY <1>0, <2>2, <4>1 DEF Rows
    <3>2. CASE ~Insert(w)
      <4>1. UNCHANGED job \/ job' = [job EXCEPT ![request[w].job].status = "error"]
        BY <1>2, <3>2 DEF Submission, Check, StartUnit, LoseRequest, SetStatus, queueVars
      <4>2. QED
        BY <1>0, <2>2, <4>1 DEF Rows
    <3>3. QED
      BY <3>1, <3>2
  <2>3. ASSUME NEW j \in Jobs
        PROVE  unit'[j] = unit[j] \/ unit'[j].pc = "load"
    <3>1. UNCHANGED unit \/ unit' = [unit EXCEPT ![request[w].job].pc = "load"]
      BY <1>2 DEF Submission, Check, Insert, StartUnit, LoseRequest, Goto
    <3>2. QED
      BY <1>0, <3>1 DEF Units
  <2>4. QED
    BY <1>1, <2>1, <2>2, <2>3
<1>3. CASE \/ RetentionService \/ WebFails \/ SystemdRestarts \/ Probe \/ Reboot \/ UNCHANGED vars
  <2>1. done' = done /\ UNCHANGED job
    BY <1>3 DEF RetentionService, RetentionLock, RetentionCheck, RetentionEnd, WebFails,
                SystemdRestarts, Probe, Reboot, vars, queueVars
  <2>2. UNCHANGED unit \/ unit' = [j \in Jobs |-> NoUnit]
    BY <1>3 DEF RetentionService, RetentionLock, RetentionCheck, RetentionEnd, WebFails,
                SystemdRestarts, Probe, Reboot, vars, queueVars
  <2>3. QED
    BY <1>1, <2>1, <2>2 DEF NoUnit
<1>4. CASE Tick
  <2>1. ASSUME NEW j \in Jobs
        PROVE  job'[j].status = job[j].status
    <3>1. job'[j] = job[j] \/ job'[j] = [job[j] EXCEPT !.age = @ + 1]
      BY <1>4 DEF Tick
    <3>2. QED
      BY <1>0, <3>1 DEF Rows
  <2>2. UNCHANGED <<unit, done>>
    BY <1>4 DEF Tick
  <2>3. QED
    BY <1>1, <2>1, <2>2
<1>5. QED
  BY <1>2, <1>3, <1>4, RunnerDone DEF Next

(* A job that reads ok has done its work, however kills and errors fall. *)
THEOREM OkIsTrue == Spec => []OkMeansDone
<1>1. TypeOK /\ SuccessIsDone /\ OkMeansDone /\ [Next]_vars
        => (TypeOK /\ SuccessIsDone /\ OkMeansDone)'
  BY TypeNext, DoneNext
<1>2. QED
  BY <1>1, TypeInit, DoneInit, PTL DEF Spec
=============================================================================
