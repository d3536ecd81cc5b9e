---------------------------- MODULE AbuseEngine ----------------------------
(***************************************************************************)
(* Abuse detection for one VM of one node.  Each push evaluates the VM     *)
(* under the policy in force, keeps its streak of consecutive five-minute  *)
(* cycles in vm_abuse_state, writes an event when abuse starts, changes or *)
(* ends, and opens or closes the VM's incident with it.  Administrators    *)
(* save new policies, which close every open incident and restart every    *)
(* streak, and clean up the event history, after which the incidents are   *)
(* rebuilt from the events.                                                *)
(*                                                                         *)
(* BEGIN IMMEDIATE does nothing under PostgreSQL: a transaction reads what *)
(* is committed at each statement and waits only for the rows that others  *)
(* have written.  Pushes of a node wait for each other.                    *)
(***************************************************************************)
EXTENDS Naturals, Sequences, SequencesExt

CONSTANTS
  Admins,     \* requests of administrators that may overlap
  Required,   \* cycles in a row that make use of the CPU abuse
  ReplayBuckets, \* the age up to which a cleanup replays events: seven days
  MaxBuckets, \* bound: five-minute buckets
  MaxPushes,  \* bound: pushes applied
  MaxActs     \* bound: saves and cleanups begun

ASSUME BoundsAssumption ==
  {Required, MaxBuckets} \subseteq Nat \ {0} /\ {ReplayBuckets, MaxPushes, MaxActs} \subseteq Nat

VARIABLES
  bucket,     \* the present five minutes
  pushes,     \* pushes applied; a push bears the number it will have as its time
  acts,
  policy,     \* admin_settings
  row,        \* vm_abuse_state
  events,     \* vm_abuse_events
  incident,   \* the open row of vm_abuse_incidents
  lastId,     \* the sequence of its ids
  push,       \* the transaction of the push
  admin,      \* the transactions of the administrators
  verdict,    \* history, per bucket: the settings under which its last push hit
  superseded, \* history: buckets of pushes that were overtaken by a save
  raced,      \* history: a push has overlapped a cleanup since abuse last began
  forgotten   \* history: a cleanup has not replayed the event abuse last began with

worldVars   == <<bucket, pushes, acts>>
historyVars == <<verdict, superseded, raced, forgotten>>
tables      == <<policy, row, events, incident, lastId>>
vars == <<worldVars, tables, push, admin, historyVars>>

-----------------------------------------------------------------------------
Buckets == 1 .. MaxBuckets

(* "cpu" must last, "pps" counts at once.  The Mbps, RAM and disk rules are *)
(* counted like the former.                                                 *)
Rules == {"cpu", "pps"}

(* settings identifies what was saved, whatever its revision number. *)
NoRow == [flags |-> {}, since |-> 0, cycles |-> 0, bucket |-> 0, revision |-> 0, settings |-> 0]
NoIncident == [id |-> 0, since |-> 0]
FirstPolicy == [revision |-> 1, settings |-> 1]
NoPush == [pc |-> "idle", bucket |-> 0, policy |-> FirstPolicy, before |-> NoRow,
           row |-> NoRow, seen |-> 0]
NoAct  == [pc |-> "idle", policy |-> FirstPolicy, seen |-> 0, events |-> <<>>]

Init ==
  /\ bucket = 1 /\ pushes = 0 /\ acts = 0
  /\ policy = FirstPolicy /\ row = NoRow
  /\ events = <<>> /\ incident = NoIncident /\ lastId = 0
  /\ push = NoPush /\ admin = [a \in Admins |-> NoAct]
  /\ verdict = [b \in Buckets |-> 0] /\ superseded = {}
  /\ raced = FALSE /\ forgotten = FALSE

(* Transactions that hold the settings or an incident they have closed or  *)
(* deleted, until they end.                                                *)
SettingsLocked == \E a \in Admins : admin[a].pc \in {"chosen", "closed"}
Locked(id) ==
  id # 0 /\ \E a \in Admins : admin[a].seen = id /\ admin[a].pc \in {"closed", "deleted", "replay"}

CleaningUp == \E a \in Admins : admin[a].pc \in {"deleted", "replay"}

Tick ==
  /\ bucket < MaxBuckets /\ bucket' = bucket + 1
  /\ UNCHANGED <<pushes, acts, tables, push, admin, historyVars>>

-----------------------------------------------------------------------------
(* The evaluation of one push. *)

(* Mutant: every push counts, also a second one in the same bucket. *)
StreakOfPushes(old, now, b, hit) ==
  CASE ~hit -> 0
    [] OTHER -> IF old.revision = now.revision /\ b - old.bucket <= 1
                THEN old.cycles + 1 ELSE 1

(* _v4810_next_streak: old is the row, now the policy, b the bucket. *)
NextStreak(old, now, b, hit) ==
  CASE ~hit -> 0
    [] hit /\ old.bucket = b -> IF old.cycles = 0 THEN 1 ELSE old.cycles
    [] OTHER -> IF old.revision = now.revision /\ old.bucket # 0 /\ b = old.bucket + 1
                THEN old.cycles + 1 ELSE 1

WasActive(old, now) == old.flags # {} /\ old.revision = now.revision

Evaluated(old, now, b, hits, time) ==
  LET cycles == NextStreak(old, now, b, "cpu" \in hits)
      flags  == (hits \cap {"pps"}) \cup (IF cycles >= Required THEN {"cpu"} ELSE {})
  IN [flags |-> flags, cycles |-> cycles, bucket |-> b,
      since |-> CASE flags = {} -> 0
                  [] flags # {} /\ WasActive(old, now) -> old.since
                  [] OTHER -> time,
      revision |-> now.revision, settings |-> now.settings]

(* Mutant: abuse under another policy counts as going on. *)
EventsAnyPolicy(old, new, now, b, time) ==
  LET Event(type, since) == <<[type |-> type, bucket |-> b, time |-> time, since |-> since]>>
  IN CASE old.flags = {} /\ new.flags # {} -> Event("started", new.since)
       [] old.flags # {} /\ new.flags = {} -> Event("recovered", old.since)
       [] OTHER -> <<>>

(* The events a push writes: at most one for the VM. *)
EventsOf(old, new, now, b, time) ==
  LET was == WasActive(old, now)
      is  == new.flags # {}
      Event(type, since) == <<[type |-> type, bucket |-> b, time |-> time, since |-> since]>>
  IN CASE is /\ ~was -> Event("started", new.since)
       [] is /\ was /\ new.flags # old.flags -> Event("updated", new.since)
       [] ~is /\ was -> Event("recovered", old.since)
       [] OTHER -> <<>>

(* What an event leaves of the open incident, given by its start.  "started"*)
(* closes one that is open.                                                 *)
Applied(since, event) ==
  CASE event.type = "started" -> event.time
    [] event.type = "updated" -> IF since = 0 THEN event.since ELSE since
    [] event.type = "recovered" -> 0

-----------------------------------------------------------------------------
(* The push. *)

(* Under the lock of the node: get_abuse_settings, which reads the settings *)
(* in one statement and the revision in another.                            *)
ReadSettings ==
  /\ push.pc = "idle" /\ pushes < MaxPushes
  /\ push' = [NoPush EXCEPT !.pc = "settings", !.bucket = bucket,
                            !.policy.settings = policy.settings]
  /\ UNCHANGED <<worldVars, tables, admin, historyVars>>

ReadRevision ==
  /\ push.pc = "settings"
  /\ push' = [push EXCEPT !.pc = "policy", !.policy.revision = policy.revision]
  /\ UNCHANGED <<worldVars, tables, admin, historyVars>>

(* _v4810_state_map *)
ReadState ==
  /\ push.pc = "policy"
  /\ push' = [push EXCEPT !.pc = "before", !.before = row]
  /\ UNCHANGED <<worldVars, tables, admin, historyVars>>

(* The row is written, and locked: with the evaluation of what the node     *)
(* reports, or deleted if a complete inventory does not list the VM.        *)
WriteState ==
  /\ push.pc = "before"
  /\ \E new \in {NoRow} \cup {Evaluated(push.before, push.policy, push.bucket, hits, pushes + 1) :
                              hits \in SUBSET Rules} :
       push' = [push EXCEPT !.pc = "written", !.row = new]
  /\ UNCHANGED <<worldVars, tables, admin, historyVars>>

NewEvents == EventsOf(push.before, push.row, push.policy, push.bucket, pushes + 1)

(* With an event to write, the look for the open incident. *)
FindIncident ==
  /\ push.pc = "written" /\ NewEvents # <<>>
  /\ push' = [push EXCEPT !.pc = "found", !.seen = incident.id]
  /\ UNCHANGED <<worldVars, tables, admin, historyVars>>

(* The commit of the push, and what is remembered of it. *)
CommitPush ==
  /\ row' = push.row /\ push' = NoPush /\ pushes' = pushes + 1
  /\ verdict' = [verdict EXCEPT ![push.bucket] =
                   IF push.row.cycles > 0 THEN push.policy.settings ELSE 0]
  /\ superseded' = superseded \cup (IF push.policy = policy THEN {} ELSE {push.bucket})
  /\ UNCHANGED <<bucket, acts, policy, admin>>

EndQuietly ==
  /\ push.pc = "written" /\ NewEvents = <<>>
  /\ CommitPush /\ raced' = (raced \/ CleaningUp)
  /\ UNCHANGED <<events, incident, lastId, forgotten>>

(* Mutant: the end of abuse is an event and leaves the incident open. *)
StartsOnly ==
  LET event == Head(NewEvents) IN
  /\ push.pc = "found" /\ ~Locked(push.seen)
  /\ IF event.type = "started" /\ incident.id \in {0, push.seen}
     THEN incident' = [id |-> lastId + 1, since |-> event.time] /\ lastId' = lastId + 1
     ELSE UNCHANGED <<incident, lastId>>
  /\ events' = events \o NewEvents
  /\ CommitPush /\ raced' = (CleaningUp \/ (raced /\ event.type # "started"))
  /\ forgotten' = (forgotten /\ event.type # "started")

(* _v48126_apply_incident_event.  The incident that was found may have been *)
(* closed or rebuilt since: its update then changes nothing.  An insert     *)
(* beside another open incident breaks the unique index.                    *)
EndWithEvent ==
  LET event  == Head(NewEvents)
      insert == event.type = "started" \/ (event.type = "updated" /\ push.seen = 0)
  IN /\ push.pc = "found" /\ ~Locked(push.seen)
     /\ \/ /\ insert /\ incident.id \in {0, push.seen} /\ ~Locked(incident.id)
           /\ incident' = [id |-> lastId + 1, since |-> Applied(0, event)]
           /\ lastId' = lastId + 1
        \/ /\ ~insert
           /\ incident' = IF event.type = "recovered" /\ incident.id = push.seen
                          THEN NoIncident ELSE incident
           /\ UNCHANGED lastId
     /\ events' = events \o NewEvents
     /\ CommitPush /\ raced' = (CleaningUp \/ (raced /\ event.type # "started"))
     /\ forgotten' = (forgotten /\ event.type # "started")

(* The web worker dies, the lock or the statement times out, the insert     *)
(* fails, or PostgreSQL aborts the push because it and a save wait for each *)
(* other: the agent sends it again.                                         *)
PushAborts ==
  /\ push.pc # "idle" /\ push' = NoPush
  /\ UNCHANGED <<worldVars, tables, admin, historyVars>>

Push ==
  \/ ReadSettings \/ ReadRevision \/ ReadState \/ WriteState
  \/ FindIncident \/ EndQuietly \/ EndWithEvent

-----------------------------------------------------------------------------
(* The save of a policy. *)

SaveBegins(a) ==
  /\ admin[a].pc = "idle" /\ acts < MaxActs /\ acts' = acts + 1
  /\ admin' = [admin EXCEPT ![a] =
       [NoAct EXCEPT !.pc = "read",
                     !.policy = [revision |-> policy.revision + 1, settings |-> acts + 2]]]
  /\ UNCHANGED <<bucket, pushes, tables, push, historyVars>>

(* The upsert of the settings, which another save may hold, and the look   *)
(* for open incidents.                                                     *)
SaveChooses(a) ==
  /\ admin[a].pc = "read" /\ ~SettingsLocked
  /\ admin' = [admin EXCEPT ![a].pc = "chosen", ![a].seen = incident.id]
  /\ UNCHANGED <<worldVars, tables, push, historyVars>>

SaveCloses(a) ==
  /\ admin[a].pc = "chosen" /\ ~Locked(admin[a].seen)
  /\ admin' = [admin EXCEPT ![a].pc = "closed"]
  /\ UNCHANGED <<worldVars, tables, push, historyVars>>

(* Mutant: the reset leaves the streak. *)
ResetFlagsOnly(r, now) ==
  [r EXCEPT !.flags = {}, !.since = 0, !.revision = now.revision, !.settings = now.settings]

(* _v4810_reset_current_state_for_policy *)
Reset(r, now) == [NoRow EXCEPT !.revision = now.revision, !.settings = now.settings]

(* The reset, which waits for a push that has written the row, the insert   *)
(* into abuse_policy_versions, whose key is the revision, and the commit.   *)
SaveEnds(a) ==
  /\ admin[a].pc = "closed"
  /\ row = NoRow \/ push.pc \notin {"written", "found"}
  /\ admin[a].policy.revision > policy.revision
  /\ policy' = admin[a].policy
  /\ row' = IF row = NoRow THEN NoRow ELSE Reset(row, admin[a].policy)
  /\ incident' = IF incident.id = admin[a].seen THEN NoIncident ELSE incident
  /\ admin' = [admin EXCEPT ![a] = NoAct]
  /\ UNCHANGED <<worldVars, events, lastId, push, historyVars>>

-----------------------------------------------------------------------------
(* The cleanup of the history by an administrator who selects events of     *)
(* other VMs: _v48126_rebuild_incidents deletes all incidents, reads the    *)
(* events of the last seven days, and applies them again.                   *)

(* The events as they are applied again, without the k oldest.  What is read*)
(* of one is its own time, not when the abuse it tells of began.            *)
Reread(e, k) ==
  [i \in 1 .. Len(e) - k |-> [e[k + i] EXCEPT !.since = e[k + i].time]]

RebuildDeletes(a) ==
  /\ admin[a].pc = "idle" /\ acts < MaxActs /\ acts' = acts + 1
  /\ ~Locked(incident.id)
  /\ admin' = [admin EXCEPT ![a] = [NoAct EXCEPT !.pc = "deleted", !.seen = incident.id]]
  /\ UNCHANGED <<bucket, pushes, tables, push, historyVars>>

(* Events are written in the order of their buckets.                        *)
RebuildReads(a) ==
  /\ admin[a].pc = "deleted"
  /\ \E k \in 0 .. Len(events) :
       /\ \A i \in 1 .. Len(events) : i > k <=> events[i].bucket + ReplayBuckets >= bucket
       /\ admin' = [admin EXCEPT ![a].pc = "replay", ![a].events = Reread(events, k)]
  /\ UNCHANGED <<worldVars, tables, push, historyVars>>

(* The abuse shown began with an event that the cleanup has not read. *)
Forgets(a) ==
  row.since # 0 /\ \A i \in DOMAIN admin[a].events : admin[a].events[i].time # row.since

(* The first event that is applied closes what a push has opened since. *)
RebuildEnds(a) ==
  LET since == FoldLeft(Applied, 0, admin[a].events)
      mine  == incident.id = admin[a].seen
  IN /\ admin[a].pc = "replay" /\ (mine \/ ~Locked(incident.id))
     /\ \/ /\ since # 0
           /\ incident' = [id |-> lastId + 1, since |-> since] /\ lastId' = lastId + 1
        \/ /\ since = 0 /\ UNCHANGED lastId
           /\ incident' = IF mine \/ admin[a].events # <<>> THEN NoIncident ELSE incident
     /\ admin' = [admin EXCEPT ![a] = NoAct]
     /\ raced' = (raced \/ push.pc = "found") /\ forgotten' = (forgotten \/ Forgets(a))
     /\ UNCHANGED <<worldVars, policy, row, events, push, verdict, superseded>>

(* A request that fails: the revision is taken, a deadlock, a dead worker. *)
AdminAborts(a) ==
  /\ admin[a].pc # "idle"
  /\ admin' = [admin EXCEPT ![a] = NoAct]
  /\ UNCHANGED <<worldVars, tables, push, historyVars>>

Administer(a) ==
  \/ SaveBegins(a) \/ SaveChooses(a) \/ SaveCloses(a) \/ SaveEnds(a)
  \/ RebuildDeletes(a) \/ RebuildReads(a) \/ RebuildEnds(a) \/ AdminAborts(a)

Next == Tick \/ Push \/ PushAborts \/ \E a \in Admins : Administer(a)

Spec == Init /\ [][Next]_vars

-----------------------------------------------------------------------------
(* The values the variables take. *)
TypeOK ==
  LET Policies == [revision : 1 .. MaxActs + 1, settings : 1 .. MaxActs + 1]
      Times == 0 .. MaxPushes
      Rows  == [flags : SUBSET Rules, since : Times, cycles : 0 .. MaxBuckets,
                bucket : 0 .. MaxBuckets, revision : 0 .. MaxActs + 1,
                settings : 0 .. MaxActs + 1]
      Ids   == 0 .. lastId
      Events == [type : {"started", "updated", "recovered"}, bucket : Buckets,
                 time : 1 .. pushes, since : 1 .. pushes]
  IN /\ bucket \in Buckets /\ pushes \in Times /\ acts \in 0 .. MaxActs
     /\ policy \in Policies /\ row \in Rows /\ row.cycles <= row.bucket
     /\ Len(events) <= pushes /\ \A i \in 1 .. Len(events) : events[i] \in Events
     /\ incident \in [id : Ids, since : Times] /\ lastId \in 0 .. MaxPushes + MaxActs
     /\ push.pc \in {"idle", "settings", "policy", "before", "written", "found"}
     /\ push.bucket \in 0 .. bucket /\ push.policy \in Policies
     /\ {push.before, push.row} \subseteq Rows /\ push.seen \in Ids
     /\ \A a \in Admins :
          /\ admin[a].pc \in {"idle", "read", "chosen", "closed", "deleted", "replay"}
          /\ admin[a].policy \in Policies /\ admin[a].seen \in Ids
     /\ verdict \in [Buckets -> 0 .. MaxActs + 1] /\ superseded \subseteq Buckets
     /\ raced \in BOOLEAN /\ forgotten \in BOOLEAN

(* CPU abuse is shown only if the last push of each of the last Required    *)
(* consecutive buckets hit, under the settings the row was evaluated with,  *)
(* unless a push of these buckets was overtaken by a save                   *)
(* (_v4810_next_streak, _v4810_reset_current_state_for_policy).             *)
SustainedOnly ==
  LET window == {b \in Buckets : b <= row.bucket /\ b + Required > row.bucket} IN
  "cpu" \in row.flags =>
    /\ row.bucket >= Required
    /\ \A b \in window : verdict[b] # 0
    /\ window \cap superseded = {} => \A b \in window : verdict[b] = row.settings

(* However saves overlap it, and however often cleanups rebuild the         *)
(* incidents, a VM shown as abusive under the policy in force has an open   *)
(* incident, and both began with the same push; once a cleanup has come when*)
(* the event abuse began with was more than seven days old, it may have     *)
(* none, or one that begins later, until abuse starts anew.  Only a cleanup *)
(* that overlaps a push can break this                                      *)
(* (refresh_fast_current_state, _v48126_apply_incident_event).              *)
AbuseRecorded ==
  WasActive(row, policy) /\ ~raced =>
    IF forgotten THEN incident.id = 0 \/ incident.since >= row.since
                 ELSE incident.id # 0 /\ incident.since = row.since

(* When abuse under the policy in force ends or the VM vanishes, the push   *)
(* that sees it leaves no open incident behind, unless it overlaps a cleanup*)
(* (_v48126_apply_incident_event).                                          *)
RecoveryCloses ==
  [][pushes' # pushes /\ WasActive(row, policy) /\ ~WasActive(row', policy) /\ ~raced'
     => incident' = NoIncident]_vars
=============================================================================
