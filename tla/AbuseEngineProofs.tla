------------------------- MODULE AbuseEngineProofs -------------------------
(***************************************************************************)
(* Theorems about AbuseEngine, for any number of administrators and of     *)
(* cycles, and for every bound on pushes and interventions.                *)
(***************************************************************************)
EXTENDS AbuseEngine, InductionLemmas

Row    == [flags : SUBSET Rules, since : Nat, cycles : Nat, bucket : Nat,
           revision : Nat, settings : Nat]
Policy == [revision : Nat, settings : Nat]
Steps  == {"idle", "settings", "policy", "before", "written", "found"}
Pushes == [pc : Steps, bucket : Nat, policy : Policy, before : Row, row : Row, seen : Nat]

Event  == [type : {"started", "updated", "recovered"}, bucket : Nat, time : Nat, since : Nat]
Act    == [pc : {"idle", "read", "chosen", "closed", "deleted", "replay"},
           policy : Policy, seen : Nat, events : Seq(Event)]

(* The types that hold step by step by themselves; how far the numbers go is *)
(* in Counts, RowsBounded, EventsBounded and IdsBounded below.               *)
Typed ==
  /\ bucket \in Nat /\ pushes \in Nat /\ acts \in Nat /\ lastId \in Nat
  /\ policy \in Policy /\ row \in Row /\ incident.id \in Nat
  /\ push \in Pushes /\ admin \in [Admins -> Act] /\ events \in Seq(Event)
  /\ raced \in BOOLEAN

(* What a push knows while the row shows abuse.  A save that commits in      *)
(* between clears the row, so the row a push has read is the row, the policy *)
(* it was evaluated under is the push's, and the incident it found is open.  *)
Abreast ==
  row.flags # {} =>
    /\ push.pc \in {"policy", "before", "written", "found"} /\ row.revision = policy.revision
         => push.policy.revision = policy.revision
    /\ push.pc \in {"before", "written", "found"} => push.before = row
    /\ push.pc = "found" /\ ~raced => push.seen = incident.id

(* The row a push writes is free of abuse, or evaluated under its policy. *)
Assessed ==
  push.pc \in {"written", "found"} =>
    push.row.flags = {} \/ push.row.revision = push.policy.revision

(* The values the variables start with. *)
LEMMA Fresh == /\ NoRow \in Row /\ NoRow.flags = {} /\ FirstPolicy \in Policy
               /\ NoIncident.id = 0
               /\ NoPush \in Pushes /\ NoPush.pc = "idle"
<1>1. NoRow \in Row /\ NoRow.flags = {} /\ FirstPolicy \in Policy
  BY DEF NoRow, Row, FirstPolicy, Policy
<1>2. NoPush \in Pushes
  BY <1>1 DEF NoPush, Pushes, Steps
<1>3. QED
  BY <1>1, <1>2 DEF NoPush, NoIncident

(* The evaluation of a push. *)
LEMMA EvaluatedRow ==
  ASSUME NEW old \in Row, NEW now \in Policy, NEW b \in Nat, NEW hits \in SUBSET Rules,
         NEW time \in Nat
  PROVE  /\ Evaluated(old, now, b, hits, time) \in Row
         /\ Evaluated(old, now, b, hits, time).revision = now.revision
<1> DEFINE cycles == NextStreak(old, now, b, "cpu" \in hits)
           flags  == (hits \cap {"pps"}) \cup (IF cycles >= Required THEN {"cpu"} ELSE {})
           since  == CASE flags = {} -> 0
                       [] flags # {} /\ WasActive(old, now) -> old.since
                       [] OTHER -> time
<1>1. cycles \in Nat
  BY DEF NextStreak, Row
<1>2. flags \in SUBSET Rules
  BY DEF Rules
<1>3. since \in Nat
  BY DEF Row
<1>4. Evaluated(old, now, b, hits, time)
        = [flags |-> flags, cycles |-> cycles, bucket |-> b, since |-> since,
           revision |-> now.revision, settings |-> now.settings]
  BY DEF Evaluated
<1> HIDE DEF cycles, flags, since
<1>5. QED
  BY <1>1, <1>2, <1>3, <1>4 DEF Row, Policy

-----------------------------------------------------------------------------
(* The steps of a push before its end: what becomes of its record. *)
LEMMA Reads ==
  ASSUME Typed
  PROVE  /\ ReadSettings => push' \in Pushes /\ push'.pc = "settings"
         /\ ReadRevision => /\ push' \in Pushes /\ push'.pc = "policy"
                            /\ push'.policy.revision = policy.revision
         /\ ReadState => /\ push' \in Pushes /\ push'.pc = "before"
                         /\ push'.before = row /\ push'.policy = push.policy
                         /\ push.pc = "policy"
<1>1. ASSUME ReadSettings
      PROVE  push' \in Pushes /\ push'.pc = "settings"
  <2>1. [NoPush.policy EXCEPT !.settings = policy.settings] \in Policy
    BY Fresh DEF Typed, Pushes, Policy
  <2>2. push' = [NoPush EXCEPT !.pc = "settings", !.bucket = bucket,
                   !.policy = [NoPush.policy EXCEPT !.settings = policy.settings]]
    BY <1>1 DEF ReadSettings
  <2>3. QED
    BY <2>1, <2>2, Fresh DEF Typed, Pushes, Steps
<1>2. ASSUME ReadRevision
      PROVE  /\ push' \in Pushes /\ push'.pc = "policy"
             /\ push'.policy.revision = policy.revision
  <2>1. /\ [push.policy EXCEPT !.revision = policy.revision] \in Policy
        /\ [push.policy EXCEPT !.revision = policy.revision].revision = policy.revision
    BY DEF Typed, Pushes, Policy
  <2>2. push' = [push EXCEPT !.pc = "policy",
                   !.policy = [push.policy EXCEPT !.revision = policy.revision]]
    BY <1>2 DEF ReadRevision
  <2>3. QED
    BY <2>1, <2>2 DEF Typed, Pushes, Steps
<1>3. ASSUME ReadState
      PROVE  /\ push' \in Pushes /\ push'.pc = "before"
             /\ push'.before = row /\ push'.policy = push.policy /\ push.pc = "policy"
  BY <1>3 DEF ReadState, Typed, Pushes, Steps
<1>4. QED
  BY <1>1, <1>2, <1>3

LEMMA Writes ==
  ASSUME Typed
  PROVE  /\ WriteState => /\ push' \in Pushes /\ push'.pc = "written" /\ push.pc = "before"
                          /\ push'.before = push.before /\ push'.policy = push.policy
                          /\ \/ push'.row.flags = {}
                             \/ push'.row.revision = push.policy.revision
         /\ FindIncident => /\ push' \in Pushes /\ push'.pc = "found" /\ push.pc = "written"
                            /\ push'.before = push.before /\ push'.policy = push.policy
                            /\ push'.row = push.row /\ push'.seen = incident.id
<1>1. ASSUME WriteState
      PROVE  /\ push' \in Pushes /\ push'.pc = "written" /\ push.pc = "before"
             /\ push'.before = push.before /\ push'.policy = push.policy
             /\ push'.row.flags = {} \/ push'.row.revision = push.policy.revision
  <2>1. PICK new \in {NoRow} \cup {Evaluated(push.before, push.policy, push.bucket, hits, pushes + 1) :
                                    hits \in SUBSET Rules} :
          push' = [push EXCEPT !.pc = "written", !.row = new] /\ push.pc = "before"
    BY <1>1 DEF WriteState
  <2>2. /\ push.before \in Row /\ push.policy \in Policy /\ push.bucket \in Nat
        /\ pushes + 1 \in Nat
    BY DEF Typed, Pushes
  <2>3. new \in Row /\ (new.flags = {} \/ new.revision = push.policy.revision)
    <3>1. CASE new = NoRow
      BY <3>1, Fresh
    <3>2. ASSUME NEW hits \in SUBSET Rules,
                 new = Evaluated(push.before, push.policy, push.bucket, hits, pushes + 1)
          PROVE  new \in Row /\ new.revision = push.policy.revision
      BY <2>2, <3>2, EvaluatedRow
    <3>3. QED
      BY <3>1, <3>2
  <2>4. QED
    BY <2>1, <2>3 DEF Typed, Pushes, Steps
<1>2. ASSUME FindIncident
      PROVE  /\ push' \in Pushes /\ push'.pc = "found" /\ push.pc = "written"
             /\ push'.before = push.before /\ push'.policy = push.policy
             /\ push'.row = push.row /\ push'.seen = incident.id
  BY <1>2 DEF FindIncident, Typed, Pushes, Steps
<1>3. QED
  BY <1>1, <1>2

(* The end of a push. *)
LEMMA NewEventsType ==
  ASSUME Typed
  PROVE  NewEvents \in Seq(Event)
<1>1. /\ push.before.since \in Nat /\ push.row.since \in Nat /\ pushes + 1 \in Nat
      /\ push.bucket \in Nat
  <2>1. push \in Pushes /\ pushes \in Nat
    BY DEF Typed
  <2>2. push.before \in Row /\ push.row \in Row /\ push.bucket \in Nat
    BY <2>1 DEF Pushes
  <2>3. QED
    BY <2>1, <2>2 DEF Row
<1>2. ASSUME NEW type \in {"started", "updated", "recovered"}, NEW since \in Nat
      PROVE  <<[type |-> type, bucket |-> push.bucket, time |-> pushes + 1,
               since |-> since]>> \in Seq(Event)
  <2>1. [type |-> type, bucket |-> push.bucket, time |-> pushes + 1, since |-> since] \in Event
    BY <1>1 DEF Event
  <2>2. QED
    BY <2>1
<1>3. <<>> \in Seq(Event)
  OBVIOUS
<1>4. \/ NewEvents = <<>>
      \/ \E type \in {"started", "updated", "recovered"},
            since \in {push.row.since, push.before.since} :
           NewEvents = <<[type |-> type, bucket |-> push.bucket, time |-> pushes + 1,
                          since |-> since]>>
  BY DEF NewEvents, EventsOf
<1>5. QED
  BY <1>1, <1>2, <1>3, <1>4

LEMMA Ends ==
  ASSUME Typed, EndQuietly \/ EndWithEvent
  PROVE  /\ Typed' /\ push' = NoPush /\ row' = push.row /\ UNCHANGED policy
<1>1. /\ row' = push.row /\ push' = NoPush /\ pushes' = pushes + 1
      /\ UNCHANGED <<bucket, acts, policy, admin>>
  BY DEF EndQuietly, EndWithEvent, CommitPush
<1>2. row' \in Row /\ push' \in Pushes /\ pushes' \in Nat
  BY <1>1, Fresh DEF Typed, Pushes
<1>3. raced' \in BOOLEAN
  BY DEF EndQuietly, EndWithEvent, Typed, CleaningUp
<1>4. incident'.id \in Nat /\ lastId' \in Nat
  <2>1. CASE UNCHANGED <<incident, lastId>>
    BY <2>1 DEF Typed
  <2>2. CASE EndWithEvent
    <3>1. \/ /\ \E s : incident' = [id |-> lastId + 1, since |-> s]
             /\ lastId' = lastId + 1
          \/ incident' \in {incident, NoIncident} /\ lastId' = lastId
      BY <2>2 DEF EndWithEvent
    <3>2. QED
      BY <3>1, Fresh DEF Typed
  <2>3. QED
    BY <2>1, <2>2 DEF EndQuietly
<1>5. events' \in Seq(Event)
  <2>1. events' = events \/ events' = events \o NewEvents
    BY DEF EndQuietly, EndWithEvent
  <2>2. events \in Seq(Event) /\ NewEvents \in Seq(Event)
    BY NewEventsType DEF Typed
  <2>3. events \o NewEvents \in Seq(Event)
    BY <2>2
  <2>4. QED
    BY <2>1, <2>2, <2>3
<1>6. QED
  BY <1>1, <1>2, <1>3, <1>4, <1>5 DEF Typed

-----------------------------------------------------------------------------
(* What a cleanup reads of the events.                                       *)
LEMMA RereadEvents ==
  ASSUME NEW e \in Seq(Event), NEW k \in 0 .. Len(e)
  PROVE  /\ Reread(e, k) \in Seq(Event) /\ Len(Reread(e, k)) = Len(e) - k
         /\ \A i \in 1 .. Len(e) - k :
              /\ Reread(e, k)[i] = [e[k + i] EXCEPT !.since = e[k + i].time]
              /\ Reread(e, k)[i].type = e[k + i].type /\ Reread(e, k)[i].time = e[k + i].time
              /\ Reread(e, k)[i].since = e[k + i].time
<1>1. Len(e) - k \in Nat
  OBVIOUS
<1>2. ASSUME NEW i \in 1 .. Len(e) - k
      PROVE  /\ [e[k + i] EXCEPT !.since = e[k + i].time] \in Event
             /\ [e[k + i] EXCEPT !.since = e[k + i].time].since = e[k + i].time
             /\ [e[k + i] EXCEPT !.since = e[k + i].time].time = e[k + i].time
             /\ [e[k + i] EXCEPT !.since = e[k + i].time].type = e[k + i].type
  <2>1. e[k + i] \in Event
    OBVIOUS
  <2>2. QED
    BY <2>1 DEF Event
<1>3. Reread(e, k) = [i \in 1 .. Len(e) - k |-> [e[k + i] EXCEPT !.since = e[k + i].time]]
  BY DEF Reread
<1>4. Reread(e, k) \in [1 .. Len(e) - k -> Event]
  BY <1>2, <1>3
<1>5. Reread(e, k) \in Seq(Event) /\ Len(Reread(e, k)) = Len(e) - k
  BY <1>1, <1>4
<1>6. ASSUME NEW i \in 1 .. Len(e) - k
      PROVE  /\ Reread(e, k)[i] = [e[k + i] EXCEPT !.since = e[k + i].time]
             /\ Reread(e, k)[i].type = e[k + i].type /\ Reread(e, k)[i].time = e[k + i].time
             /\ Reread(e, k)[i].since = e[k + i].time
  BY <1>2, <1>3
<1>7. QED
  BY <1>5, <1>6

(* The administrators: the record of one, and what a save or a rebuild does. *)
LEMMA ActsKept ==
  ASSUME Typed, NEW a \in Admins, Administer(a)
  PROVE  admin' \in [Admins -> Act]
<1>1. admin[a] \in Act
  BY DEF Typed
<1>2. NoAct \in Act
  BY Fresh DEF NoAct, Act
<1>3. ASSUME SaveBegins(a)
      PROVE  admin' \in [Admins -> Act]
  <2> DEFINE now == [revision |-> policy.revision + 1, settings |-> acts + 2]
  <2>1. now \in Policy
    BY DEF Typed, Policy
  <2> HIDE DEF now
  <2>2. [NoAct EXCEPT !.pc = "read", !.policy = now] \in Act
    BY <1>2, <2>1 DEF Act
  <2>3. admin' = [admin EXCEPT ![a] = [NoAct EXCEPT !.pc = "read", !.policy = now]]
    BY <1>3 DEF SaveBegins, now
  <2>4. QED
    BY <2>2, <2>3 DEF Typed
<1>4. ASSUME SaveChooses(a)
      PROVE  admin' \in [Admins -> Act]
  <2>1. [admin[a] EXCEPT !.pc = "chosen", !.seen = incident.id] \in Act
    BY <1>1 DEF Act, Typed
  <2>2. admin' = [admin EXCEPT ![a] = [admin[a] EXCEPT !.pc = "chosen", !.seen = incident.id]]
    BY <1>4 DEF SaveChooses, Typed
  <2>3. QED
    BY <2>1, <2>2 DEF Typed
<1>5. ASSUME SaveCloses(a)
      PROVE  admin' \in [Admins -> Act]
  <2>1. [admin[a] EXCEPT !.pc = "closed"] \in Act
    BY <1>1 DEF Act
  <2>2. QED
    BY <1>5, <2>1 DEF SaveCloses, Typed
<1>6. ASSUME RebuildDeletes(a)
      PROVE  admin' \in [Admins -> Act]
  <2>1. [NoAct EXCEPT !.pc = "deleted", !.seen = incident.id] \in Act
    BY <1>2 DEF Act, Typed
  <2>2. QED
    BY <1>6, <2>1 DEF RebuildDeletes, Typed
<1>7. ASSUME RebuildReads(a)
      PROVE  admin' \in [Admins -> Act]
  <2>1. PICK k \in 0 .. Len(events) :
          admin' = [admin EXCEPT ![a].pc = "replay", ![a].events = Reread(events, k)]
    BY <1>7 DEF RebuildReads
  <2>2. PICK e : e = Reread(events, k)
    OBVIOUS
  <2>3. e \in Seq(Event)
    BY <2>2, RereadEvents DEF Typed
  <2>4. admin' = [admin EXCEPT ![a] = [admin[a] EXCEPT !.pc = "replay", !.events = e]]
    BY <2>1, <2>2 DEF Typed
  <2>5. [admin[a] EXCEPT !.pc = "replay", !.events = e] \in Act
    BY <1>1, <2>3 DEF Act
  <2>6. QED
    BY <2>4, <2>5 DEF Typed
<1>8. ASSUME SaveEnds(a) \/ RebuildEnds(a) \/ AdminAborts(a)
      PROVE  admin' \in [Admins -> Act]
  <2>1. admin' = [admin EXCEPT ![a] = NoAct]
    BY <1>8 DEF SaveEnds, RebuildEnds, AdminAborts
  <2>2. QED
    BY <1>2, <2>1 DEF Typed
<1>9. QED
  BY <1>3, <1>4, <1>5, <1>6, <1>7, <1>8 DEF Administer

LEMMA SaveClears ==
  ASSUME Typed, NEW a \in Admins, SaveEnds(a)
  PROVE  /\ policy' \in Policy /\ row' \in Row /\ row'.flags = {}
         /\ incident' \in {incident, NoIncident}
<1>1. admin[a].policy \in Policy
  BY DEF Typed, Act
<1>2. /\ Reset(row, admin[a].policy) \in Row
      /\ Reset(row, admin[a].policy).flags = {}
  <2>1. admin[a].policy.revision \in Nat /\ admin[a].policy.settings \in Nat
    BY <1>1 DEF Policy
  <2>2. QED
    BY <2>1, Fresh DEF Reset, Row
<1>3. QED
  BY <1>1, <1>2, Fresh DEF SaveEnds

LEMMA RebuildOverlaps ==
  ASSUME Typed, NEW a \in Admins, RebuildEnds(a)
  PROVE  /\ UNCHANGED <<policy, row, push, events, worldVars>>
         /\ raced' \in BOOLEAN /\ (push.pc = "found" => raced') /\ (raced => raced')
         /\ incident'.id \in Nat /\ lastId' \in Nat
<1>1. /\ UNCHANGED <<policy, row, push, events, worldVars>>
      /\ raced' = (raced \/ push.pc = "found")
  BY DEF RebuildEnds
<1>2. \/ (\E s : incident' = [id |-> lastId + 1, since |-> s]) /\ lastId' = lastId + 1
      \/ incident' \in {incident, NoIncident} /\ lastId' = lastId
  BY DEF RebuildEnds
<1>3. incident'.id \in Nat /\ lastId' \in Nat
  BY <1>2, Fresh DEF Typed
<1>4. QED
  BY <1>1, <1>3 DEF Typed

-----------------------------------------------------------------------------
LEMMA InitHolds == Init => Typed /\ Abreast /\ Assessed
<1> SUFFICES ASSUME Init PROVE Typed /\ Abreast /\ Assessed
  OBVIOUS
<1>1. NoAct \in Act
  BY Fresh DEF NoAct, Act
<1>2. <<>> \in Seq(Event)
  OBVIOUS
<1>3. admin \in [Admins -> Act] /\ events \in Seq(Event)
  BY <1>1, <1>2, Zenon DEF Init
<1>4. /\ bucket \in Nat /\ pushes \in Nat /\ acts \in Nat /\ lastId \in Nat
      /\ policy \in Policy /\ row \in Row /\ incident.id \in Nat /\ push \in Pushes
      /\ raced \in BOOLEAN
  <2>1. bucket \in Nat /\ pushes \in Nat /\ acts \in Nat /\ lastId \in Nat
    BY DEF Init
  <2>2. policy \in Policy /\ row \in Row /\ push \in Pushes
    BY Fresh, Zenon DEF Init
  <2>3. incident.id \in Nat
    BY Fresh DEF Init
  <2>4. raced \in BOOLEAN
    BY DEF Init
  <2>5. QED
    BY <2>1, <2>2, <2>3, <2>4
<1>5. Typed
  BY <1>3, <1>4 DEF Typed
<1>6. QED
  BY <1>5, Fresh DEF Init, Abreast, Assessed

LEMMA PushKeeps ==
  ASSUME Typed, Abreast, Assessed, Push \/ PushAborts
  PROVE  Typed' /\ Abreast' /\ Assessed'
<1>1. CASE ReadSettings \/ ReadRevision \/ ReadState \/ WriteState \/ FindIncident \/ PushAborts
  <2>1. UNCHANGED <<worldVars, tables, admin, historyVars>>
    BY <1>1 DEF ReadSettings, ReadRevision, ReadState, WriteState, FindIncident, PushAborts
  <2>2. push' \in Pushes
    BY <1>1, Reads, Writes, Fresh DEF PushAborts
  <2>3. Typed'
    BY <2>1, <2>2 DEF Typed, worldVars, tables, historyVars
  <2>4. UNCHANGED <<policy, row, incident, raced>>
    BY <2>1 DEF tables, historyVars
  <2>5. CASE ReadSettings \/ PushAborts
    <3>1. push'.pc \in {"idle", "settings"}
      BY <2>5, Reads, Fresh DEF PushAborts
    <3>2. QED
      BY <2>3, <3>1 DEF Abreast, Assessed
  <2>6. CASE ReadRevision
    <3>1. push'.pc = "policy" /\ push'.policy.revision = policy.revision
      BY <2>6, Reads
    <3>2. QED
      BY <2>3, <2>4, <3>1 DEF Abreast, Assessed
  <2>7. CASE ReadState
    <3>1. /\ push'.pc = "before" /\ push'.before = row /\ push'.policy = push.policy
          /\ push.pc = "policy"
      BY <2>7, Reads
    <3>2. QED
      BY <2>3, <2>4, <3>1 DEF Abreast, Assessed
  <2>8. CASE WriteState
    <3>1. /\ push'.pc = "written" /\ push.pc = "before"
          /\ push'.before = push.before /\ push'.policy = push.policy
          /\ push'.row.flags = {} \/ push'.row.revision = push.policy.revision
      BY <2>8, Writes
    <3>2. QED
      BY <2>3, <2>4, <3>1 DEF Abreast, Assessed
  <2>9. CASE FindIncident
    <3>1. /\ push'.pc = "found" /\ push.pc = "written"
          /\ push'.before = push.before /\ push'.policy = push.policy
          /\ push'.row = push.row /\ push'.seen = incident.id
      BY <2>9, Writes
    <3>2. QED
      BY <2>3, <2>4, <3>1 DEF Abreast, Assessed
  <2>10. QED
    BY <1>1, <2>5, <2>6, <2>7, <2>8, <2>9
<1>2. CASE EndQuietly \/ EndWithEvent
  <2>1. Typed' /\ push'.pc = "idle"
    BY <1>2, Ends, Fresh
  <2>2. QED
    BY <2>1 DEF Abreast, Assessed
<1>3. QED
  BY <1>1, <1>2 DEF Push

LEMMA AdministerKeeps ==
  ASSUME Typed, Abreast, Assessed, NEW a \in Admins, Administer(a)
  PROVE  Typed' /\ Abreast' /\ Assessed'
<1>1. admin' \in [Admins -> Act] /\ push' = push /\ UNCHANGED <<bucket, pushes, events>>
  <2>1. push' = push /\ UNCHANGED <<bucket, pushes, events>>
    BY DEF Administer, SaveBegins, SaveChooses, SaveCloses, SaveEnds, RebuildDeletes,
           RebuildReads, RebuildEnds, AdminAborts, tables, worldVars
  <2>2. QED
    BY <2>1, ActsKept
<1>2. acts' \in Nat
  BY DEF Administer, SaveBegins, SaveChooses, SaveCloses, SaveEnds, RebuildDeletes,
         RebuildReads, RebuildEnds, AdminAborts, worldVars, Typed
<1>3. Assessed'
  BY <1>1 DEF Assessed
<1>4. CASE SaveEnds(a)
  <2>1. /\ policy' \in Policy /\ row' \in Row /\ row'.flags = {} /\ incident'.id \in Nat
    BY <1>4, SaveClears, Fresh DEF Typed
  <2>2. UNCHANGED <<lastId, raced>>
    BY <1>4 DEF SaveEnds, historyVars
  <2>3. Typed'
    BY <1>1, <1>2, <2>1, <2>2 DEF Typed
  <2>4. QED
    BY <1>3, <2>1, <2>3 DEF Abreast
<1>5. CASE RebuildEnds(a)
  <2>1. /\ UNCHANGED <<policy, row>> /\ raced' \in BOOLEAN
        /\ (push.pc = "found" => raced') /\ incident'.id \in Nat /\ lastId' \in Nat
    BY <1>5, RebuildOverlaps
  <2>2. Typed'
    BY <1>1, <1>2, <2>1 DEF Typed
  <2>3. QED
    BY <1>1, <1>3, <2>1, <2>2 DEF Abreast
<1>6. CASE ~SaveEnds(a) /\ ~RebuildEnds(a)
  <2>1. UNCHANGED <<tables, historyVars>>
    BY <1>6 DEF Administer, SaveBegins, SaveChooses, SaveCloses, RebuildDeletes,
                RebuildReads, AdminAborts
  <2>2. UNCHANGED <<policy, row, incident, lastId, raced>>
    BY <2>1 DEF tables, historyVars
  <2>3. Typed'
    BY <1>1, <1>2, <2>2 DEF Typed
  <2>4. QED
    BY <1>1, <1>3, <2>2, <2>3 DEF Abreast
<1>7. QED
  BY <1>4, <1>5, <1>6

LEMMA NextKeeps == Typed /\ Abreast /\ Assessed /\ [Next]_vars
                     => (Typed /\ Abreast /\ Assessed)'
<1> SUFFICES ASSUME Typed, Abreast, Assessed, [Next]_vars
             PROVE  Typed' /\ Abreast' /\ Assessed'
  OBVIOUS
<1>1. CASE UNCHANGED vars
  BY <1>1 DEF Typed, Abreast, Assessed, vars, worldVars, tables, historyVars
<1>2. CASE Tick
  <2>1. /\ bucket' = bucket + 1
        /\ UNCHANGED <<pushes, acts, policy, row, events, incident, lastId, push, admin, raced>>
    BY <1>2 DEF Tick, tables, historyVars
  <2>2. bucket' \in Nat
    BY <2>1 DEF Typed
  <2>3. QED
    BY <2>1, <2>2 DEF Typed, Abreast, Assessed
<1>3. QED
  BY <1>1, <1>2, PushKeeps, AdministerKeeps DEF Next

-----------------------------------------------------------------------------
(* The push that sees the end of abuse. *)
LEMMA RecoveryStep ==
  ASSUME Typed, Abreast, Assessed, [Next]_vars, pushes' # pushes,
         WasActive(row, policy), ~WasActive(row', policy), ~raced'
  PROVE  incident' = NoIncident
<1>1. EndQuietly \/ EndWithEvent
  BY DEF Next, vars, worldVars, Tick, Push, PushAborts, ReadSettings, ReadRevision, ReadState,
         WriteState, FindIncident, Administer, SaveBegins, SaveChooses, SaveCloses, SaveEnds,
         RebuildDeletes, RebuildReads, RebuildEnds, AdminAborts
<1>2. push.pc \in {"written", "found"} /\ row' = push.row
  BY <1>1, Ends DEF EndQuietly, EndWithEvent
<1>3. row.flags # {} /\ row.revision = policy.revision
  BY DEF WasActive
<1>4. push.before = row /\ push.policy.revision = policy.revision
  BY <1>2, <1>3 DEF Abreast
<1>5. WasActive(push.before, push.policy)
  BY <1>3, <1>4 DEF WasActive
<1>6. push.row.flags = {}
  BY <1>2, <1>4 DEF Assessed, WasActive
<1>7. NewEvents = <<[type |-> "recovered", bucket |-> push.bucket, time |-> pushes + 1,
                     since |-> push.before.since]>>
  BY <1>5, <1>6 DEF NewEvents, EventsOf
<1>8. EndWithEvent /\ push.pc = "found" /\ Head(NewEvents).type = "recovered"
  BY <1>1, <1>7 DEF EndQuietly, EndWithEvent
<1>9. ~raced
  BY <1>8 DEF EndWithEvent
<1>10. push.seen = incident.id
  BY <1>3, <1>8, <1>9 DEF Abreast
<1>11. QED
  BY <1>8, <1>10 DEF EndWithEvent

(* When abuse under the policy in force ends or the VM vanishes, the push    *)
(* that sees it closes the open incident, however saves interleave with it,  *)
(* unless it overlaps a cleanup of the history.                              *)
THEOREM RecoveryClosesIncident == Spec => RecoveryCloses
<1>1. Typed /\ Abreast /\ Assessed /\ [Next]_vars
        => (pushes' # pushes /\ WasActive(row, policy) /\ ~WasActive(row', policy) /\ ~raced'
              => incident' = NoIncident)
  BY RecoveryStep
<1>2. QED
  BY <1>1, InitHolds, NextKeeps, PTL DEF Spec, RecoveryCloses
-----------------------------------------------------------------------------
(* What a push keeps of its record from step to step.                        *)
LEMMA PushSteps ==
  ASSUME Typed
  PROVE  /\ ReadSettings => /\ push.pc = "idle" /\ pushes < MaxPushes
                            /\ push'.before = NoRow /\ push'.row = NoRow
                            /\ push'.bucket = bucket /\ push'.seen = 0
                            /\ push'.policy.settings = policy.settings
                            /\ push'.policy.revision = 1
         /\ ReadRevision => /\ push.pc = "settings"
                            /\ push'.before = push.before /\ push'.row = push.row
                            /\ push'.bucket = push.bucket /\ push'.seen = push.seen
                            /\ push'.policy.settings = push.policy.settings
         /\ ReadState => /\ push'.row = push.row /\ push'.seen = push.seen
                         /\ push'.bucket = push.bucket
         /\ FindIncident => push'.bucket = push.bucket
<1>1. /\ NoPush.before = NoRow /\ NoPush.row = NoRow /\ NoPush.seen = 0
      /\ NoPush.policy.revision = 1
  BY DEF NoPush, FirstPolicy
<1>2. ASSUME ReadSettings
      PROVE  /\ push.pc = "idle" /\ pushes < MaxPushes
             /\ push'.before = NoRow /\ push'.row = NoRow
             /\ push'.bucket = bucket /\ push'.seen = 0
             /\ push'.policy.settings = policy.settings
             /\ push'.policy.revision = 1
  <2> DEFINE now == [NoPush.policy EXCEPT !.settings = policy.settings]
  <2>1. now.settings = policy.settings /\ now.revision = 1
    BY <1>1, Fresh DEF Pushes, Policy
  <2>2. push' = [NoPush EXCEPT !.pc = "settings", !.bucket = bucket, !.policy = now]
    BY <1>2 DEF ReadSettings
  <2>3. push.pc = "idle" /\ pushes < MaxPushes
    BY <1>2 DEF ReadSettings
  <2> HIDE DEF now
  <2>4. QED
    BY <1>1, <2>1, <2>2, <2>3, Fresh DEF Pushes
<1>3. ASSUME ReadRevision
      PROVE  /\ push.pc = "settings"
             /\ push'.before = push.before /\ push'.row = push.row
             /\ push'.bucket = push.bucket /\ push'.seen = push.seen
             /\ push'.policy.settings = push.policy.settings
  <2> DEFINE now == [push.policy EXCEPT !.revision = policy.revision]
  <2>1. now.settings = push.policy.settings
    BY DEF Typed, Pushes, Policy
  <2>2. push' = [push EXCEPT !.pc = "policy", !.policy = now] /\ push.pc = "settings"
    BY <1>3 DEF ReadRevision
  <2> HIDE DEF now
  <2>3. QED
    BY <2>1, <2>2 DEF Typed, Pushes
<1>4. ASSUME ReadState
      PROVE  push'.row = push.row /\ push'.seen = push.seen /\ push'.bucket = push.bucket
  BY <1>4 DEF ReadState, Typed, Pushes
<1>5. ASSUME FindIncident
      PROVE  push'.bucket = push.bucket
  BY <1>5 DEF FindIncident, Typed, Pushes
<1>6. QED
  BY <1>2, <1>3, <1>4, <1>5

(* How an evaluation counts, and since when abuse lasts.                     *)
Evaluates(new, old, now, b, time) ==
  /\ new.bucket = b /\ new.revision = now.revision /\ new.settings = now.settings
  /\ "cpu" \in new.flags => new.cycles >= Required
  /\ new.flags # {} /\ WasActive(old, now) => new.since = old.since
  /\ new.flags # {} /\ ~WasActive(old, now) => new.since = time
  /\ new.flags = {} => new.since = 0
  /\ \/ new.cycles \in {0, 1}
     \/ new.cycles = old.cycles /\ b = old.bucket
     \/ new.cycles = old.cycles + 1 /\ b = old.bucket + 1

LEMMA Evaluation ==
  ASSUME NEW old \in Row, NEW now \in Policy, NEW b \in Nat, NEW hits \in SUBSET Rules,
         NEW time \in Nat
  PROVE  Evaluates(Evaluated(old, now, b, hits, time), old, now, b, time)
<1> DEFINE new == Evaluated(old, now, b, hits, time)
<1> DEFINE cycles == NextStreak(old, now, b, "cpu" \in hits)
           flags  == (hits \cap {"pps"}) \cup (IF cycles >= Required THEN {"cpu"} ELSE {})
           since  == CASE flags = {} -> 0
                       [] flags # {} /\ WasActive(old, now) -> old.since
                       [] OTHER -> time
<1>1. \/ cycles \in {0, 1}
      \/ cycles = old.cycles /\ b = old.bucket
      \/ cycles = old.cycles + 1 /\ b = old.bucket + 1
  BY DEF NextStreak
<1>2. "cpu" \in flags => cycles >= Required
  OBVIOUS
<1>3. /\ flags # {} /\ WasActive(old, now) => since = old.since
      /\ flags # {} /\ ~WasActive(old, now) => since = time
      /\ flags = {} => since = 0
  <2> HIDE DEF flags
  <2>1. QED OBVIOUS
<1>4. new = [flags |-> flags, cycles |-> cycles, bucket |-> b, since |-> since,
             revision |-> now.revision, settings |-> now.settings]
  BY DEF Evaluated
<1> HIDE DEF new, cycles, flags, since
<1>5. /\ new.flags = flags /\ new.cycles = cycles /\ new.bucket = b /\ new.since = since
      /\ new.revision = now.revision /\ new.settings = now.settings
  BY <1>4
<1>6. Evaluates(new, old, now, b, time)
  BY <1>1, <1>2, <1>3, <1>5 DEF Evaluates
<1>7. QED
  BY <1>6 DEF new

(* The row a push writes: nothing of the VM, or its evaluation.              *)
LEMMA Writing ==
  ASSUME Typed, WriteState
  PROVE  /\ push'.bucket = push.bucket /\ push'.seen = push.seen
         /\ \/ push'.row = NoRow
            \/ \A new : new = push'.row
                 => Evaluates(new, push.before, push.policy, push.bucket, pushes + 1)
<1>1. PICK new \in {NoRow} \cup {Evaluated(push.before, push.policy, push.bucket, hits, pushes + 1) :
                                hits \in SUBSET Rules} :
        push' = [push EXCEPT !.pc = "written", !.row = new]
  BY DEF WriteState
<1>2. push'.bucket = push.bucket /\ push'.seen = push.seen /\ push'.row = new
  BY <1>1 DEF Typed, Pushes
<1>3. new = NoRow \/ Evaluates(new, push.before, push.policy, push.bucket, pushes + 1)
  <2>1. /\ push.before \in Row /\ push.policy \in Policy /\ push.bucket \in Nat
        /\ pushes + 1 \in Nat
    BY DEF Typed, Pushes
  <2>2. ASSUME NEW hits \in SUBSET Rules,
               new = Evaluated(push.before, push.policy, push.bucket, hits, pushes + 1)
        PROVE  Evaluates(new, push.before, push.policy, push.bucket, pushes + 1)
    <3>1. Evaluates(Evaluated(push.before, push.policy, push.bucket, hits, pushes + 1),
                    push.before, push.policy, push.bucket, pushes + 1)
      BY <2>1, Evaluation
    <3>2. QED
      BY <2>2, <3>1
  <2>3. QED
    BY <2>2
<1>4. QED
  BY <1>2, <1>3

-----------------------------------------------------------------------------
(* What every step leaves alone. *)
LEMMA PushFrame ==
  ASSUME ReadSettings \/ ReadRevision \/ ReadState \/ WriteState \/ FindIncident \/ PushAborts
  PROVE  UNCHANGED <<bucket, pushes, acts, policy, row, events, incident, lastId, admin,
                     verdict, superseded, raced>>
BY DEF ReadSettings, ReadRevision, ReadState, WriteState, FindIncident, PushAborts,
       worldVars, tables, historyVars

LEMMA EndFrame ==
  ASSUME EndQuietly \/ EndWithEvent
  PROVE  /\ push.pc \in {"written", "found"}
         /\ row' = push.row /\ push' = NoPush /\ pushes' = pushes + 1
         /\ UNCHANGED <<bucket, acts, policy, admin>>
         /\ verdict' = [verdict EXCEPT ![push.bucket] =
                          IF push.row.cycles > 0 THEN push.policy.settings ELSE 0]
         /\ superseded' = superseded \cup (IF push.policy = policy THEN {} ELSE {push.bucket})
BY DEF EndQuietly, EndWithEvent, CommitPush

LEMMA AdministerFrame ==
  ASSUME NEW a \in Admins, Administer(a)
  PROVE  /\ UNCHANGED <<bucket, pushes, events, push, verdict, superseded>>
         /\ SaveBegins(a) \/ RebuildDeletes(a) \/ acts' = acts
         /\ SaveEnds(a) \/ UNCHANGED <<policy, row>>
         /\ SaveEnds(a) \/ RebuildEnds(a) \/ incident' = incident
         /\ RebuildEnds(a) \/ UNCHANGED <<lastId, raced>>
<1>1. CASE SaveBegins(a)
  BY <1>1 DEF SaveBegins, tables, historyVars
<1>2. CASE SaveChooses(a) \/ SaveCloses(a) \/ RebuildReads(a) \/ AdminAborts(a)
  BY <1>2 DEF SaveChooses, SaveCloses, RebuildReads, AdminAborts, worldVars, tables, historyVars
<1>3. CASE SaveEnds(a)
  BY <1>3 DEF SaveEnds, worldVars, historyVars
<1>4. CASE RebuildDeletes(a)
  BY <1>4 DEF RebuildDeletes, tables, historyVars
<1>5. CASE RebuildEnds(a)
  BY <1>5 DEF RebuildEnds, worldVars
<1>6. QED
  BY <1>1, <1>2, <1>3, <1>4, <1>5 DEF Administer

(* A save that commits brings a policy of a later revision and clears the    *)
(* row.                                                                      *)
LEMMA SaveFrame ==
  ASSUME Typed, NEW a \in Admins, SaveEnds(a)
  PROVE  /\ policy' = admin[a].policy /\ policy'.revision > policy.revision
         /\ row'.flags = {} /\ row'.cycles = 0 /\ row'.since = 0 /\ row'.bucket = 0
         /\ row' = NoRow \/ (/\ row'.revision = admin[a].policy.revision
                             /\ row'.settings = admin[a].policy.settings)
<1>1. /\ NoRow.flags = {} /\ NoRow.cycles = 0 /\ NoRow.since = 0 /\ NoRow.bucket = 0
  BY DEF NoRow
<1>2. /\ Reset(row, admin[a].policy).flags = {} /\ Reset(row, admin[a].policy).cycles = 0
      /\ Reset(row, admin[a].policy).since = 0 /\ Reset(row, admin[a].policy).bucket = 0
      /\ Reset(row, admin[a].policy).revision = admin[a].policy.revision
      /\ Reset(row, admin[a].policy).settings = admin[a].policy.settings
  BY <1>1, Fresh DEF Reset, Row
<1>3. QED
  BY <1>1, <1>2 DEF SaveEnds

-----------------------------------------------------------------------------
(* A push that has read the policy holds one that was in force, and as long  *)
(* as that revision is, the row it has read is the row.                      *)
InStep ==
  /\ push.pc \in {"policy", "before", "written", "found"}
       => push.policy.revision <= policy.revision
  /\ push.pc \in {"before", "written", "found"} /\ push.policy.revision = policy.revision
       => push.before = row
  /\ push.pc \in {"idle", "settings", "policy"} => push.before = NoRow
  /\ push.pc \in {"idle", "settings", "policy", "before"} => push.row = NoRow

LEMMA InitInStep == Init => InStep
BY DEF Init, InStep, NoPush

LEMMA StepInStep == Typed /\ InStep /\ [Next]_vars => InStep'
<1> SUFFICES ASSUME Typed, InStep, [Next]_vars PROVE InStep'
  OBVIOUS
<1>1. NoPush.pc = "idle" /\ NoPush.before = NoRow /\ NoPush.row = NoRow
  BY DEF NoPush
<1>2. CASE UNCHANGED <<policy, row, push>>
  BY <1>2 DEF InStep
<1>3. CASE Tick \/ UNCHANGED vars
  BY <1>2, <1>3 DEF Tick, vars, tables
<1>4. CASE PushAborts \/ EndQuietly \/ EndWithEvent
  <2>1. push' = NoPush
    BY <1>4, EndFrame DEF PushAborts
  <2>2. QED
    BY <1>1, <2>1 DEF InStep
<1>5. CASE ReadSettings \/ ReadRevision \/ ReadState \/ WriteState \/ FindIncident
  <2>1. UNCHANGED <<policy, row>> /\ policy.revision \in Nat
    BY <1>5, PushFrame DEF Typed, Policy
  <2>2. CASE ReadSettings
    BY <2>1, <2>2, Reads, PushSteps DEF InStep
  <2>3. CASE ReadRevision
    BY <2>1, <2>3, Reads, PushSteps DEF InStep
  <2>4. CASE ReadState
    BY <2>1, <2>4, Reads, PushSteps DEF InStep
  <2>5. CASE WriteState
    BY <2>1, <2>5, Writes DEF InStep
  <2>6. CASE FindIncident
    BY <2>1, <2>6, Writes DEF InStep
  <2>7. QED
    BY <1>5, <2>2, <2>3, <2>4, <2>5, <2>6
<1>6. ASSUME NEW a \in Admins, Administer(a)
      PROVE  InStep'
  <2>1. push' = push
    BY <1>6, AdministerFrame
  <2>2. CASE UNCHANGED <<policy, row>>
    BY <1>2, <2>1, <2>2
  <2>3. CASE SaveEnds(a)
    <3>1. /\ policy'.revision > policy.revision /\ policy'.revision \in Nat
          /\ policy.revision \in Nat /\ push.policy.revision \in Nat
      BY <2>3, SaveFrame, SaveClears DEF Typed, Policy, Pushes
    <3>2. QED
      BY <2>1, <3>1 DEF InStep
  <2>4. QED
    BY <1>6, <2>2, <2>3, AdministerFrame
<1>7. QED
  BY <1>3, <1>4, <1>5, <1>6 DEF Next, Push

-----------------------------------------------------------------------------
(* How far the counters go, and with them what the policies and rows hold.   *)
Counts ==
  /\ bucket \in Buckets /\ pushes <= MaxPushes /\ acts <= MaxActs
  /\ push.bucket <= bucket
  /\ push.pc # "idle" => pushes < MaxPushes /\ push.bucket > 0
  /\ policy.revision \in 1 .. acts + 1 /\ policy.settings \in 1 .. acts + 1
  /\ push.policy.revision \in 1 .. acts + 1 /\ push.policy.settings \in 1 .. acts + 1
  /\ \A a \in Admins : /\ admin[a].policy.revision \in 1 .. acts + 1
                       /\ admin[a].policy.settings \in 1 .. acts + 1

Bounded(r) ==
  /\ r.cycles <= r.bucket /\ r.bucket <= bucket
  /\ r.revision <= acts + 1 /\ r.settings <= acts + 1
  /\ "cpu" \in r.flags => r.cycles >= Required
  /\ r.flags # {} => r.since > 0

RowsBounded ==
  /\ \A r \in {row, push.before, push.row} : Bounded(r)
  /\ row.since <= pushes /\ push.before.since <= pushes /\ push.row.since <= pushes + 1

LEMMA InitLimits == Init => Counts /\ RowsBounded
<1> SUFFICES ASSUME Init PROVE Counts /\ RowsBounded
  OBVIOUS
<1>1. /\ NoPush.pc = "idle" /\ NoPush.bucket = 0 /\ NoPush.policy = FirstPolicy
      /\ NoPush.before = NoRow /\ NoPush.row = NoRow
      /\ NoAct.policy = FirstPolicy /\ FirstPolicy.revision = 1 /\ FirstPolicy.settings = 1
  BY DEF NoPush, NoAct, FirstPolicy
<1>2. /\ NoRow.cycles = 0 /\ NoRow.bucket = 0 /\ NoRow.revision = 0 /\ NoRow.settings = 0
      /\ NoRow.flags = {} /\ NoRow.since = 0
  BY DEF NoRow
<1>3. /\ bucket = 1 /\ pushes = 0 /\ acts = 0 /\ policy = FirstPolicy /\ row = NoRow
      /\ push = NoPush /\ \A a \in Admins : admin[a] = NoAct
  BY DEF Init
<1>4. 1 \in Buckets
  BY BoundsAssumption DEF Buckets
<1>5. Counts
  BY <1>1, <1>3, <1>4, BoundsAssumption DEF Counts
<1>6. \A r \in {row, push.before, push.row} : r = NoRow
  BY <1>1, <1>3
<1>7. QED
  BY <1>2, <1>3, <1>5, <1>6 DEF RowsBounded, Bounded

LEMMA PushCounts ==
  ASSUME Typed, Counts, Push \/ PushAborts
  PROVE  Counts'
<1>1. /\ NoPush.pc = "idle" /\ NoPush.bucket = 0 /\ NoPush.policy = FirstPolicy
      /\ FirstPolicy.revision = 1 /\ FirstPolicy.settings = 1
  BY DEF NoPush, FirstPolicy
<1>2. bucket \in Nat /\ pushes \in Nat /\ acts \in Nat /\ bucket > 0
  BY DEF Typed, Counts, Buckets
<1>3. CASE PushAborts \/ EndQuietly \/ EndWithEvent
  <2>1. /\ push' = NoPush /\ UNCHANGED <<bucket, acts, policy, admin>>
        /\ pushes' = pushes \/ (pushes' = pushes + 1 /\ push.pc # "idle")
    BY <1>3, PushFrame, EndFrame DEF PushAborts
  <2>2. pushes' <= MaxPushes
    BY <1>2, <2>1, BoundsAssumption DEF Counts
  <2>3. QED
    BY <1>1, <1>2, <2>1, <2>2 DEF Counts
<1>4. CASE ReadSettings
  <2>1. UNCHANGED <<bucket, pushes, acts, policy, admin>>
    BY <1>4, PushFrame
  <2>2. /\ pushes < MaxPushes /\ push'.bucket = bucket /\ push'.policy.revision = 1
        /\ push'.policy.settings = policy.settings
    BY <1>4, PushSteps
  <2>3. QED
    BY <1>2, <2>1, <2>2 DEF Counts
<1>5. CASE ReadRevision \/ ReadState \/ WriteState \/ FindIncident
  <2>1. UNCHANGED <<bucket, pushes, acts, policy, admin>>
    BY <1>5, PushFrame
  <2>2. push.pc # "idle" /\ push'.bucket = push.bucket
    BY <1>5, PushSteps, Writing DEF ReadRevision, ReadState, WriteState, FindIncident
  <2>3. /\ push'.policy.revision \in {policy.revision, push.policy.revision}
        /\ push'.policy.settings = push.policy.settings
    BY <1>5, PushSteps, Reads, Writes
  <2>4. QED
    BY <1>2, <2>1, <2>2, <2>3 DEF Counts
<1>6. QED
  BY <1>3, <1>4, <1>5 DEF Push

LEMMA AdministerCounts ==
  ASSUME Typed, Counts, NEW a \in Admins, Administer(a)
  PROVE  Counts' /\ acts' \in Nat /\ acts <= acts'
<1>1. UNCHANGED <<bucket, pushes, push>>
  BY AdministerFrame
<1>2. acts \in Nat /\ DOMAIN admin = Admins /\ admin[a] \in Act /\ policy \in Policy
  BY DEF Typed
<1>3. acts' \in Nat /\ acts <= acts' /\ acts' <= MaxActs
  <2>1. acts' = acts \/ (acts < MaxActs /\ acts' = acts + 1)
    BY AdministerFrame DEF SaveBegins, RebuildDeletes
  <2>2. QED
    BY <1>2, <2>1, BoundsAssumption DEF Counts
<1>4. policy'.revision \in 1 .. acts + 1 /\ policy'.settings \in 1 .. acts + 1
  BY AdministerFrame, SaveFrame DEF Counts
<1>5. ASSUME NEW b \in Admins
      PROVE  /\ admin'[b].policy.revision \in 1 .. acts' + 1
             /\ admin'[b].policy.settings \in 1 .. acts' + 1
  <2>1. CASE admin'[b].policy \in {admin[b].policy, FirstPolicy}
    <3>1. FirstPolicy.revision = 1 /\ FirstPolicy.settings = 1
      BY DEF FirstPolicy
    <3>2. QED
      BY <1>2, <1>3, <2>1, <3>1 DEF Counts
  <2>2. CASE SaveBegins(a) /\ b = a
    <3> DEFINE now == [revision |-> policy.revision + 1, settings |-> acts + 2]
    <3>1. acts' = acts + 1 /\ admin'[a] = [NoAct EXCEPT !.pc = "read", !.policy = now]
      BY <1>2, <2>2 DEF SaveBegins
    <3>2. now.revision = policy.revision + 1 /\ now.settings = acts + 2
      OBVIOUS
    <3> HIDE DEF now
    <3>3. admin'[b].policy = now
      BY <2>2, <3>1 DEF NoAct
    <3>4. policy.revision + 1 \in 1 .. acts + 2 /\ acts + 2 \in 1 .. acts + 2
      BY <1>2 DEF Counts
    <3>5. QED
      BY <1>2, <3>1, <3>2, <3>3, <3>4
  <2>3. admin'[b].policy \in {admin[b].policy, FirstPolicy} \/ (SaveBegins(a) /\ b = a)
    <3>1. NoAct.policy = FirstPolicy /\ NoAct \in Act
      BY Fresh DEF NoAct, Act
    <3>2. CASE SaveBegins(a)
      BY <1>2, <3>2 DEF SaveBegins
    <3>3. CASE SaveChooses(a) \/ SaveCloses(a)
      BY <1>2, <3>3 DEF SaveChooses, SaveCloses, Act
    <3>4. CASE SaveEnds(a) \/ RebuildEnds(a) \/ AdminAborts(a)
      BY <1>2, <3>1, <3>4 DEF SaveEnds, RebuildEnds, AdminAborts
    <3>5. CASE RebuildDeletes(a)
      BY <1>2, <3>1, <3>5 DEF RebuildDeletes, Act
    <3>6. CASE RebuildReads(a)
      BY <1>2, <3>6 DEF RebuildReads, Act
    <3>7. QED
      BY <3>2, <3>3, <3>4, <3>5, <3>6 DEF Administer
  <2>4. QED
    BY <2>1, <2>2, <2>3
<1>6. QED
  BY <1>1, <1>2, <1>3, <1>4, <1>5 DEF Counts

LEMMA PushRowsBounded ==
  ASSUME Typed, Counts, RowsBounded, Push \/ PushAborts
  PROVE  RowsBounded'
<1>1. /\ bucket \in Nat /\ pushes \in Nat /\ acts \in Nat
      /\ push.before \in Row /\ push.policy \in Policy /\ push.bucket \in Nat
  BY DEF Typed, Pushes
<1>2. NoPush.before = NoRow /\ NoPush.row = NoRow /\ NoRow.since = 0 /\ Bounded(NoRow)
  <2>1. /\ NoRow.cycles = 0 /\ NoRow.bucket = 0 /\ NoRow.revision = 0 /\ NoRow.settings = 0
        /\ NoRow.flags = {} /\ NoRow.since = 0
    BY DEF NoRow
  <2>2. QED
    BY <1>1, <2>1 DEF Bounded, NoPush
<1>3. Bounded(row) /\ Bounded(push.before) /\ Bounded(push.row)
  BY DEF RowsBounded
<1>4. UNCHANGED <<bucket, acts>> /\ pushes' \in {pushes, pushes + 1}
  BY PushFrame, EndFrame DEF Push
<1>5. ASSUME NEW r, Bounded(r) PROVE Bounded(r)'
  BY <1>4, <1>5 DEF Bounded
<1>6. /\ row' \in {row, push.row} /\ Bounded(row')
      /\ row'.since <= pushes'
  <2>1. row' = row \/ (row' = push.row /\ pushes' = pushes + 1)
    BY PushFrame, EndFrame DEF Push
  <2>2. row.since <= pushes /\ push.row.since <= pushes + 1 /\ row.since \in Nat
    BY DEF RowsBounded, Typed, Row
  <2>3. QED
    BY <1>1, <1>3, <1>4, <2>1, <2>2
<1>7. /\ push'.before \in {push.before, row, NoRow} /\ Bounded(push'.before)
      /\ push'.before.since <= pushes'
  <2>1. push'.before \in {push.before, row, NoRow}
    BY <1>2, PushSteps, Reads, Writes, EndFrame DEF Push, PushAborts
  <2>2. /\ row.since <= pushes /\ push.before.since <= pushes
        /\ row.since \in Nat /\ push.before.since \in Nat
    BY <1>1 DEF RowsBounded, Typed, Row
  <2>3. QED
    BY <1>1, <1>2, <1>3, <1>4, <2>1, <2>2
<1>8. Bounded(push'.row) /\ push'.row.since <= pushes' + 1
  <2>1. push.row.since <= pushes + 1 /\ push.row.since \in Nat
    BY DEF RowsBounded, Typed, Pushes, Row
  <2>2. CASE push'.row \in {push.row, NoRow}
    BY <1>1, <1>2, <1>3, <1>4, <2>1, <2>2
  <2>3. CASE WriteState /\ push'.row # NoRow
    <3>1. PICK new : new = push'.row
      OBVIOUS
    <3>2. /\ new.bucket = push.bucket /\ new.revision = push.policy.revision
          /\ new.settings = push.policy.settings
          /\ "cpu" \in new.flags => new.cycles >= Required
          /\ new.flags # {} /\ WasActive(push.before, push.policy)
               => new.since = push.before.since
          /\ new.flags # {} /\ ~WasActive(push.before, push.policy)
               => new.since = pushes + 1
          /\ new.flags = {} => new.since = 0
          /\ \/ new.cycles \in {0, 1}
             \/ new.cycles = push.before.cycles /\ push.bucket = push.before.bucket
             \/ new.cycles = push.before.cycles + 1 /\ push.bucket = push.before.bucket + 1
      <4>1. Evaluates(new, push.before, push.policy, push.bucket, pushes + 1)
        BY <2>3, <3>1, Writing
      <4>2. QED
        BY <4>1 DEF Evaluates
    <3>3. /\ push.before.cycles \in Nat /\ push.before.bucket \in Nat
          /\ push.before.since \in Nat
      BY <1>1 DEF Row
    <3>4. /\ push.bucket <= bucket /\ push.bucket > 0
          /\ push.policy.revision <= acts + 1 /\ push.policy.settings <= acts + 1
      BY <2>3 DEF Counts, WriteState
    <3>5. push.before.cycles <= push.before.bucket
      BY <1>3 DEF Bounded
    <3>6. new.cycles <= new.bucket
      BY <1>1, <3>2, <3>3, <3>4, <3>5
    <3>7. /\ push.before.since <= pushes
          /\ WasActive(push.before, push.policy) => push.before.since > 0
      BY <1>3 DEF RowsBounded, Bounded, WasActive
    <3>8. new.since <= pushes + 1 /\ (new.flags # {} => new.since > 0)
      BY <1>1, <3>2, <3>3, <3>7
    <3>9. Bounded(new)
      BY <3>2, <3>4, <3>6, <3>8 DEF Bounded
    <3>10. pushes' = pushes
      BY <2>3, PushFrame
    <3>11. QED
      BY <3>1, <3>8, <3>9, <3>10
  <2>4. push'.row \in {push.row, NoRow} \/ WriteState
    BY <1>2, PushSteps, Writes, EndFrame DEF Push, PushAborts
  <2>5. QED
    BY <2>2, <2>3, <2>4
<1>9. QED
  <2>1. \A r \in {row', push'.before, push'.row} : Bounded(r)
    BY <1>6, <1>7, <1>8
  <2>2. QED
    BY <1>4, <1>6, <1>7, <1>8, <2>1 DEF RowsBounded, Bounded

LEMMA AdministerRowsBounded ==
  ASSUME Typed, Counts, RowsBounded, NEW a \in Admins, Administer(a)
  PROVE  RowsBounded'
<1>1. /\ UNCHANGED <<bucket, pushes, push>> /\ acts' \in Nat /\ acts \in Nat /\ acts <= acts'
      /\ bucket \in Nat /\ pushes \in Nat
  BY AdministerFrame, AdministerCounts DEF Typed
<1>2. ASSUME NEW r \in Row, Bounded(r) PROVE Bounded(r)'
  <2>1. r.revision \in Nat /\ r.settings \in Nat
    BY DEF Row
  <2>2. r.revision <= acts' + 1 /\ r.settings <= acts' + 1
    BY <1>1, <1>2, <2>1 DEF Bounded
  <2>3. QED
    BY <1>1, <1>2, <2>2 DEF Bounded
<1>3. push.before \in Row /\ push.row \in Row /\ row \in Row
  BY DEF Typed, Pushes
<1>4. Bounded(row') /\ row'.since <= pushes
  <2>1. CASE row' = row
    BY <2>1 DEF RowsBounded
  <2>2. CASE SaveEnds(a)
    <3>1. /\ row'.flags = {} /\ row'.cycles = 0 /\ row'.since = 0 /\ row'.bucket = 0
          /\ row' = NoRow \/ (/\ row'.revision = admin[a].policy.revision
                              /\ row'.settings = admin[a].policy.settings)
      BY <2>2, SaveFrame
    <3>2. row'.revision <= acts + 1 /\ row'.settings <= acts + 1
      BY <1>1, <3>1 DEF Counts, NoRow
    <3>3. QED
      BY <1>1, <3>1, <3>2 DEF Bounded
  <2>3. QED
    BY <2>1, <2>2, AdministerFrame
<1>5. row' \in Row
  BY <1>3, AdministerFrame, SaveClears
<1>6. /\ \A r \in {row', push'.before, push'.row} : r \in Row /\ Bounded(r)
      /\ push'.before.since <= pushes' /\ push'.row.since <= pushes' + 1
      /\ row'.since <= pushes'
  BY <1>1, <1>3, <1>4, <1>5 DEF RowsBounded
<1>7. QED
  BY <1>2, <1>6 DEF RowsBounded

-----------------------------------------------------------------------------
(* A streak of r: the last push of each of its buckets hit, under the        *)
(* settings of r as far back as no push was overtaken by a save.             *)
Streak(r) ==
  \A b \in Nat : b <= r.bucket /\ b + r.cycles > r.bucket =>
    /\ verdict[b] # 0
    /\ (\A c \in Nat : b <= c /\ c <= r.bucket => c \notin superseded)
         => verdict[b] = r.settings

(* The rows the table and the push hold are streaks; one whose last push was *)
(* not overtaken was evaluated under the policy in force, and the one a push *)
(* has read under the push's policy, as long as that is in force.            *)
Streaks ==
  /\ verdict \in [Buckets -> Nat] /\ superseded \subseteq Buckets
  /\ row.cycles > 0 => Streak(row)
  /\ push.before.cycles > 0 => Streak(push.before)
  /\ row.cycles > 0 /\ row.bucket \notin superseded => row.settings = policy.settings
  /\ push.before.cycles > 0 /\ push.before.bucket \notin superseded /\ push.policy = policy
       => push.before.settings = policy.settings

(* The row a push writes begins a streak, keeps or extends the one it read.  *)
Extends ==
  push.row.cycles > 0 =>
    /\ push.row.bucket = push.bucket /\ push.row.settings = push.policy.settings
    /\ \/ push.row.cycles = 1
       \/ push.row.cycles = push.before.cycles /\ push.bucket = push.before.bucket
       \/ push.row.cycles = push.before.cycles + 1 /\ push.bucket = push.before.bucket + 1

LEMMA InitStreaks == Init => Streaks /\ Extends
<1> SUFFICES ASSUME Init PROVE Streaks /\ Extends
  OBVIOUS
<1>1. NoPush.before = NoRow /\ NoPush.row = NoRow /\ NoRow.cycles = 0
  BY DEF NoPush, NoRow
<1>2. row = NoRow /\ push = NoPush
  BY DEF Init
<1>3. verdict \in [Buckets -> Nat] /\ superseded \subseteq Buckets
  BY DEF Init
<1>4. QED
  BY <1>1, <1>2, <1>3 DEF Streaks, Extends

LEMMA StepExtends == Typed /\ InStep /\ Extends /\ [Next]_vars => Extends'
<1> SUFFICES ASSUME Typed, InStep, Extends, [Next]_vars PROVE Extends'
  OBVIOUS
<1>1. NoPush.row = NoRow /\ NoRow.cycles = 0
  BY DEF NoPush, NoRow
<1>2. CASE push' = push
  BY <1>2 DEF Extends
<1>3. CASE PushAborts \/ EndQuietly \/ EndWithEvent
  <2>1. push' = NoPush
    BY <1>3, EndFrame DEF PushAborts
  <2>2. QED
    BY <1>1, <2>1 DEF Extends
<1>4. CASE ReadSettings \/ ReadRevision \/ ReadState
  <2>1. push'.row = NoRow
    BY <1>4, PushSteps DEF InStep, ReadRevision, ReadState
  <2>2. QED
    BY <1>1, <2>1 DEF Extends
<1>5. CASE WriteState
  <2>1. /\ push'.before = push.before /\ push'.policy = push.policy
        /\ push'.bucket = push.bucket
    BY <1>5, Writes, Writing
  <2>2. PICK new : new = push'.row
    OBVIOUS
  <2>3. CASE Evaluates(new, push.before, push.policy, push.bucket, pushes + 1)
    BY <2>1, <2>2, <2>3 DEF Evaluates, Extends
  <2>4. CASE new = NoRow
    BY <1>1, <2>2, <2>4 DEF Extends
  <2>5. QED
    BY <1>5, <2>2, <2>3, <2>4, Writing
<1>6. CASE FindIncident
  <2>1. /\ push'.before = push.before /\ push'.policy = push.policy
        /\ push'.bucket = push.bucket /\ push'.row = push.row
    BY <1>6, Writes, PushSteps
  <2>2. QED
    BY <2>1 DEF Extends
<1>7. CASE Tick \/ UNCHANGED vars
  BY <1>2, <1>7 DEF Tick, vars
<1>8. ASSUME NEW a \in Admins, Administer(a)
      PROVE  Extends'
  BY <1>2, <1>8, AdministerFrame
<1>9. QED
  BY <1>3, <1>4, <1>5, <1>6, <1>7, <1>8 DEF Next, Push

(* The row a push leaves is a streak.                                        *)
LEMMA EndStreak ==
  ASSUME Typed, Counts, RowsBounded, Streaks, Extends, EndQuietly \/ EndWithEvent,
         row'.cycles > 0
  PROVE  /\ Streak(row)'
         /\ row'.bucket \notin superseded' => row'.settings = policy'.settings
<1>1. /\ row' = push.row /\ policy' = policy
      /\ verdict' = [verdict EXCEPT ![push.bucket] = push.policy.settings]
      /\ superseded' = superseded \cup (IF push.policy = policy THEN {} ELSE {push.bucket})
  BY EndFrame
<1>2. /\ push.row \in Row /\ push.before \in Row /\ push.bucket \in Nat
      /\ push.policy.settings \in Nat
  BY DEF Typed, Pushes, Policy
<1>3. push.row.bucket = push.bucket /\ push.row.settings = push.policy.settings
  BY <1>1 DEF Extends
<1>4. push.bucket \in Buckets /\ push.policy.settings > 0
  <2>1. push.pc # "idle" /\ bucket \in Nat
    BY EndFrame DEF Typed
  <2>2. QED
    BY <1>2, <2>1, BoundsAssumption DEF Counts, Buckets
<1>5. /\ verdict'[push.bucket] = push.policy.settings
      /\ \A b : b \in Buckets /\ b # push.bucket => verdict'[b] = verdict[b]
      /\ \A b : b \notin superseded' => b \notin superseded
      /\ push.bucket \notin superseded' => push.policy = policy
  BY <1>1, <1>4 DEF Streaks
<1>6. push.row.bucket \notin superseded' => push.row.settings = policy.settings
  BY <1>3, <1>5
<1>7. ASSUME NEW b \in Nat, b <= push.row.bucket, b + push.row.cycles > push.row.bucket
      PROVE  /\ verdict'[b] # 0
             /\ (\A c \in Nat : b <= c /\ c <= push.row.bucket => c \notin superseded')
                  => verdict'[b] = push.row.settings
  <2>1. CASE b = push.bucket
    BY <1>2, <1>3, <1>4, <1>5, <2>1
  <2>2. CASE b # push.bucket
    <3>1. /\ push.row.cycles \in Nat /\ push.before.cycles \in Nat
          /\ push.before.bucket \in Nat /\ push.row.cycles > 0
      BY <1>1, <1>2 DEF Row
    <3>2. \/ push.row.cycles = 1
          \/ push.row.cycles = push.before.cycles /\ push.bucket = push.before.bucket
          \/ push.row.cycles = push.before.cycles + 1 /\ push.bucket = push.before.bucket + 1
      BY <3>1 DEF Extends
    <3>3. /\ push.before.cycles > 0 /\ b <= push.before.bucket
          /\ b + push.before.cycles > push.before.bucket
          /\ push.before.bucket <= push.bucket /\ b < push.bucket
      BY <1>2, <1>3, <1>7, <2>2, <3>1, <3>2
    <3>4. Streak(push.before)
      BY <3>3 DEF Streaks
    <3>5. /\ verdict[b] # 0
          /\ (\A c \in Nat : b <= c /\ c <= push.before.bucket => c \notin superseded)
               => verdict[b] = push.before.settings
      BY <3>3, <3>4 DEF Streak
    <3>6. b \in Buckets
      <4>1. push.before.cycles <= push.before.bucket
        BY DEF RowsBounded, Bounded
      <4>2. QED
        BY <1>2, <1>4, <3>1, <3>3, <4>1, BoundsAssumption DEF Buckets
    <3>7. verdict'[b] = verdict[b]
      BY <1>5, <2>2, <3>6
    <3>8. ASSUME \A c \in Nat : b <= c /\ c <= push.row.bucket => c \notin superseded'
          PROVE  verdict'[b] = push.row.settings
      <4>1. push.bucket \notin superseded' /\ push.before.bucket \notin superseded'
        BY <1>2, <1>3, <3>1, <3>3, <3>8
      <4>2. push.policy = policy /\ push.before.bucket \notin superseded
        BY <1>5, <4>1
      <4>3. push.before.settings = policy.settings
        BY <3>3, <4>2 DEF Streaks
      <4>4. \A c \in Nat : b <= c /\ c <= push.before.bucket => c \notin superseded
        BY <1>2, <1>3, <1>5, <3>1, <3>3, <3>8
      <4>5. QED
        BY <1>3, <3>5, <3>7, <4>2, <4>3, <4>4
    <3>9. QED
      BY <3>5, <3>7, <3>8
  <2>3. QED
    BY <2>1, <2>2
<1>8. QED
  BY <1>1, <1>6, <1>7 DEF Streak

LEMMA StepStreaks ==
  Typed /\ Counts /\ RowsBounded /\ InStep /\ Extends /\ Streaks /\ [Next]_vars => Streaks'
<1> SUFFICES ASSUME Typed, Counts, RowsBounded, InStep, Extends, Streaks, [Next]_vars
             PROVE  Streaks'
  OBVIOUS
<1>1. NoPush.before = NoRow /\ NoRow.cycles = 0 /\ NoPush.pc = "idle"
  BY DEF NoPush, NoRow
<1>2. CASE EndQuietly \/ EndWithEvent
  <2>1. push'.before.cycles = 0
    BY <1>1, <1>2, EndFrame
  <2>2. /\ push.bucket \in Buckets /\ push.policy.settings \in Nat
        /\ verdict' = [verdict EXCEPT ![push.bucket] =
                         IF push.row.cycles > 0 THEN push.policy.settings ELSE 0]
        /\ superseded' = superseded \cup (IF push.policy = policy THEN {} ELSE {push.bucket})
    <3>1. push.pc # "idle" /\ bucket \in Nat /\ push.bucket \in Nat
          /\ push.policy.settings \in Nat
      BY <1>2, EndFrame DEF Typed, Pushes, Policy
    <3>2. push.bucket \in Buckets
      BY <3>1, BoundsAssumption DEF Counts, Buckets
    <3>3. QED
      BY <1>2, <3>1, <3>2, EndFrame
  <2>3. verdict' \in [Buckets -> Nat] /\ superseded' \subseteq Buckets
    BY <2>2 DEF Streaks
  <2>4. row'.cycles > 0 =>
          /\ Streak(row)'
          /\ row'.bucket \notin superseded' => row'.settings = policy'.settings
    BY <1>2, EndStreak
  <2>5. QED
    BY <2>1, <2>3, <2>4 DEF Streaks
<1>3. CASE UNCHANGED <<policy, row, push, verdict, superseded>>
  BY <1>3 DEF Streaks, Streak
<1>4. CASE Tick \/ UNCHANGED vars
  BY <1>3, <1>4 DEF Tick, vars, tables, historyVars
<1>5. CASE \/ ReadSettings \/ ReadRevision \/ ReadState \/ WriteState \/ FindIncident
           \/ PushAborts
  <2>1. UNCHANGED <<policy, row, verdict, superseded>>
    BY <1>5, PushFrame
  <2>2. CASE push'.before = NoRow
    BY <1>1, <2>1, <2>2 DEF Streaks, Streak
  <2>3. CASE push'.before = row /\ push'.policy = push.policy
    BY <2>1, <2>3 DEF Streaks, Streak
  <2>4. CASE push'.before = push.before /\ push'.policy = push.policy
    BY <2>1, <2>4 DEF Streaks, Streak
  <2>5. QED
    BY <1>1, <1>5, <2>2, <2>3, <2>4, PushSteps, Reads, Writes
       DEF PushAborts, ReadRevision, InStep
<1>6. ASSUME NEW a \in Admins, Administer(a)
      PROVE  Streaks'
  <2>1. UNCHANGED <<push, verdict, superseded>>
    BY <1>6, AdministerFrame
  <2>2. CASE UNCHANGED <<policy, row>>
    BY <1>3, <2>1, <2>2
  <2>3. CASE SaveEnds(a)
    <3>1. /\ row'.cycles = 0 /\ policy'.revision > policy.revision
          /\ policy'.revision \in Nat /\ policy.revision \in Nat
          /\ push.policy.revision \in Nat
      BY <2>3, SaveFrame, SaveClears DEF Typed, Policy, Pushes
    <3>2. push.before.cycles > 0 => push.policy # policy'
      <4>1. SUFFICES ASSUME push.before.cycles > 0 PROVE push.policy # policy'
        OBVIOUS
      <4>2. push.pc \in {"before", "written", "found"}
        <5>1. push.before # NoRow
          BY <1>1, <4>1
        <5>2. push.pc \in Steps
          BY DEF Typed, Pushes
        <5>3. QED
          BY <5>1, <5>2 DEF InStep, Steps
      <4>3. push.policy.revision <= policy.revision
        BY <4>2 DEF InStep
      <4>4. QED
        BY <3>1, <4>3
    <3>3. QED
      BY <2>1, <3>1, <3>2 DEF Streaks, Streak
  <2>4. QED
    BY <1>6, <2>2, <2>3, AdministerFrame
<1>7. QED
  BY <1>2, <1>4, <1>5, <1>6 DEF Next, Push

LEMMA StepLimits == Typed /\ Counts /\ RowsBounded /\ [Next]_vars => (Counts /\ RowsBounded)'
<1> SUFFICES ASSUME Typed, Counts, RowsBounded, [Next]_vars PROVE Counts' /\ RowsBounded'
  OBVIOUS
<1>1. CASE UNCHANGED vars
  BY <1>1 DEF Counts, RowsBounded, Bounded, vars, worldVars, tables
<1>2. CASE Tick
  <2>1. /\ bucket' = bucket + 1 /\ bucket < MaxBuckets /\ bucket \in Nat
        /\ UNCHANGED <<pushes, acts, policy, row, push, admin>>
    BY <1>2 DEF Tick, tables, Typed
  <2>2. bucket' \in Buckets
    BY <2>1, BoundsAssumption DEF Buckets
  <2>3. push.bucket \in Nat
    BY DEF Typed, Pushes
  <2>4. Counts'
    BY <2>1, <2>2, <2>3 DEF Counts
  <2>5. ASSUME NEW r \in Row, Bounded(r) PROVE Bounded(r)'
    <3>1. r.bucket \in Nat
      BY DEF Row
    <3>2. QED
      BY <2>1, <2>5, <3>1 DEF Bounded
  <2>6. row \in Row /\ push.before \in Row /\ push.row \in Row
    BY DEF Typed, Pushes
  <2>7. RowsBounded'
    BY <2>1, <2>5, <2>6 DEF RowsBounded
  <2>8. QED
    BY <2>4, <2>7
<1>3. QED
  BY <1>1, <1>2, PushCounts, PushRowsBounded, AdministerCounts, AdministerRowsBounded DEF Next

(* The types and the limits hold for ever; so does what a push may assume of *)
(* its record.                                                               *)
LEMMA AlwaysSound ==
  Spec => [](Typed /\ Abreast /\ Assessed /\ Counts /\ RowsBounded /\ InStep /\ Extends)
BY InitHolds, InitLimits, InitInStep, InitStreaks,
   NextKeeps, StepLimits, StepInStep, StepExtends, PTL DEF Spec

LEMMA StreaksSustain ==
  ASSUME Typed, Counts, RowsBounded, Streaks
  PROVE  SustainedOnly
<1> SUFFICES ASSUME "cpu" \in row.flags PROVE SustainedOnly
  BY DEF SustainedOnly
<1>1. /\ row.cycles \in Nat /\ row.bucket \in Nat /\ row.cycles <= row.bucket
      /\ row.cycles >= Required /\ Required \in Nat /\ Required > 0
  BY BoundsAssumption DEF Typed, Row, RowsBounded, Bounded
<1>2. Streak(row)
  BY <1>1 DEF Streaks
<1> DEFINE window == {b \in Buckets : b <= row.bucket /\ b + Required > row.bucket}
<1>3. ASSUME NEW b \in window
      PROVE  /\ verdict[b] # 0
             /\ window \cap superseded = {} => verdict[b] = row.settings
  <2>1. b \in Nat /\ b <= row.bucket /\ b + Required > row.bucket
    BY BoundsAssumption DEF Buckets
  <2>2. b + row.cycles > row.bucket
    BY <1>1, <2>1
  <2>3. /\ verdict[b] # 0
        /\ (\A c \in Nat : b <= c /\ c <= row.bucket => c \notin superseded)
             => verdict[b] = row.settings
    BY <1>2, <2>1, <2>2 DEF Streak
  <2>4. ASSUME window \cap superseded = {}, NEW c \in Nat, b <= c, c <= row.bucket
        PROVE  c \notin superseded
    <3>1. c \in superseded => c \in Buckets
      BY DEF Streaks
    <3>2. c + Required > row.bucket
      BY <1>1, <2>1, <2>4
    <3>3. QED
      BY <2>4, <3>1, <3>2
  <2>5. QED
    BY <2>3, <2>4
<1>4. row.bucket >= Required
  BY <1>1
<1> HIDE DEF window
<1>5. /\ \A b \in window : verdict[b] # 0
      /\ window \cap superseded = {} => \A b \in window : verdict[b] = row.settings
  BY <1>3
<1>6. QED
  BY <1>4, <1>5 DEF SustainedOnly, window

(* CPU abuse is shown only if the last push of each of the last Required     *)
(* consecutive buckets hit, and under the settings the row was evaluated     *)
(* with, unless a push of these buckets was overtaken by a save.             *)
THEOREM SustainedUse == Spec => []SustainedOnly
BY AlwaysSound, InitStreaks, StepStreaks, StreaksSustain, PTL DEF Spec

-----------------------------------------------------------------------------
(* What the replay of the events yields: FoldLeft, as the recursion over the *)
(* subsets of the positions that the library defines.                        *)
Replay(e) == FoldLeft(Applied, 0, e)

Latest(s) == CHOOSE x \in s : \A y \in s : x >= y

Folds(e, it, T) ==
  it = [s \in SUBSET T |-> IF s = {} THEN 0
                           ELSE Applied(it[s \ {Latest(s)}], e[Latest(s)])]

LEMMA FoldsUnfold ==
  ASSUME NEW e
  PROVE  Replay(e) = (CHOOSE it : Folds(e, it, DOMAIN e))[DOMAIN e]
BY DEF Replay, FoldLeft, MapThenFoldSet, Folds, Latest, Max

(* A non-empty finite set of naturals has a greatest element.                *)
LEMMA LatestIn ==
  ASSUME NEW S \in SUBSET Nat, IsFiniteSet(S), S # {}
  PROVE  Latest(S) \in S /\ \A y \in S : Latest(S) >= y
<1> DEFINE Bad == {T \in SUBSET S : T # {} /\ \A m \in T : \E x \in T : x > m}
<1>1. SUFFICES ASSUME Bad # {} PROVE FALSE
  <2>1. S \in SUBSET S OBVIOUS
  <2>2. CASE S \notin Bad
    <3>1. \E m \in S : \A x \in S : m >= x BY <2>1, <2>2
    <3>2. QED BY <3>1 DEF Latest
  <2>3. QED BY <1>1, <2>2
<1>2. Bad \in SUBSET SUBSET S
  OBVIOUS
<1> HIDE DEF Bad
<1>3. PICK T \in Bad : \A U \in SUBSET T : U # T => U \notin Bad
  BY <1>1, <1>2, LeastSet
<1>4. PICK m \in T : TRUE
  BY <1>3 DEF Bad
<1> DEFINE U == T \ {m}
<1>5. U \in SUBSET T /\ U # T
  BY <1>4
<1>6. T \in SUBSET Nat /\ \A n \in T : \E x \in T : x > n
  BY <1>3 DEF Bad
<1>7. PICK x \in T : x > m
  BY <1>4, <1>6
<1>8. U \in SUBSET S /\ x \in U
  <2>1. T \in SUBSET S BY <1>3 DEF Bad
  <2>2. x # m BY <1>4, <1>6, <1>7
  <2>3. QED BY <1>7, <2>1, <2>2
<1>9. ASSUME NEW n \in U PROVE \E y \in U : y > n
  <2>1. PICK y \in T : y > n BY <1>6, <1>9
  <2>2. CASE y = m BY <1>4, <1>6, <1>7, <1>8, <1>9, <2>1, <2>2
  <2>3. CASE y # m BY <2>1, <2>3
  <2>4. QED BY <2>2, <2>3
<1>10. U \in Bad
  BY <1>8, <1>9 DEF Bad
<1>11. QED BY <1>3, <1>5, <1>10

(* What the recursion says of one set.                                       *)
LEMMA FoldsStep ==
  ASSUME NEW e, NEW T \in SUBSET Nat, IsFiniteSet(T), NEW it, Folds(e, it, T),
         NEW s \in SUBSET T
  PROVE  /\ s = {} => it[s] = 0
         /\ s # {} => /\ Latest(s) \in s
                      /\ s \ {Latest(s)} \in SUBSET T
                      /\ it[s] = Applied(it[s \ {Latest(s)}], e[Latest(s)])
<1>1. s # {} => Latest(s) \in s
  <2>1. s \in SUBSET Nat /\ IsFiniteSet(s) BY FS_Subset
  <2>2. QED BY <2>1, LatestIn
<1>2. it[s] = IF s = {} THEN 0 ELSE Applied(it[s \ {Latest(s)}], e[Latest(s)])
  BY DEF Folds
<1>3. QED BY <1>1, <1>2

(* Two such functions agree where the events agree.                          *)
LEMMA FoldsAgree ==
  ASSUME NEW d, NEW e, NEW T \in SUBSET Nat, NEW U \in SUBSET Nat,
         IsFiniteSet(T), IsFiniteSet(U), NEW i, NEW j,
         Folds(d, i, T), Folds(e, j, U), \A x \in T \cap U : d[x] = e[x]
  PROVE  \A s \in SUBSET (T \cap U) : i[s] = j[s]
<1> DEFINE Bad == {s \in SUBSET (T \cap U) : i[s] # j[s]}
<1>1. SUFFICES ASSUME Bad # {} PROVE FALSE
  OBVIOUS
<1>2. IsFiniteSet(T \cap U) /\ Bad \in SUBSET SUBSET (T \cap U)
  BY FS_Intersection
<1> HIDE DEF Bad
<1>3. PICK s \in Bad : \A r \in SUBSET s : r # s => r \notin Bad
  BY <1>1, <1>2, LeastSet
<1>4. s \in SUBSET T /\ s \in SUBSET U /\ s \in SUBSET (T \cap U) /\ i[s] # j[s]
  BY <1>3 DEF Bad
<1>5. /\ s = {} => i[s] = 0
      /\ s # {} => Latest(s) \in s /\ i[s] = Applied(i[s \ {Latest(s)}], d[Latest(s)])
  BY <1>4, FoldsStep
<1>6. /\ s = {} => j[s] = 0
      /\ s # {} => /\ Latest(s) \in s
                   /\ s \ {Latest(s)} \in SUBSET U
                   /\ j[s] = Applied(j[s \ {Latest(s)}], e[Latest(s)])
  BY <1>4, FoldsStep
<1>7. s # {}
  BY <1>4, <1>5, <1>6
<1> DEFINE r == s \ {Latest(s)}
<1>8. r \in SUBSET s /\ r # s /\ r \in SUBSET (T \cap U)
  BY <1>4, <1>5, <1>7
<1>9. i[r] = j[r]
  <2> HIDE DEF r
  <2>1. QED BY <1>3, <1>8 DEF Bad
<1>10. d[Latest(s)] = e[Latest(s)]
  BY <1>4, <1>5, <1>7
<1>11. QED BY <1>4, <1>5, <1>6, <1>7, <1>9, <1>10

(* The recursion has a solution.                                             *)
LEMMA FoldsExist ==
  ASSUME NEW e, NEW D \in SUBSET Nat, IsFiniteSet(D)
  PROVE  \E it : Folds(e, it, D)
<1> DEFINE Bad == {T \in SUBSET D : ~ \E it : Folds(e, it, T)}
<1>1. SUFFICES ASSUME Bad # {} PROVE FALSE
  OBVIOUS
<1>2. Bad \in SUBSET SUBSET D
  OBVIOUS
<1> HIDE DEF Bad
<1>3. PICK T \in Bad : \A U \in SUBSET T : U # T => U \notin Bad
  BY <1>1, <1>2, LeastSet
<1>4. T \in SUBSET D /\ T \in SUBSET Nat /\ IsFiniteSet(T) /\ ~ \E it : Folds(e, it, T)
  BY <1>3, FS_Subset DEF Bad
<1> DEFINE part(U) == CHOOSE it : Folds(e, it, U)
<1>5. ASSUME NEW U \in SUBSET T, U # T
      PROVE  Folds(e, part(U), U) /\ IsFiniteSet(U) /\ U \in SUBSET Nat
  <2>1. \E it : Folds(e, it, U)
    BY <1>3, <1>4, <1>5 DEF Bad
  <2>2. Folds(e, part(U), U)
    BY <2>1
  <2>3. IsFiniteSet(U) /\ U \in SUBSET Nat
    BY <1>4, FS_Subset
  <2>4. QED BY <2>2, <2>3
<1>6. ASSUME NEW U \in SUBSET T, U # T, NEW V \in SUBSET U
      PROVE  part(U)[V] = part(V)[V]
  <2>1. V \in SUBSET T /\ V # T BY <1>6
  <2>2. /\ Folds(e, part(U), U) /\ IsFiniteSet(U) /\ U \in SUBSET Nat
        /\ Folds(e, part(V), V) /\ IsFiniteSet(V) /\ V \in SUBSET Nat
    BY <1>5, <1>6, <2>1
  <2> HIDE DEF part
  <2>3. \A s \in SUBSET (U \cap V) : part(U)[s] = part(V)[s]
    BY <2>2, FoldsAgree
  <2>4. V \in SUBSET (U \cap V) OBVIOUS
  <2>5. QED BY <2>3, <2>4
<1> DEFINE rest(s) == s \ {Latest(s)}
           value(s) == IF s = {} THEN 0 ELSE Applied(part(rest(s))[rest(s)], e[Latest(s)])
           new == [s \in SUBSET T |-> value(s)]
<1>7. ASSUME NEW s \in SUBSET T, s # {}
      PROVE  new[rest(s)] = part(rest(s))[rest(s)]
  <2>1. Latest(s) \in s
    <3>1. s \in SUBSET Nat /\ IsFiniteSet(s) BY <1>4, FS_Subset
    <3>2. QED BY <1>7, <3>1, LatestIn
  <2>2. rest(s) \in SUBSET T /\ rest(s) # T /\ rest(s) \in SUBSET rest(s)
    BY <2>1
  <2> DEFINE r == rest(s)
  <2>3. Folds(e, part(r), r) /\ IsFiniteSet(r) /\ r \in SUBSET Nat
    BY <1>5, <2>2
  <2> HIDE DEF part, rest
  <2>4. CASE r = {}
    <3>1. part(r)[r] = 0
      BY <2>2, <2>3, <2>4, FoldsStep
    <3>2. new[r] = 0
      BY <2>2, <2>4
    <3>3. QED BY <3>1, <3>2
  <2>5. CASE r # {}
    <3>1. /\ rest(r) \in SUBSET r
          /\ part(r)[r] = Applied(part(r)[rest(r)], e[Latest(r)])
      <4>1. r \in SUBSET r OBVIOUS
      <4> DEFINE it == part(r)
      <4>2. Folds(e, it, r) /\ IsFiniteSet(r) /\ r \in SUBSET Nat BY <2>3
      <4> HIDE DEF it
      <4>3. Latest(r) \in r /\ it[r] = Applied(it[r \ {Latest(r)}], e[Latest(r)])
        BY <2>5, <4>1, <4>2, FoldsStep
      <4>4. QED BY <4>3 DEF rest, it
    <3>2. part(r)[rest(r)] = part(rest(r))[rest(r)]
      BY <1>6, <2>2, <3>1
    <3>3. new[r] = Applied(part(rest(r))[rest(r)], e[Latest(r)])
      BY <2>2, <2>5
    <3>4. QED BY <3>1, <3>2, <3>3
  <2>6. QED BY <2>4, <2>5
<1>8. \A s \in SUBSET T :
        value(s) = IF s = {} THEN 0 ELSE Applied(new[s \ {Latest(s)}], e[Latest(s)])
  <2> SUFFICES ASSUME NEW s \in SUBSET T
               PROVE  value(s) = IF s = {} THEN 0 ELSE Applied(new[rest(s)], e[Latest(s)])
    OBVIOUS
  <2>1. s # {} => new[rest(s)] = part(rest(s))[rest(s)]
    BY <1>7
  <2> HIDE DEF new, rest, part
  <2>2. QED BY <2>1
<1>9. Folds(e, new, T)
  <2> HIDE DEF value
  <2>1. new = [s \in SUBSET T |-> IF s = {} THEN 0
                                  ELSE Applied(new[s \ {Latest(s)}], e[Latest(s)])]
    BY <1>8
  <2>2. QED BY <2>1 DEF Folds
<1>10. QED BY <1>4, <1>9

(* The replay of the events of a sequence, seen as the solution.             *)
LEMMA ReplayFolds ==
  ASSUME NEW e \in Seq(Event)
  PROVE  \E it : /\ Folds(e, it, DOMAIN e) /\ Replay(e) = it[DOMAIN e]
                 /\ DOMAIN e = 1 .. Len(e) /\ Len(e) \in Nat
                 /\ IsFiniteSet(DOMAIN e) /\ DOMAIN e \in SUBSET Nat
<1>1. DOMAIN e = 1 .. Len(e) /\ Len(e) \in Nat
  OBVIOUS
<1>2. IsFiniteSet(1 .. Len(e)) /\ 1 .. Len(e) \in SUBSET Nat
  <2>1. 1 \in Int /\ Len(e) \in Int BY <1>1
  <2>2. IsFiniteSet(1 .. Len(e)) BY <2>1, FS_Interval
  <2>3. QED BY <1>1, <2>2
<1>3. \E it : Folds(e, it, DOMAIN e)
  BY <1>1, <1>2, FoldsExist
<1>4. QED BY <1>1, <1>2, <1>3, FoldsUnfold

(* No event: no open incident; one more event: it is applied last.           *)
LEMMA ReplayEmpty == Replay(<<>>) = 0
<1>1. <<>> \in Seq(Event) /\ DOMAIN <<>> = {}
  OBVIOUS
<1>2. PICK it : Folds(<<>>, it, {}) /\ Replay(<<>>) = it[{}]
  BY <1>1, ReplayFolds
<1>3. {} \in SUBSET {} /\ {} \in SUBSET Nat /\ IsFiniteSet({})
  BY FS_EmptySet
<1>4. it[{}] = 0
  BY <1>2, <1>3 DEF Folds
<1>5. QED BY <1>2, <1>4

LEMMA ReplayAppend ==
  ASSUME NEW e \in Seq(Event), NEW x \in Event
  PROVE  Replay(e \o <<x>>) = Applied(Replay(e), x)
<1> DEFINE f == e \o <<x>>
           n == Len(e)
<1>1. /\ f \in Seq(Event) /\ Len(f) = n + 1 /\ n \in Nat
      /\ f[n + 1] = x /\ \A k \in 1 .. n : f[k] = e[k]
  OBVIOUS
<1> HIDE DEF f
<1>2. PICK i : /\ Folds(e, i, DOMAIN e) /\ Replay(e) = i[DOMAIN e]
               /\ DOMAIN e = 1 .. n /\ IsFiniteSet(DOMAIN e) /\ DOMAIN e \in SUBSET Nat
  BY ReplayFolds
<1>3. PICK j : /\ Folds(f, j, DOMAIN f) /\ Replay(f) = j[DOMAIN f]
               /\ DOMAIN f = 1 .. n + 1 /\ IsFiniteSet(DOMAIN f) /\ DOMAIN f \in SUBSET Nat
  BY <1>1, ReplayFolds
<1> HIDE DEF n
<1> DEFINE T == 1 .. n
           U == 1 .. n + 1
<1>4. /\ n + 1 \in U /\ U \ {n + 1} = T /\ T \in SUBSET U /\ U # {} /\ T \cap U = T
      /\ \A y \in U : y <= n + 1 /\ y \in Nat
      /\ U \in SUBSET U /\ U \in SUBSET Nat /\ T \in SUBSET Nat
      /\ IsFiniteSet(U) /\ IsFiniteSet(T)
  <2>1. IsFiniteSet(U) /\ IsFiniteSet(T)
    BY <1>2, <1>3
  <2>2. \A y : y \in T <=> y \in Nat /\ 1 <= y /\ y <= n
    BY <1>1
  <2>3. \A y : y \in U <=> y \in Nat /\ 1 <= y /\ y <= n + 1
    BY <1>1
  <2> HIDE DEF T, U
  <2>4. n + 1 \in U
    BY <1>1, <2>3
  <2>5. U \ {n + 1} = T
    BY <1>1, <2>2, <2>3
  <2>6. \A y \in U : y <= n + 1 /\ y \in Nat
    BY <2>3
  <2>7. QED BY <2>1, <2>4, <2>5, <2>6
<1>5. Folds(e, i, T) /\ Replay(e) = i[T] /\ Folds(f, j, U) /\ Replay(f) = j[U]
  BY <1>2, <1>3
<1>6. \A k \in T : e[k] = f[k]
  BY <1>1
<1> HIDE DEF T, U
<1>7. Latest(U) = n + 1
  <2>1. Latest(U) \in U /\ \A y \in U : Latest(U) >= y
    BY <1>4, LatestIn
  <2>2. QED BY <1>1, <1>4, <2>1
<1>8. j[U] = Applied(j[T], x)
  <2>1. j[U] = IF U = {} THEN 0 ELSE Applied(j[U \ {Latest(U)}], f[Latest(U)])
    BY <1>4, <1>5 DEF Folds
  <2>2. QED BY <1>1, <1>4, <1>7, <2>1
<1>9. i[T] = j[T]
  <2>1. \A k \in T \cap U : e[k] = f[k]
    BY <1>6
  <2>2. \A s \in SUBSET (T \cap U) : i[s] = j[s]
    BY ONLY <1>4, <1>5, <2>1, FoldsAgree
  <2>3. T \in SUBSET (T \cap U)
    BY <1>4
  <2>4. QED BY <2>2, <2>3
<1>10. QED BY <1>5, <1>8, <1>9 DEF f

(* A replay yields no time or start that is not 0 or of one of its events.   *)
LEMMA ReplayBounded ==
  ASSUME NEW e \in Seq(Event), NEW n \in Nat,
         \A k \in DOMAIN e : e[k].time <= n /\ e[k].since <= n
  PROVE  Replay(e) \in 0 .. n
<1>1. PICK it : /\ Folds(e, it, DOMAIN e) /\ Replay(e) = it[DOMAIN e]
                /\ DOMAIN e = 1 .. Len(e)
                /\ IsFiniteSet(DOMAIN e) /\ DOMAIN e \in SUBSET Nat
  BY ReplayFolds
<1>2. PICK D : D = DOMAIN e
  OBVIOUS
<1>3. Folds(e, it, D) /\ IsFiniteSet(D) /\ D \in SUBSET Nat /\ Replay(e) = it[D]
  BY <1>1, <1>2
<1> DEFINE Bad == {s \in SUBSET D : it[s] \notin 0 .. n}
<1>4. SUFFICES ASSUME Bad # {} PROVE FALSE
  <2>1. D \in SUBSET D OBVIOUS
  <2>2. QED BY <1>3, <1>4, <2>1
<1> HIDE DEF Bad
<1>5. PICK s \in Bad : \A r \in SUBSET s : r # s => r \notin Bad
  <2>1. Bad \in SUBSET SUBSET D
    BY DEF Bad
  <2>2. QED BY <1>3, <1>4, <2>1, LeastSet
<1>6. s \in SUBSET D /\ it[s] \notin 0 .. n
  BY <1>5 DEF Bad
<1>7. /\ s = {} => it[s] = 0
      /\ s # {} => /\ Latest(s) \in s
                   /\ s \ {Latest(s)} \in SUBSET D
                   /\ it[s] = Applied(it[s \ {Latest(s)}], e[Latest(s)])
  <2>1. s \in SUBSET D /\ s \in SUBSET Nat
    BY <1>3, <1>6
  <2>2. s # {} => Latest(s) \in s
    <3>1. IsFiniteSet(s) BY <1>3, <2>1, FS_Subset
    <3>2. QED BY <2>1, <3>1, LatestIn
  <2>3. it[s] = IF s = {} THEN 0 ELSE Applied(it[s \ {Latest(s)}], e[Latest(s)])
    <3>1. Folds(e, it, D) BY <1>3
    <3>2. QED BY ONLY <2>1, <3>1 DEF Folds
  <2>4. QED BY <2>1, <2>2, <2>3
<1>8. s # {}
  BY <1>6, <1>7
<1>9. it[s \ {Latest(s)}] \in 0 .. n
  <2> DEFINE r == s \ {Latest(s)}
  <2>1. r \in SUBSET s /\ r # s /\ r \in SUBSET D
    BY <1>6, <1>7, <1>8
  <2> HIDE DEF r
  <2>2. it[r] \in 0 .. n
    BY <1>5, <2>1 DEF Bad
  <2>3. QED BY <2>2 DEF r
<1>10. ASSUME NEW since \in 0 .. n, NEW x \in Event, x.time <= n, x.since <= n
       PROVE  Applied(since, x) \in 0 .. n
  <2>1. /\ x.time \in Nat /\ x.since \in Nat
        /\ x.type \in {"started", "updated", "recovered"}
    BY DEF Event
  <2>2. x.time \in 0 .. n /\ x.since \in 0 .. n /\ 0 \in 0 .. n
    BY <1>10, <2>1
  <2>3. Applied(since, x) \in {x.time, x.since, since, 0}
    BY <2>1 DEF Applied
  <2>4. QED BY <2>2, <2>3
<1>11. /\ Latest(s) \in DOMAIN e /\ e[Latest(s)] \in Event
       /\ e[Latest(s)].time <= n /\ e[Latest(s)].since <= n
  BY <1>1, <1>2, <1>6, <1>7, <1>8
<1>12. Applied(it[s \ {Latest(s)}], e[Latest(s)]) \in 0 .. n
  BY <1>9, <1>10, <1>11
<1>13. QED BY <1>6, <1>7, <1>8, <1>12

-----------------------------------------------------------------------------
(* The events a push writes.                                                 *)
LEMMA NewEventsCases ==
  LET was == push.before.flags # {} /\ push.before.revision = push.policy.revision
      is  == push.row.flags # {}
      new(type, since) == <<[type |-> type, bucket |-> push.bucket, time |-> pushes + 1,
                             since |-> since]>>
  IN /\ is /\ ~was => NewEvents = new("started", push.row.since)
     /\ is /\ was /\ push.row.flags # push.before.flags
          => NewEvents = new("updated", push.row.since)
     /\ ~is /\ was => NewEvents = new("recovered", push.before.since)
     /\ is /\ was /\ push.row.flags = push.before.flags => NewEvents = <<>>
     /\ ~is /\ ~was => NewEvents = <<>>
BY DEF NewEvents, EventsOf, WasActive

LEMMA NewEventsBounded ==
  ASSUME Typed, RowsBounded
  PROVE  \/ NewEvents = <<>>
         \/ \E x \in Event : /\ NewEvents = <<x>> /\ x.time = pushes + 1
                             /\ x.since > 0 /\ x.since <= pushes + 1
                             /\ x.bucket = push.bucket
<1>1. /\ push.before \in Row /\ push.row \in Row /\ pushes \in Nat /\ push.bucket \in Nat
  BY DEF Typed, Pushes
<1>2. /\ push.before.since \in Nat /\ push.row.since \in Nat /\ pushes + 1 \in Nat
      /\ push.before.since <= pushes + 1 /\ push.row.since <= pushes + 1
      /\ push.before.flags # {} => push.before.since > 0
      /\ push.row.flags # {} => push.row.since > 0
  BY <1>1 DEF Row, RowsBounded, Bounded
<1>3. ASSUME NEW type \in {"started", "updated", "recovered"}, NEW since \in Nat,
             NewEvents = <<[type |-> type, bucket |-> push.bucket, time |-> pushes + 1,
                            since |-> since]>>,
             since > 0, since <= pushes + 1
      PROVE  \E x \in Event : /\ NewEvents = <<x>> /\ x.time = pushes + 1
                              /\ x.since > 0 /\ x.since <= pushes + 1
                              /\ x.bucket = push.bucket
  <2> DEFINE x == [type |-> type, bucket |-> push.bucket, time |-> pushes + 1, since |-> since]
  <2>1. x \in Event /\ x.time = pushes + 1 /\ x.since = since /\ x.bucket = push.bucket
    BY <1>1, <1>2 DEF Event
  <2>2. NewEvents = <<x>>
    BY <1>3
  <2> HIDE DEF x
  <2>3. QED BY <1>3, <2>1, <2>2
<1>4. CASE push.row.flags # {}
  <2>1. \/ NewEvents = <<>>
        \/ \E type \in {"started", "updated"} :
             NewEvents = <<[type |-> type, bucket |-> push.bucket, time |-> pushes + 1,
                            since |-> push.row.since]>>
    BY <1>4, NewEventsCases
  <2>2. QED BY <1>2, <1>3, <1>4, <2>1
<1>5. CASE push.row.flags = {}
  <2>1. \/ NewEvents = <<>>
        \/ /\ push.before.flags # {}
           /\ NewEvents = <<[type |-> "recovered", bucket |-> push.bucket,
                             time |-> pushes + 1, since |-> push.before.since]>>
    BY <1>5, NewEventsCases
  <2>2. QED BY <1>2, <1>3, <2>1
<1>6. QED BY <1>4, <1>5

(* A row that shows abuse bears the time of the push, or of the one abuse    *)
(* began with, and a push that has looked for the incident has an event.     *)
Dated ==
  LET was == push.before.flags # {} /\ push.before.revision = push.policy.revision
      is  == push.row.flags # {}
  IN /\ push.pc \in {"written", "found"} /\ is =>
          push.row.since = IF was THEN push.before.since ELSE pushes + 1
     /\ push.pc = "found" => /\ is \/ was
                             /\ ~(is /\ was /\ push.row.flags = push.before.flags)

LEMMA InitDated == Init => Dated
BY DEF Init, NoPush, Dated

LEMMA StepDated == Typed /\ Dated /\ [Next]_vars => Dated'
<1> SUFFICES ASSUME Typed, Dated, [Next]_vars PROVE Dated'
  OBVIOUS
<1>1. CASE UNCHANGED <<push, pushes>>
  BY <1>1 DEF Dated
<1>2. CASE Tick \/ UNCHANGED vars
  BY <1>1, <1>2 DEF Tick, vars, worldVars
<1>3. CASE PushAborts \/ EndQuietly \/ EndWithEvent
  <2>1. push'.pc = "idle"
    BY <1>3, EndFrame DEF PushAborts, NoPush
  <2>2. QED BY <2>1 DEF Dated
<1>4. CASE ReadSettings \/ ReadRevision \/ ReadState
  <2>1. push'.pc \in {"settings", "policy", "before"}
    BY <1>4, Reads
  <2>2. QED BY <2>1 DEF Dated
<1>5. CASE WriteState
  <2>1. /\ push'.pc = "written" /\ push'.before = push.before
        /\ push'.policy = push.policy /\ pushes' = pushes
    BY <1>5, Writes, PushFrame
  <2>2. PICK new : new = push'.row
    OBVIOUS
  <2>3. CASE Evaluates(new, push.before, push.policy, push.bucket, pushes + 1)
    <3>1. new.flags # {} =>
            new.since = IF push.before.flags # {} /\ push.before.revision = push.policy.revision
                        THEN push.before.since ELSE pushes + 1
      BY <2>3 DEF Evaluates, WasActive
    <3>2. QED BY <2>1, <2>2, <3>1 DEF Dated
  <2>4. CASE new = NoRow
    BY <2>1, <2>2, <2>4, Fresh DEF Dated
  <2>5. QED BY <1>5, <2>2, <2>3, <2>4, Writing
<1>6. CASE FindIncident
  <2>1. /\ push'.before = push.before /\ push'.policy = push.policy
        /\ push'.row = push.row /\ pushes' = pushes /\ push.pc = "written"
    BY <1>6, Writes, PushFrame
  <2>2. NewEvents # <<>>
    BY <1>6 DEF FindIncident
  <2>3. QED BY <2>1, <2>2, NewEventsCases DEF Dated
<1>7. ASSUME NEW a \in Admins, Administer(a)
      PROVE  Dated'
  BY <1>1, <1>7, AdministerFrame
<1>8. QED BY <1>2, <1>3, <1>4, <1>5, <1>6, <1>7 DEF Next, Push

LEMMA FoundEvents ==
  ASSUME Dated, push.pc = "found"
  PROVE  NewEvents # <<>>
<1>1. ASSUME NEW x PROVE <<x>> # <<>>
  OBVIOUS
<1>2. QED BY <1>1, NewEventsCases DEF Dated

(* The end of a push with an event: it is appended, and the incident is as   *)
(* it was, gone, or a new one.                                               *)
LEMMA EndingWithEvent ==
  ASSUME Typed, RowsBounded, EndWithEvent
  PROVE  /\ events' = events \o NewEvents /\ push.pc = "found"
         /\ raced' = (CleaningUp \/ (raced /\ Head(NewEvents).type # "started"))
         /\ \/ /\ Head(NewEvents).type = "started"
                    \/ (Head(NewEvents).type = "updated" /\ push.seen = 0)
               /\ incident' = [id |-> lastId + 1, since |-> Applied(0, Head(NewEvents))]
               /\ lastId' = lastId + 1
            \/ /\ Head(NewEvents).type # "started"
               /\ ~(Head(NewEvents).type = "updated" /\ push.seen = 0)
               /\ incident' = IF Head(NewEvents).type = "recovered" /\ incident.id = push.seen
                              THEN NoIncident ELSE incident
               /\ lastId' = lastId
BY DEF EndWithEvent

LEMMA AppliedNew ==
  ASSUME NEW x \in Event
  PROVE  /\ x.type = "started" => Applied(0, x) = x.time
         /\ x.type = "updated" => Applied(0, x) = x.since
         /\ x.type = "started" => \A since : Applied(since, x) = x.time
         /\ x.type = "updated" => \A since : since # 0 => Applied(since, x) = since
BY DEF Applied, Event

-----------------------------------------------------------------------------
(* The times events and incidents bear.                                      *)
EventsBounded ==
  /\ Len(events) <= pushes
  /\ \A k \in DOMAIN events :
       /\ events[k].time \in 1 .. pushes /\ events[k].since \in 1 .. pushes
       /\ events[k].bucket \in Buckets
  /\ \A a \in Admins : \A k \in DOMAIN admin[a].events :
       /\ admin[a].events[k].time <= pushes /\ admin[a].events[k].since <= pushes
  /\ incident.since \in 0 .. pushes

LEMMA InitEventsBounded == Init => EventsBounded
<1> SUFFICES ASSUME Init PROVE EventsBounded
  OBVIOUS
<1>1. /\ events = <<>> /\ pushes = 0 /\ incident = NoIncident
      /\ \A a \in Admins : admin[a] = NoAct
  BY DEF Init
<1>2. Len(<<>>) = 0 /\ DOMAIN <<>> = {}
  OBVIOUS
<1>3. NoAct.events = <<>> /\ NoIncident.since = 0
  BY DEF NoAct, NoIncident
<1>4. QED BY <1>1, <1>2, <1>3 DEF EventsBounded

LEMMA EndEventsBounded ==
  ASSUME Typed, Counts, RowsBounded, Dated, EventsBounded, EndQuietly \/ EndWithEvent
  PROVE  EventsBounded'
<1>1. /\ pushes \in Nat /\ events \in Seq(Event) /\ DOMAIN admin = Admins
      /\ \A a \in Admins : admin[a].events \in Seq(Event)
  BY DEF Typed, Act
<1>2. pushes' = pushes + 1 /\ admin' = admin
  BY EndFrame
<1>3. ASSUME NEW a \in Admins, NEW k \in DOMAIN admin[a].events
      PROVE  /\ admin[a].events[k].time <= pushes + 1
             /\ admin[a].events[k].since <= pushes + 1
  <2>1. admin[a].events[k] \in Event
    BY <1>1
  <2>2. admin[a].events[k].time \in Nat /\ admin[a].events[k].since \in Nat
    BY <2>1 DEF Event
  <2>3. QED BY <1>1, <2>2 DEF EventsBounded
<1>4. CASE EndQuietly
  <2>1. UNCHANGED <<events, incident>>
    BY <1>4 DEF EndQuietly
  <2>2. QED BY <1>1, <1>2, <1>3, <2>1 DEF EventsBounded
<1>5. CASE EndWithEvent
  <2>1. PICK x \in Event : \/ NewEvents = <<>>
                           \/ /\ NewEvents = <<x>> /\ x.time = pushes + 1
                              /\ x.since > 0 /\ x.since <= pushes + 1
                              /\ x.bucket = push.bucket
    <3>1. [type |-> "started", bucket |-> 0, time |-> 0, since |-> 0] \in Event
      BY DEF Event
    <3>2. QED BY <3>1, NewEventsBounded
  <2>2. events' = events \o NewEvents
    BY <1>5, EndingWithEvent
  <2>3. Len(events') <= pushes + 1
    BY <1>1, <2>1, <2>2 DEF EventsBounded
  <2>4. ASSUME NEW k \in DOMAIN events'
        PROVE  /\ events'[k].time \in 1 .. pushes + 1 /\ events'[k].since \in 1 .. pushes + 1
               /\ events'[k].bucket \in Buckets
    <3>1. \/ k \in DOMAIN events /\ events'[k] = events[k]
          \/ NewEvents = <<x>> /\ events'[k] = x
      BY <1>1, <2>1, <2>2, <2>4
    <3>2. CASE k \in DOMAIN events /\ events'[k] = events[k]
      BY <1>1, <3>2 DEF EventsBounded
    <3>3. CASE NewEvents = <<x>> /\ events'[k] = x
      <4>1. x.since \in Nat BY DEF Event
      <4>2. /\ x.time = pushes + 1 /\ x.since > 0 /\ x.since <= pushes + 1
            /\ x.bucket = push.bucket
        BY <2>1, <3>3
      <4>3. push.bucket \in Buckets
        <5>1. push.bucket \in Nat /\ bucket \in Nat /\ MaxBuckets \in Nat
          BY BoundsAssumption DEF Typed, Pushes
        <5>2. push.bucket > 0 /\ push.bucket <= bucket /\ bucket <= MaxBuckets
          BY <1>5, EndFrame DEF Counts, Buckets
        <5>3. QED BY <5>1, <5>2 DEF Buckets
      <4>4. QED BY <1>1, <3>3, <4>1, <4>2, <4>3
    <3>4. QED BY <3>1, <3>2, <3>3
  <2>5. incident'.since \in 0 .. pushes + 1
    <3>1. CASE incident' \in {incident, NoIncident}
      BY <1>1, <3>1 DEF EventsBounded, NoIncident
    <3>2. CASE incident'.since = Applied(0, Head(NewEvents)) /\ NewEvents # <<>>
               /\ Head(NewEvents).type \in {"started", "updated"}
      <4>1. Head(NewEvents) = x /\ x.time = pushes + 1 /\ x.since > 0 /\ x.since <= pushes + 1
        BY <2>1, <3>2
      <4>2. x.since \in Nat /\ x.time \in Nat BY DEF Event
      <4>3. Applied(0, x) \in {x.time, x.since}
        BY <3>2, <4>1, AppliedNew
      <4>4. QED BY <1>1, <3>2, <4>1, <4>2, <4>3
    <3>3. NewEvents # <<>>
      BY <1>5, FoundEvents, EndingWithEvent
    <3>4. QED BY <1>5, <3>1, <3>2, <3>3, EndingWithEvent
  <2>6. QED BY <1>2, <1>3, <2>3, <2>4, <2>5 DEF EventsBounded
<1>6. QED BY <1>4, <1>5

(* What an administrator's record holds after a step: of its own.            *)
LEMMA ActFields ==
  ASSUME Typed, NEW a \in Admins, Administer(a), NEW b \in Admins
  PROVE  /\ \/ admin'[b].events \in {<<>>, admin[b].events}
            \/ \E k \in 0 .. Len(events) : admin'[b].events = Reread(events, k)
         /\ admin'[b].seen \in {0, incident.id, admin[b].seen}
         /\ b # a => admin'[b] = admin[b]
         /\ RebuildReads(a) \/ admin'[b].events \in {<<>>, admin[b].events}
         /\ ~RebuildDeletes(a) /\ admin'[b].pc \in {"deleted", "replay"}
              => admin[b].pc \in {"deleted", "replay"}
         /\ admin'[b].pc = "replay"
              => \/ admin[b].pc = "replay" /\ admin'[b].events = admin[b].events
                 \/ \E k \in 0 .. Len(events) : admin'[b].events = Reread(events, k)
<1>1. DOMAIN admin = Admins /\ admin[a] \in Act /\ admin[b] \in Act
  BY DEF Typed
<1>2. NoAct.events = <<>> /\ NoAct.seen = 0 /\ NoAct.pc = "idle" /\ NoAct \in Act
  BY Fresh DEF NoAct, Act
<1>3. CASE SaveEnds(a) \/ RebuildEnds(a) \/ AdminAborts(a)
  BY <1>1, <1>2, <1>3 DEF SaveEnds, RebuildEnds, AdminAborts
<1>4. CASE SaveBegins(a)
  <2>1. PICK now : admin' = [admin EXCEPT ![a] = [NoAct EXCEPT !.pc = "read", !.policy = now]]
    BY <1>4 DEF SaveBegins
  <2>2. /\ admin'[a].events = <<>> /\ admin'[a].seen = 0 /\ admin'[a].pc = "read"
        /\ b # a => admin'[b] = admin[b]
    BY <1>1, <1>2, <2>1 DEF Act
  <2>3. QED BY <1>1, <2>2
<1>5. CASE SaveChooses(a)
  <2>1. admin' = [admin EXCEPT ![a] = [admin[a] EXCEPT !.pc = "chosen", !.seen = incident.id]]
    BY <1>1, <1>5 DEF SaveChooses, Typed
  <2>2. /\ admin'[a].events = admin[a].events /\ admin'[a].seen = incident.id
        /\ admin'[a].pc = "chosen" /\ (b # a => admin'[b] = admin[b])
    BY <1>1, <2>1 DEF Act
  <2>3. QED BY <1>1, <2>2
<1>6. CASE SaveCloses(a)
  BY <1>1, <1>6 DEF SaveCloses, Act
<1>7. CASE RebuildDeletes(a)
  <2>1. admin' = [admin EXCEPT ![a] = [NoAct EXCEPT !.pc = "deleted", !.seen = incident.id]]
    BY <1>7 DEF RebuildDeletes
  <2>2. /\ admin'[a].events = <<>> /\ admin'[a].seen = incident.id
        /\ admin'[a].pc = "deleted" /\ (b # a => admin'[b] = admin[b])
    BY <1>1, <1>2, <2>1 DEF Act
  <2>3. QED BY <1>1, <1>7, <2>2
<1>8. CASE RebuildReads(a)
  <2>1. PICK k \in 0 .. Len(events) :
          /\ admin' = [admin EXCEPT ![a].pc = "replay", ![a].events = Reread(events, k)]
          /\ admin[a].pc = "deleted"
    BY <1>8 DEF RebuildReads
  <2>2. PICK e : e = Reread(events, k)
    OBVIOUS
  <2>3. /\ admin'[a].events = e /\ admin'[a].seen = admin[a].seen
        /\ b # a => admin'[b] = admin[b]
    BY <1>1, <2>1, <2>2 DEF Act, Typed
  <2>4. QED BY <1>1, <1>8, <2>1, <2>2, <2>3
<1>9. QED BY <1>3, <1>4, <1>5, <1>6, <1>7, <1>8 DEF Administer

LEMMA StepEventsBounded ==
  Typed /\ Counts /\ RowsBounded /\ Dated /\ EventsBounded /\ [Next]_vars => EventsBounded'
<1> SUFFICES ASSUME Typed, Counts, RowsBounded, Dated, EventsBounded, [Next]_vars
             PROVE  EventsBounded'
  OBVIOUS
<1>1. CASE UNCHANGED <<pushes, events, admin, incident>>
  BY <1>1 DEF EventsBounded
<1>2. CASE \/ Tick \/ ReadSettings \/ ReadRevision \/ ReadState \/ WriteState \/ FindIncident
           \/ PushAborts \/ UNCHANGED vars
  BY <1>1, <1>2, PushFrame DEF Tick, vars, worldVars, tables
<1>3. ASSUME NEW a \in Admins, Administer(a)
      PROVE  EventsBounded'
  <2>1. UNCHANGED <<pushes, events>> /\ pushes \in Nat /\ events \in Seq(Event)
    BY <1>3, AdministerFrame DEF Typed
  <2>2. ASSUME NEW b \in Admins, NEW k \in DOMAIN admin'[b].events
        PROVE  admin'[b].events[k].time <= pushes /\ admin'[b].events[k].since <= pushes
    <3>1. CASE admin'[b].events = admin[b].events
      BY <2>2, <3>1 DEF EventsBounded
    <3>2. ASSUME NEW j \in 0 .. Len(events), admin'[b].events = Reread(events, j)
          PROVE  admin'[b].events[k].time <= pushes /\ admin'[b].events[k].since <= pushes
      <4>1. k \in 1 .. Len(events) - j /\ k \in Nat
        BY <2>1, <2>2, <3>2, RereadEvents
      <4>2. /\ Reread(events, j)[k].time = events[j + k].time
            /\ Reread(events, j)[k].since = events[j + k].time
        BY <2>1, <4>1, RereadEvents
      <4>3. j + k \in DOMAIN events
        BY <2>1, <4>1
      <4>4. /\ events[j + k].time <= pushes
        BY <2>1, <4>3 DEF EventsBounded
      <4>5. QED BY <3>2, <4>2, <4>4
    <3>3. CASE admin'[b].events = <<>>
      BY <2>2, <3>3
    <3>4. QED BY <1>3, <3>1, <3>2, <3>3, ActFields
  <2>3. incident'.since \in 0 .. pushes
    <3>1. CASE incident' \in {incident, NoIncident}
      BY <2>1, <3>1 DEF EventsBounded, NoIncident
    <3>2. CASE incident' = [id |-> lastId + 1, since |-> Replay(admin[a].events)]
      <4>1. admin[a].events \in Seq(Event)
        BY DEF Typed, Act
      <4>2. \A k \in DOMAIN admin[a].events : /\ admin[a].events[k].time <= pushes
                                              /\ admin[a].events[k].since <= pushes
        BY DEF EventsBounded
      <4>3. Replay(admin[a].events) \in 0 .. pushes
        BY <2>1, <4>1, <4>2, ReplayBounded
      <4>4. QED BY <3>2, <4>3
    <3>3. CASE SaveEnds(a)
      BY <1>3, <3>1, <3>3, SaveClears
    <3>4. CASE RebuildEnds(a)
      <4>1. \/ incident' = [id |-> lastId + 1, since |-> Replay(admin[a].events)]
            \/ incident' \in {incident, NoIncident}
        BY <3>4 DEF RebuildEnds, Replay
      <4>2. QED BY <3>1, <3>2, <4>1
    <3>5. QED BY <1>3, <3>1, <3>3, <3>4, AdministerFrame
  <2>4. QED BY <2>1, <2>2, <2>3 DEF EventsBounded
<1>4. QED BY <1>2, <1>3, EndEventsBounded DEF Next, Push

-----------------------------------------------------------------------------
(* The ids of incidents: every push and every rebuild takes one at most, and *)
(* a rebuild that goes on has not taken its own.                             *)
IdsBounded ==
  /\ \E S : /\ S = {a \in Admins : admin[a].pc \in {"deleted", "replay"}}
            /\ IsFiniteSet(S) /\ lastId + Cardinality(S) <= pushes + acts
  /\ incident.id <= lastId /\ push.seen <= lastId
  /\ \A a \in Admins : admin[a].seen <= lastId

LEMMA InitIdsBounded == Init => IdsBounded
<1> SUFFICES ASSUME Init PROVE IdsBounded
  OBVIOUS
<1>1. /\ NoAct.pc = "idle" /\ NoAct.seen = 0 /\ NoPush.seen = 0 /\ NoIncident.id = 0
  BY DEF NoAct, NoPush, NoIncident
<1>2. /\ \A a \in Admins : admin[a] = NoAct
      /\ push = NoPush /\ incident = NoIncident /\ lastId = 0 /\ pushes = 0 /\ acts = 0
  BY DEF Init
<1>3. {a \in Admins : admin[a].pc \in {"deleted", "replay"}} = {}
  BY <1>1, <1>2
<1>4. IsFiniteSet({}) /\ Cardinality({}) = 0
  BY FS_EmptySet
<1>5. QED BY <1>1, <1>2, <1>3, <1>4 DEF IdsBounded

LEMMA PushIdsBounded ==
  ASSUME Typed, IdsBounded, Push \/ PushAborts
  PROVE  IdsBounded'
<1>1. /\ lastId \in Nat /\ pushes \in Nat /\ acts \in Nat /\ incident.id \in Nat
      /\ push.seen \in Nat /\ \A a \in Admins : admin[a].seen \in Nat
  BY DEF Typed, Pushes, Act
<1>2. PICK S : /\ S = {a \in Admins : admin[a].pc \in {"deleted", "replay"}}
               /\ IsFiniteSet(S) /\ lastId + Cardinality(S) <= pushes + acts
  BY DEF IdsBounded
<1>3. Cardinality(S) \in Nat
  BY <1>2, FS_CardinalityType
<1>4. NoPush.seen = 0 /\ NoIncident.id = 0
  BY DEF NoPush, NoIncident
<1>5. CASE EndQuietly \/ EndWithEvent
  <2>1. /\ pushes' = pushes + 1 /\ UNCHANGED <<acts, admin>> /\ push' = NoPush
    BY <1>5, EndFrame
  <2>2. \/ incident' \in {incident, NoIncident} /\ lastId' = lastId
        \/ incident'.id = lastId + 1 /\ lastId' = lastId + 1
    BY <1>5 DEF EndQuietly, EndWithEvent
  <2>3. /\ lastId' \in {lastId, lastId + 1} /\ incident'.id <= lastId'
        /\ lastId' + Cardinality(S) <= pushes' + acts
    BY <1>1, <1>2, <1>3, <1>4, <2>1, <2>2 DEF IdsBounded
  <2>4. \A a \in Admins : admin[a].seen <= lastId'
    BY <1>1, <2>3 DEF IdsBounded
  <2>5. S = {a \in Admins : admin'[a].pc \in {"deleted", "replay"}}
    BY <1>2, <2>1
  <2>6. push'.seen <= lastId'
    BY <1>1, <1>4, <2>1, <2>3
  <2>7. QED BY <1>2, <2>1, <2>3, <2>4, <2>5, <2>6 DEF IdsBounded
<1>6. CASE \/ ReadSettings \/ ReadRevision \/ ReadState \/ WriteState \/ FindIncident
           \/ PushAborts
  <2>1. UNCHANGED <<pushes, acts, incident, lastId, admin>>
    BY <1>6, PushFrame
  <2>2. push'.seen \in {0, push.seen, incident.id}
    BY <1>4, <1>6, PushSteps, Writing, Writes DEF PushAborts
  <2>3. push'.seen <= lastId
    BY <1>1, <2>2 DEF IdsBounded
  <2>4. QED BY <2>1, <2>3 DEF IdsBounded
<1>7. QED BY <1>5, <1>6 DEF Push

LEMMA AdministerIdsBounded ==
  ASSUME Typed, IdsBounded, NEW a \in Admins, Administer(a)
  PROVE  IdsBounded'
<1>1. /\ lastId \in Nat /\ pushes \in Nat /\ acts \in Nat /\ incident.id \in Nat
      /\ push.seen \in Nat /\ \A b \in Admins : admin[b].seen \in Nat
  BY DEF Typed, Pushes, Act
<1>2. PICK S : /\ S = {b \in Admins : admin[b].pc \in {"deleted", "replay"}}
               /\ IsFiniteSet(S) /\ lastId + Cardinality(S) <= pushes + acts
  BY DEF IdsBounded
<1>3. Cardinality(S) \in Nat
  BY <1>2, FS_CardinalityType
<1>4. PICK R : R = {b \in Admins : admin'[b].pc \in {"deleted", "replay"}}
  OBVIOUS
<1>5. UNCHANGED <<pushes, push>>
  BY AdministerFrame
<1>6. /\ IsFiniteSet(R) /\ lastId' + Cardinality(R) <= pushes + acts'
      /\ lastId' \in Nat /\ lastId <= lastId' /\ incident'.id <= lastId'
  <2>1. CASE RebuildDeletes(a)
    <3>1. acts' = acts + 1 /\ UNCHANGED <<incident, lastId>>
      BY <2>1 DEF RebuildDeletes, tables
    <3>2. R \in SUBSET (S \cup {a})
      BY <1>2, <1>4, ActFields
    <3>3. IsFiniteSet(S \cup {a}) /\ Cardinality(S \cup {a}) <= Cardinality(S) + 1
      <4>1. CASE a \in S
        <5>1. S \cup {a} = S
          BY <4>1
        <5>2. IsFiniteSet(S \cup {a}) /\ Cardinality(S \cup {a}) = Cardinality(S)
          BY <1>2, <5>1, Zenon
        <5>3. QED BY <1>3, <5>2
      <4>2. CASE a \notin S
        <5>1. IsFiniteSet(S \cup {a}) /\ Cardinality(S \cup {a}) = Cardinality(S) + 1
          BY <1>2, <4>2, FS_AddElement
        <5>2. QED BY <1>3, <5>1
      <4>3. QED BY <4>1, <4>2
    <3>4. /\ IsFiniteSet(R) /\ Cardinality(R) \in Nat /\ Cardinality(S \cup {a}) \in Nat
          /\ Cardinality(R) <= Cardinality(S \cup {a})
      BY <3>2, <3>3, FS_Subset, FS_CardinalityType
    <3>5. Cardinality(R) <= Cardinality(S) + 1
      BY <1>3, <3>3, <3>4
    <3>6. QED BY <1>1, <1>2, <1>3, <3>1, <3>4, <3>5 DEF IdsBounded
  <2>2. CASE RebuildEnds(a)
    <3>1. acts' = acts /\ admin[a].pc = "replay" /\ admin' = [admin EXCEPT ![a] = NoAct]
      BY <2>2 DEF RebuildEnds, worldVars
    <3>2. \/ incident' \in {incident, NoIncident} /\ lastId' = lastId
          \/ incident'.id = lastId + 1 /\ lastId' = lastId + 1
      BY <2>2 DEF RebuildEnds
    <3>3. R = S \ {a} /\ a \in S
      <4>1. admin'[a] = NoAct /\ \A b \in Admins : b # a => admin'[b] = admin[b]
        BY <3>1 DEF Typed
      <4>2. NoAct.pc = "idle"
        BY DEF NoAct
      <4>3. QED BY <1>2, <1>4, <3>1, <4>1, <4>2
    <3>4. IsFiniteSet(R) /\ Cardinality(R) = Cardinality(S) - 1
      BY <1>2, <3>3, FS_RemoveElement
    <3>5. NoIncident.id = 0
      BY DEF NoIncident
    <3>6. lastId' \in {lastId, lastId + 1} /\ incident'.id <= lastId'
      BY <1>1, <3>2, <3>5 DEF IdsBounded
    <3>7. QED BY <1>1, <1>2, <1>3, <3>1, <3>4, <3>6
  <2>3. CASE ~RebuildDeletes(a) /\ ~RebuildEnds(a)
    <3>1. lastId' = lastId /\ incident' \in {incident, NoIncident}
      BY <2>3, AdministerFrame, SaveClears
    <3>2. acts' \in {acts, acts + 1}
      BY <2>3, AdministerFrame DEF SaveBegins
    <3>3. R \in SUBSET S
      BY <1>2, <1>4, <2>3, ActFields
    <3>4. IsFiniteSet(R) /\ Cardinality(R) <= Cardinality(S) /\ Cardinality(R) \in Nat
      BY <1>2, <3>3, FS_Subset, FS_CardinalityType
    <3>5. NoIncident.id = 0
      BY DEF NoIncident
    <3>6. incident'.id <= lastId
      BY <1>1, <3>1, <3>5 DEF IdsBounded
    <3>7. QED BY <1>1, <1>2, <1>3, <3>1, <3>2, <3>4, <3>6
  <2>4. QED BY <2>1, <2>2, <2>3
<1>7. push'.seen <= lastId'
  BY <1>1, <1>5, <1>6 DEF IdsBounded
<1>8. ASSUME NEW b \in Admins PROVE admin'[b].seen <= lastId'
  <2>1. admin'[b].seen \in {0, incident.id, admin[b].seen}
    BY ActFields
  <2>2. QED BY <1>1, <1>6, <2>1 DEF IdsBounded
<1>9. QED BY <1>4, <1>5, <1>6, <1>7, <1>8 DEF IdsBounded

LEMMA StepIdsBounded == Typed /\ IdsBounded /\ [Next]_vars => IdsBounded'
<1> SUFFICES ASSUME Typed, IdsBounded, [Next]_vars PROVE IdsBounded'
  OBVIOUS
<1>1. CASE Tick \/ UNCHANGED vars
  <2>1. UNCHANGED <<pushes, acts, incident, lastId, push, admin>>
    BY <1>1 DEF Tick, vars, worldVars, tables
  <2>2. QED BY <2>1 DEF IdsBounded
<1>2. QED BY <1>1, PushIdsBounded, AdministerIdsBounded DEF Next


-----------------------------------------------------------------------------
(* The rest of the types: the fields of the incident, the settings under     *)
(* which pushes hit, and what a cleanup has left out.                        *)
Shaped ==
  /\ incident \in [id : Nat, since : Nat]
  /\ verdict \in [Buckets -> Nat] /\ \A b \in Buckets : verdict[b] <= acts + 1
  /\ forgotten \in BOOLEAN

LEMMA InitShaped == Init => Shaped
<1> SUFFICES ASSUME Init PROVE Shaped
  OBVIOUS
<1>1. incident \in [id : Nat, since : Nat]
  BY DEF Init, NoIncident
<1>2. verdict = [b \in Buckets |-> 0] /\ acts = 0
  BY DEF Init
<1>3. forgotten \in BOOLEAN
  BY DEF Init
<1>4. QED BY <1>1, <1>2, <1>3 DEF Shaped

(* What becomes of the mark of a cleanup that came too late for the start of *)
(* abuse.                                                                    *)
LEMMA ForgottenSteps ==
  ASSUME [Next]_vars
  PROVE  \/ UNCHANGED forgotten
         \/ EndWithEvent /\ forgotten' = (forgotten /\ Head(NewEvents).type # "started")
         \/ \E a \in Admins : RebuildEnds(a) /\ forgotten' = (forgotten \/ Forgets(a))
<1>1. CASE Tick \/ UNCHANGED vars \/ EndQuietly
  BY <1>1 DEF Tick, vars, historyVars, EndQuietly
<1>2. CASE ReadSettings \/ ReadRevision \/ ReadState \/ WriteState \/ FindIncident \/ PushAborts
  BY <1>2 DEF ReadSettings, ReadRevision, ReadState, WriteState, FindIncident, PushAborts,
              historyVars
<1>3. CASE EndWithEvent
  BY <1>3 DEF EndWithEvent
<1>4. ASSUME NEW a \in Admins, RebuildEnds(a)
      PROVE  forgotten' = (forgotten \/ Forgets(a))
  BY <1>4 DEF RebuildEnds
<1>5. ASSUME NEW a \in Admins, Administer(a), ~RebuildEnds(a)
      PROVE  UNCHANGED forgotten
  BY <1>5 DEF Administer, SaveBegins, SaveChooses, SaveCloses, SaveEnds, RebuildDeletes,
              RebuildReads, AdminAborts, historyVars
<1>6. QED BY <1>1, <1>2, <1>3, <1>4, <1>5 DEF Next, Push

(* The incident is left alone, closed, or a new one.                         *)
LEMMA IncidentSteps ==
  ASSUME Typed, [Next]_vars
  PROVE  \/ incident' \in {incident, NoIncident} /\ lastId' = lastId
         \/ \E s : incident' = [id |-> lastId + 1, since |-> s] /\ lastId' = lastId + 1
<1>1. CASE Tick \/ UNCHANGED vars
  BY <1>1 DEF Tick, vars, tables
<1>2. CASE Push \/ PushAborts
  <2>1. CASE EndQuietly
    BY <2>1 DEF EndQuietly
  <2>2. CASE EndWithEvent
    BY <2>2 DEF EndWithEvent
  <2>3. CASE ~EndQuietly /\ ~EndWithEvent
    BY <1>2, <2>3, PushFrame DEF Push
  <2>4. QED BY <2>1, <2>2, <2>3
<1>3. ASSUME NEW a \in Admins, Administer(a)
      PROVE  \/ incident' \in {incident, NoIncident} /\ lastId' = lastId
             \/ \E s : incident' = [id |-> lastId + 1, since |-> s] /\ lastId' = lastId + 1
  <2>1. CASE SaveEnds(a)
    BY <2>1, SaveClears DEF SaveEnds
  <2>2. CASE RebuildEnds(a)
    BY <2>2 DEF RebuildEnds
  <2>3. CASE ~SaveEnds(a) /\ ~RebuildEnds(a)
    BY <1>3, <2>3, AdministerFrame
  <2>4. QED BY <2>1, <2>2, <2>3
<1>4. QED BY <1>1, <1>2, <1>3 DEF Next

LEMMA StepShaped ==
  ASSUME Typed, Counts, Shaped, [Next]_vars, Typed', Counts', EventsBounded'
  PROVE  Shaped'
<1>1. incident' \in [id : Nat, since : Nat]
  <2>1. incident'.id \in Nat /\ incident'.since \in Nat /\ NoIncident \in [id : Nat, since : Nat]
    BY DEF Typed, EventsBounded, NoIncident
  <2>2. CASE incident' \in {incident, NoIncident}
    BY <2>1, <2>2 DEF Shaped
  <2>3. ASSUME NEW s, incident' = [id |-> lastId + 1, since |-> s]
        PROVE  incident' \in [id : Nat, since : Nat]
    <3>1. incident'.id = lastId + 1 /\ incident'.since = s
      BY <2>3
    <3>2. lastId + 1 \in Nat /\ s \in Nat
      BY <2>1, <3>1
    <3>3. QED BY <2>3, <3>2
  <2>4. QED BY <2>2, <2>3, IncidentSteps
<1>2. verdict' \in [Buckets -> Nat] /\ \A b \in Buckets : verdict'[b] <= acts' + 1
  <2>1. CASE UNCHANGED <<verdict, acts>>
    BY <2>1 DEF Shaped
  <2>2. CASE EndQuietly \/ EndWithEvent
    <3>1. acts' = acts /\ verdict' = [verdict EXCEPT ![push.bucket] =
                                       IF push.row.cycles > 0 THEN push.policy.settings ELSE 0]
      BY <2>2, EndFrame
    <3>2. push.policy.settings \in Nat /\ push.policy.settings <= acts + 1 /\ acts \in Nat
      BY DEF Typed, Pushes, Policy, Counts
    <3>3. PICK v : v = IF push.row.cycles > 0 THEN push.policy.settings ELSE 0
      OBVIOUS
    <3>4. v \in Nat /\ v <= acts' + 1 /\ verdict' = [verdict EXCEPT ![push.bucket] = v]
      BY <3>1, <3>2, <3>3
    <3>5. \A b \in Buckets : verdict[b] \in Nat /\ verdict[b] <= acts' + 1
      BY <3>1 DEF Shaped
    <3>6. QED BY <3>4, <3>5 DEF Shaped
  <2>3. ASSUME NEW a \in Admins, Administer(a)
        PROVE  verdict' \in [Buckets -> Nat] /\ \A b \in Buckets : verdict'[b] <= acts' + 1
    <3>1. verdict' = verdict /\ acts \in Nat /\ acts' \in Nat /\ acts <= acts'
      BY <2>3, AdministerFrame, AdministerCounts DEF Typed
    <3>2. ASSUME NEW b \in Buckets PROVE verdict[b] <= acts' + 1
      <4>1. verdict[b] \in Nat /\ verdict[b] <= acts + 1
        BY DEF Shaped
      <4>2. QED BY <3>1, <4>1
    <3>3. QED BY <3>1, <3>2 DEF Shaped
  <2>4. CASE Tick \/ UNCHANGED vars
    BY <2>1, <2>4 DEF Tick, vars, worldVars, historyVars
  <2>5. QED BY <2>1, <2>2, <2>3, <2>4, PushFrame DEF Next, Push
<1>3. forgotten' \in BOOLEAN
  BY ForgottenSteps DEF Shaped, Forgets
<1>4. QED BY <1>1, <1>2, <1>3 DEF Shaped

LEMMA StepDetails ==
  Typed /\ Counts /\ RowsBounded /\ Dated /\ EventsBounded /\ Shaped /\ [Next]_vars
    /\ Typed' /\ Counts'
    => (Dated /\ EventsBounded /\ Shaped)'
<1> SUFFICES ASSUME Typed, Counts, RowsBounded, Dated, EventsBounded, Shaped, [Next]_vars,
                    Typed', Counts'
             PROVE  Dated' /\ EventsBounded' /\ Shaped'
  OBVIOUS
<1>1. Dated' BY StepDated
<1>2. EventsBounded' BY StepEventsBounded
<1>3. QED BY <1>1, <1>2, StepShaped

LEMMA RowsFit ==
  ASSUME Typed, Counts, RowsBounded, InStep
  PROVE  LET Rows == [flags : SUBSET Rules, since : 0 .. MaxPushes, cycles : 0 .. MaxBuckets,
                      bucket : 0 .. MaxBuckets, revision : 0 .. MaxActs + 1,
                      settings : 0 .. MaxActs + 1]
         IN \A r \in {row, push.before, push.row} : r \in Rows
<1>1. /\ bucket \in Nat /\ bucket <= MaxBuckets /\ acts \in Nat /\ acts <= MaxActs
      /\ pushes \in Nat /\ pushes <= MaxPushes
      /\ MaxBuckets \in Nat /\ MaxActs \in Nat /\ MaxPushes \in Nat
  BY BoundsAssumption DEF Typed, Counts, Buckets
<1>2. row \in Row /\ push.before \in Row /\ push.row \in Row
  BY DEF Typed, Pushes
<1>3. push.row.since <= MaxPushes
  <2>1. CASE push.pc = "idle"
    <3>1. push.row.since = 0
      BY <2>1 DEF InStep, NoRow
    <3>2. QED BY <1>1, <3>1
  <2>2. CASE push.pc # "idle"
    <3>1. pushes < MaxPushes /\ push.row.since <= pushes + 1 /\ push.row.since \in Nat
      BY <1>2, <2>2 DEF Counts, RowsBounded, Row
    <3>2. QED BY <1>1, <3>1
  <2>3. QED BY <2>1, <2>2
<1>4. ASSUME NEW r \in Row, Bounded(r), r.since <= MaxPushes
      PROVE  r \in [flags : SUBSET Rules, since : 0 .. MaxPushes, cycles : 0 .. MaxBuckets,
                    bucket : 0 .. MaxBuckets, revision : 0 .. MaxActs + 1,
                    settings : 0 .. MaxActs + 1]
  <2>1. /\ r.since \in Nat /\ r.cycles \in Nat /\ r.bucket \in Nat /\ r.revision \in Nat
        /\ r.settings \in Nat /\ r.flags \in SUBSET Rules
        /\ r = [flags |-> r.flags, since |-> r.since, cycles |-> r.cycles, bucket |-> r.bucket,
                revision |-> r.revision, settings |-> r.settings]
    BY DEF Row
  <2>2. /\ r.cycles <= r.bucket /\ r.bucket <= bucket
        /\ r.revision <= acts + 1 /\ r.settings <= acts + 1
    BY <1>4 DEF Bounded
  <2>3. /\ r.since \in 0 .. MaxPushes /\ r.cycles \in 0 .. MaxBuckets
        /\ r.bucket \in 0 .. MaxBuckets /\ r.revision \in 0 .. MaxActs + 1
        /\ r.settings \in 0 .. MaxActs + 1
    BY <1>1, <1>4, <2>1, <2>2
  <2>4. QED BY <2>1, <2>3
<1>5. row.since <= MaxPushes /\ push.before.since <= MaxPushes
  <2>1. /\ row.since \in Nat /\ push.before.since \in Nat
        /\ row.since <= pushes /\ push.before.since <= pushes
    BY <1>2 DEF Row, RowsBounded
  <2>2. QED BY <1>1, <2>1
<1>6. QED BY <1>2, <1>3, <1>4, <1>5 DEF RowsBounded

LEMMA Fits ==
  ASSUME Typed, Counts, RowsBounded, InStep, Streaks, Dated, EventsBounded, Shaped, IdsBounded
  PROVE  TypeOK
<1> DEFINE Policies == [revision : 1 .. MaxActs + 1, settings : 1 .. MaxActs + 1]
           Times == 0 .. MaxPushes
           Rows  == [flags : SUBSET Rules, since : Times, cycles : 0 .. MaxBuckets,
                     bucket : 0 .. MaxBuckets, revision : 0 .. MaxActs + 1,
                     settings : 0 .. MaxActs + 1]
           Ids   == 0 .. lastId
           Events == [type : {"started", "updated", "recovered"}, bucket : Buckets,
                      time : 1 .. pushes, since : 1 .. pushes]
<1>1. /\ bucket \in Nat /\ acts \in Nat /\ pushes \in Nat /\ lastId \in Nat
      /\ acts <= MaxActs /\ pushes <= MaxPushes
      /\ MaxBuckets \in Nat /\ MaxActs \in Nat /\ MaxPushes \in Nat
  BY BoundsAssumption DEF Typed, Counts
<1>2. bucket \in Buckets /\ pushes \in Times /\ acts \in 0 .. MaxActs
  BY <1>1 DEF Counts
<1>3. \A p \in Policy : p.revision \in 1 .. acts + 1 /\ p.settings \in 1 .. acts + 1
                          => p \in Policies
  BY <1>1 DEF Policy
<1>4. policy \in Policies /\ push.policy \in Policies
      /\ \A a \in Admins : admin[a].policy \in Policies
  <2>1. policy \in Policy /\ push.policy \in Policy /\ \A a \in Admins : admin[a].policy \in Policy
    BY DEF Typed, Pushes, Act
  <2> HIDE DEF Policies
  <2>2. QED BY <1>3, <2>1 DEF Counts
<1>5. row \in Rows /\ push.before \in Rows /\ push.row \in Rows
  BY RowsFit
<1>6. row.cycles <= row.bucket
  BY DEF RowsBounded, Bounded
<1>7. Len(events) <= pushes /\ \A i \in 1 .. Len(events) : events[i] \in Events
  <2>1. events \in Seq(Event) /\ Len(events) <= pushes
    BY DEF Typed, EventsBounded
  <2>2. ASSUME NEW i \in 1 .. Len(events) PROVE events[i] \in Events
    <3>1. i \in DOMAIN events /\ events[i] \in Event
      BY <2>1
    <3>2. /\ events[i].time \in 1 .. pushes /\ events[i].since \in 1 .. pushes
          /\ events[i].bucket \in Buckets
      BY <3>1 DEF EventsBounded
    <3>3. QED BY <3>1, <3>2 DEF Event
  <2>3. QED BY <2>1, <2>2
<1>8. incident \in [id : Ids, since : Times]
  <2>1. incident \in [id : Nat, since : Nat] /\ incident.id <= lastId
        /\ incident.since \in 0 .. pushes
    BY DEF Shaped, IdsBounded, EventsBounded
  <2>2. QED BY <1>1, <2>1
<1>9. lastId \in 0 .. MaxPushes + MaxActs
  <2>1. PICK S : IsFiniteSet(S) /\ lastId + Cardinality(S) <= pushes + acts
    BY DEF IdsBounded
  <2>2. Cardinality(S) \in Nat
    BY <2>1, FS_CardinalityType
  <2>3. QED BY <1>1, <2>1, <2>2
<1>10. /\ push.pc \in {"idle", "settings", "policy", "before", "written", "found"}
       /\ push.bucket \in 0 .. bucket /\ push.seen \in Ids
  <2>1. push.pc \in Steps /\ push.bucket \in Nat /\ push.seen \in Nat
    BY DEF Typed, Pushes
  <2>2. push.bucket <= bucket /\ push.seen <= lastId
    BY DEF Counts, IdsBounded
  <2>3. QED BY <1>1, <2>1, <2>2 DEF Steps
<1>11. ASSUME NEW a \in Admins
       PROVE  /\ admin[a].pc \in {"idle", "read", "chosen", "closed", "deleted", "replay"}
              /\ admin[a].seen \in Ids
  <2>1. /\ admin[a].pc \in {"idle", "read", "chosen", "closed", "deleted", "replay"}
        /\ admin[a].seen \in Nat
    BY DEF Typed, Act
  <2>2. QED BY <1>1, <2>1 DEF IdsBounded
<1>12. verdict \in [Buckets -> 0 .. MaxActs + 1] /\ superseded \subseteq Buckets
  <2>1. ASSUME NEW b \in Buckets PROVE verdict[b] \in 0 .. MaxActs + 1
    <3>1. verdict[b] \in Nat /\ verdict[b] <= acts + 1
      BY DEF Shaped
    <3>2. QED BY <1>1, <3>1
  <2>2. QED BY <2>1 DEF Shaped, Streaks
<1>13. raced \in BOOLEAN /\ forgotten \in BOOLEAN
  BY DEF Typed, Shaped
<1> HIDE DEF Policies, Times, Rows, Ids, Events
<1>14. /\ bucket \in Buckets /\ pushes \in Times /\ acts \in 0 .. MaxActs
       /\ policy \in Policies /\ row \in Rows /\ row.cycles <= row.bucket
       /\ Len(events) <= pushes /\ \A i \in 1 .. Len(events) : events[i] \in Events
       /\ incident \in [id : Ids, since : Times] /\ lastId \in 0 .. MaxPushes + MaxActs
       /\ push.pc \in {"idle", "settings", "policy", "before", "written", "found"}
       /\ push.bucket \in 0 .. bucket /\ push.policy \in Policies
       /\ {push.before, push.row} \subseteq Rows /\ push.seen \in Ids
       /\ \A a \in Admins :
            /\ admin[a].pc \in {"idle", "read", "chosen", "closed", "deleted", "replay"}
            /\ admin[a].policy \in Policies /\ admin[a].seen \in Ids
       /\ verdict \in [Buckets -> 0 .. MaxActs + 1] /\ superseded \subseteq Buckets
       /\ raced \in BOOLEAN /\ forgotten \in BOOLEAN
  BY <1>2, <1>4, <1>5, <1>6, <1>7, <1>8, <1>9, <1>10, <1>11, <1>12, <1>13
<1>15. QED BY <1>14 DEF TypeOK, Policies, Times, Rows, Ids, Events

(* The variables take the values of their types: the ids that incidents get  *)
(* stay below the number of pushes and interventions, events are as many as  *)
(* pushes at most, and a streak is no longer than the buckets that passed.   *)
THEOREM TypeCorrect == Spec => []TypeOK
BY AlwaysSound, InitStreaks, StepStreaks, InitDated, InitEventsBounded, InitShaped, StepDetails,
   InitIdsBounded, StepIdsBounded, Fits, PTL DEF Spec

-----------------------------------------------------------------------------
(* A sequence that goes on after another one by one value.                   *)
LEMMA AppendedIs ==
  ASSUME NEW S, NEW g \in Seq(S), NEW h \in Seq(S), NEW y \in S, NEW n \in Nat,
         Len(g) = n, Len(h) = n + 1, h[n + 1] = y, \A i \in 1 .. n : h[i] = g[i]
  PROVE  h = g \o <<y>>
<1> DEFINE gy == g \o <<y>>
<1>1. gy \in Seq(S) /\ Len(gy) = n + 1
  OBVIOUS
<1>2. gy[n + 1] = y /\ \A i \in 1 .. n : gy[i] = g[i]
  OBVIOUS
<1> HIDE DEF gy
<1>3. \A i \in 1 .. n + 1 : h[i] = gy[i]
  BY <1>2
<1>4. h \in [1 .. n + 1 -> S] /\ gy \in [1 .. n + 1 -> S]
  BY <1>1
<1>5. h = gy
  BY <1>3, <1>4
<1>6. QED BY <1>5 DEF gy

(* One more event, and a cleanup that reads it too, or nothing.              *)
LEMMA RereadAppend ==
  ASSUME NEW e \in Seq(Event), NEW x \in Event
  PROVE  /\ \A k \in 0 .. Len(e) :
              Reread(e \o <<x>>, k) = Reread(e, k) \o <<[x EXCEPT !.since = x.time]>>
         /\ Reread(e \o <<x>>, Len(e) + 1) = <<>>
<1> DEFINE f == e \o <<x>>
           y == [x EXCEPT !.since = x.time]
<1>1. /\ f \in Seq(Event) /\ Len(f) = Len(e) + 1 /\ Len(e) \in Nat
      /\ f[Len(e) + 1] = x /\ \A i \in 1 .. Len(e) : f[i] = e[i]
  OBVIOUS
<1>2. y \in Event
  BY DEF Event
<1> HIDE DEF f
<1>3. ASSUME NEW k \in 0 .. Len(e)
      PROVE  Reread(f, k) = Reread(e, k) \o <<y>>
  <2>1. k \in 0 .. Len(f)
    BY <1>1
  <2>2. /\ Reread(e, k) \in Seq(Event) /\ Len(Reread(e, k)) = Len(e) - k
        /\ \A i \in 1 .. Len(e) - k :
             Reread(e, k)[i] = [e[k + i] EXCEPT !.since = e[k + i].time]
    BY RereadEvents
  <2>3. /\ Reread(f, k) \in Seq(Event) /\ Len(Reread(f, k)) = Len(e) + 1 - k
        /\ \A i \in 1 .. Len(e) + 1 - k :
             Reread(f, k)[i] = [f[k + i] EXCEPT !.since = f[k + i].time]
    <3>1. f \in Seq(Event)
      BY <1>1
    <3>2. /\ Reread(f, k) \in Seq(Event) /\ Len(Reread(f, k)) = Len(f) - k
          /\ \A i \in 1 .. Len(f) - k :
               Reread(f, k)[i] = [f[k + i] EXCEPT !.since = f[k + i].time]
      BY <2>1, <3>1, RereadEvents
    <3>3. Len(f) = Len(e) + 1
      BY <1>1
    <3>4. QED BY <3>2, <3>3
  <2> DEFINE g == Reread(e, k)
             h == Reread(f, k)
  <2>4. ASSUME NEW i \in 1 .. Len(e) - k PROVE h[i] = g[i]
    <3>1. k + i \in 1 .. Len(e) /\ i \in 1 .. Len(e) + 1 - k
      BY <1>1
    <3>2. f[k + i] = e[k + i]
      BY <1>1, <3>1
    <3>3. h[i] = [f[k + i] EXCEPT !.since = f[k + i].time]
      BY <2>3, <3>1
    <3>4. g[i] = [e[k + i] EXCEPT !.since = e[k + i].time]
      BY <2>2
    <3>5. QED BY <3>2, <3>3, <3>4
  <2>5. h[Len(e) + 1 - k] = y
    <3>1. Len(e) + 1 - k \in 1 .. Len(e) + 1 - k /\ k + (Len(e) + 1 - k) = Len(e) + 1
      BY <1>1
    <3>2. h[Len(e) + 1 - k] = [f[Len(e) + 1] EXCEPT !.since = f[Len(e) + 1].time]
      BY <2>3, <3>1
    <3>3. QED BY <1>1, <3>2
  <2> HIDE DEF g, h, y
  <2>6. /\ g \in Seq(Event) /\ Len(g) = Len(e) - k
        /\ h \in Seq(Event) /\ Len(h) = Len(e) + 1 - k
    BY <2>2, <2>3 DEF g, h
  <2>7. h = g \o <<y>>
    <3>1. PICK n \in Nat : n = Len(e) - k /\ n + 1 = Len(e) + 1 - k
      BY <1>1
    <3>2. /\ Len(g) = n /\ Len(h) = n + 1 /\ h[n + 1] = y
          /\ \A i \in 1 .. n : h[i] = g[i]
      BY <2>4, <2>5, <2>6, <3>1
    <3>3. g \in Seq(Event) /\ h \in Seq(Event)
      BY <2>6
    <3>4. QED BY <1>2, <3>2, <3>3, AppendedIs
  <2>8. QED BY <2>7 DEF g, h
<1>4. Reread(f, Len(e) + 1) = <<>>
  <2>1. Len(e) + 1 \in 0 .. Len(f)
    BY <1>1
  <2>2. Reread(f, Len(e) + 1) \in Seq(Event) /\ Len(Reread(f, Len(e) + 1)) = Len(f) - (Len(e) + 1)
    BY <1>1, <2>1, RereadEvents
  <2>3. Len(f) - (Len(e) + 1) = 0
    BY <1>1
  <2>4. QED BY <2>2, <2>3
<1>5. QED BY <1>3, <1>4 DEF f

(* A replay that has read the event of that time yields it; another yields    *)
(* nothing, or a later one.                                                  *)
Renewed(e, k, since) ==
  /\ (\E i \in k + 1 .. Len(e) : e[i].time = since) => Replay(Reread(e, k)) = since
  /\ Replay(Reread(e, k)) = 0 \/ Replay(Reread(e, k)) >= since

LEMMA RenewedStarted ==
  ASSUME NEW e \in Seq(Event), NEW x \in Event, x.type = "started",
         \A i \in 1 .. Len(e) : e[i].time < x.time
  PROVE  \A k \in 0 .. Len(e \o <<x>>) : Renewed(e \o <<x>>, k, x.time)
<1> DEFINE f == e \o <<x>>
           y == [x EXCEPT !.since = x.time]
<1>1. /\ Len(f) = Len(e) + 1 /\ Len(e) \in Nat /\ x.time \in Nat
      /\ y \in Event /\ y.type = "started" /\ y.time = x.time
  BY DEF Event
<1>2. ASSUME NEW k \in 0 .. Len(e)
      PROVE  Replay(Reread(f, k)) = x.time
  <2>1. Reread(f, k) = Reread(e, k) \o <<y>> /\ Reread(e, k) \in Seq(Event)
    BY RereadAppend, RereadEvents
  <2> HIDE DEF y
  <2>2. Replay(Reread(e, k) \o <<y>>) = Applied(Replay(Reread(e, k)), y)
    BY <1>1, <2>1, ReplayAppend
  <2>3. QED BY <1>1, <2>1, <2>2, AppliedNew
<1>3. Replay(Reread(f, Len(e) + 1)) = 0
  BY RereadAppend, ReplayEmpty
<1> HIDE DEF f
<1>4. ASSUME NEW k \in 0 .. Len(f)
      PROVE  Renewed(f, k, x.time)
  <2>1. CASE k = Len(e) + 1
    <3>1. ~\E i \in k + 1 .. Len(f) : TRUE
      BY <1>1, <2>1
    <3>2. QED BY <1>3, <2>1, <3>1 DEF Renewed
  <2>2. CASE k # Len(e) + 1
    <3>1. k \in 0 .. Len(e)
      BY <1>1, <2>2
    <3>2. QED BY <1>1, <1>2, <3>1 DEF Renewed
  <2>3. QED BY <2>1, <2>2
<1>5. QED BY <1>4 DEF f

LEMMA RenewedUpdated ==
  ASSUME NEW e \in Seq(Event), NEW x \in Event, x.type = "updated",
         NEW since \in Nat, since > 0, x.time > since,
         \A k \in 0 .. Len(e) : Renewed(e, k, since)
  PROVE  \A k \in 0 .. Len(e \o <<x>>) : Renewed(e \o <<x>>, k, since)
<1> DEFINE f == e \o <<x>>
           y == [x EXCEPT !.since = x.time]
<1>1. /\ Len(f) = Len(e) + 1 /\ Len(e) \in Nat /\ x.time \in Nat
      /\ f[Len(e) + 1] = x /\ \A i \in 1 .. Len(e) : f[i] = e[i]
      /\ y \in Event /\ y.type = "updated" /\ y.since = x.time
  <2>1. x.time \in Nat /\ y \in Event /\ y.type = "updated" /\ y.since = x.time
    BY DEF Event
  <2>2. /\ Len(f) = Len(e) + 1 /\ Len(e) \in Nat
        /\ f[Len(e) + 1] = x /\ \A i \in 1 .. Len(e) : f[i] = e[i]
    OBVIOUS
  <2>3. QED BY <2>1, <2>2
<1>2. ASSUME NEW k \in 0 .. Len(e)
      PROVE  Replay(Reread(f, k)) = Applied(Replay(Reread(e, k)), y)
  <2>1. Reread(f, k) = Reread(e, k) \o <<y>> /\ Reread(e, k) \in Seq(Event)
    BY RereadAppend, RereadEvents
  <2> HIDE DEF y
  <2>2. QED BY <1>1, <2>1, ReplayAppend
<1>3. Replay(Reread(f, Len(e) + 1)) = 0
  BY RereadAppend, ReplayEmpty
<1> HIDE DEF f, y
<1>4. ASSUME NEW k \in 0 .. Len(f)
      PROVE  Renewed(f, k, since)
  <2>1. CASE k = Len(e) + 1
    <3>1. ~\E i \in k + 1 .. Len(f) : TRUE
      BY <1>1, <2>1
    <3>2. QED BY <1>3, <2>1, <3>1 DEF Renewed
  <2>2. CASE k # Len(e) + 1
    <3>1. k \in 0 .. Len(e)
      BY <1>1, <2>2
    <3>2. PICK v : v = Replay(Reread(e, k))
      OBVIOUS
    <3>3. /\ Replay(Reread(f, k)) = Applied(v, y)
          /\ (\E i \in k + 1 .. Len(e) : e[i].time = since) => v = since
          /\ v = 0 \/ v >= since
      BY <1>2, <3>1, <3>2 DEF Renewed
    <3>4. /\ v = 0 => Applied(v, y) = x.time
          /\ v # 0 => Applied(v, y) = v
      BY <1>1, AppliedNew
    <3>5. (\E i \in k + 1 .. Len(f) : f[i].time = since)
            => \E i \in k + 1 .. Len(e) : e[i].time = since
      BY <1>1, <3>1
    <3>6. CASE v = 0
      <4>1. ~\E i \in k + 1 .. Len(f) : f[i].time = since
        BY <3>3, <3>5, <3>6
      <4>2. Replay(Reread(f, k)) >= since
        BY <1>1, <3>3, <3>4, <3>6
      <4>3. QED BY <4>1, <4>2 DEF Renewed
    <3>7. CASE v # 0
      <4>1. Replay(Reread(f, k)) = v /\ v >= since
        BY <3>3, <3>4, <3>7
      <4>2. QED BY <3>3, <3>5, <4>1 DEF Renewed
    <3>8. QED BY <3>6, <3>7
  <2>3. QED BY <2>1, <2>2
<1>5. QED BY <1>4 DEF f

-----------------------------------------------------------------------------
(* As long as abuse under the policy in force lasts, a replay of the events  *)
(* yields its start, if the event it began with is replayed; what a cleanup  *)
(* has read to replay is the end of what is there when no push has overlapped*)
(* it; and the incident is open, of that start, unless a cleanup has left the*)
(* event out.                                                                *)
Recorded ==
  IF forgotten THEN incident.id = 0 \/ incident.since >= row.since
               ELSE incident.id # 0 /\ incident.since = row.since
Replays ==
  LET active == row.flags # {} /\ row.revision = policy.revision IN
  /\ active => \A k \in 0 .. Len(events) : Renewed(events, k, row.since)
  /\ ~raced => \A a \in Admins : admin[a].pc = "replay" =>
                 \E k \in 0 .. Len(events) : admin[a].events = Reread(events, k)
  /\ active /\ ~raced => Recorded

LEMMA InitReplays == Init => Replays
BY DEF Init, NoRow, NoAct, Replays

(* The push that leaves abuse under the policy in force has read the row it  *)
(* replaces, and dates its own from it unless abuse begins.                  *)
LEMMA EndsAbreast ==
  ASSUME Typed, Assessed, InStep, Dated, EndQuietly \/ EndWithEvent,
         row'.flags # {}, row'.revision = policy'.revision
  PROVE  /\ push.before = row /\ push.policy.revision = policy.revision
         /\ push.row.flags # {} /\ row' = push.row
         /\ row'.since = IF row.flags # {} /\ row.revision = policy.revision
                         THEN row.since ELSE pushes + 1
<1>1. /\ push.pc \in {"written", "found"} /\ row' = push.row /\ policy' = policy
  BY EndFrame
<1>2. push.policy.revision = policy.revision
  BY <1>1 DEF Assessed
<1>3. push.before = row
  BY <1>1, <1>2 DEF InStep
<1>4. QED BY <1>1, <1>2, <1>3 DEF Dated

LEMMA QuietReplays ==
  ASSUME Typed, Assessed, InStep, Dated, Replays, EndQuietly
  PROVE  Replays'
<1>1. /\ row' = push.row /\ UNCHANGED <<policy, events, incident, admin>>
      /\ raced' = (raced \/ CleaningUp) /\ NewEvents = <<>> /\ UNCHANGED forgotten
  BY EndFrame DEF EndQuietly
<1>2. ~raced' => ~raced /\ ~CleaningUp
  BY <1>1, Zenon
<1>3. ~raced' => \A a \in Admins : admin'[a].pc # "replay"
  BY <1>1, <1>2 DEF CleaningUp
<1>4. ASSUME row'.flags # {}, row'.revision = policy'.revision
      PROVE  /\ row.flags # {} /\ row.revision = policy.revision
             /\ row'.since = row.since
  <2>1. /\ push.before = row /\ push.policy.revision = policy.revision
        /\ push.row.flags # {} /\ row' = push.row
        /\ row'.since = IF row.flags # {} /\ row.revision = policy.revision
                        THEN row.since ELSE pushes + 1
    BY <1>4, EndsAbreast
  <2>2. ASSUME NEW x PROVE <<x>> # <<>>
    OBVIOUS
  <2>3. row.flags # {} /\ row.revision = policy.revision
    BY <1>1, <2>1, <2>2, NewEventsCases
  <2>4. QED BY <2>1, <2>3
<1>5. QED BY <1>1, <1>2, <1>3, <1>4 DEF Replays, Recorded

LEMMA EventReplays ==
  ASSUME Typed, Abreast, Assessed, RowsBounded, InStep, Dated, EventsBounded, Shaped, Replays,
         EndWithEvent
  PROVE  Replays'
<1>1. /\ row' = push.row /\ UNCHANGED <<policy, admin>> /\ push.pc = "found"
      /\ events' = events \o NewEvents
      /\ raced' = (CleaningUp \/ (raced /\ Head(NewEvents).type # "started"))
      /\ forgotten' = (forgotten /\ Head(NewEvents).type # "started")
  BY EndFrame, EndingWithEvent DEF EndWithEvent
<1>2. ~raced' => ~CleaningUp /\ (Head(NewEvents).type # "started" => ~raced)
  BY <1>1, Zenon
<1>3. ~raced' => \A a \in Admins : admin'[a].pc # "replay"
  BY <1>1, <1>2 DEF CleaningUp
<1>4. ASSUME row'.flags # {}, row'.revision = policy'.revision
      PROVE  /\ \A k \in 0 .. Len(events') : Renewed(events', k, row'.since)
             /\ ~raced' => Recorded'
  <2>1. /\ push.before = row /\ push.policy.revision = policy.revision
        /\ push.row.flags # {} /\ row' = push.row
        /\ row'.since = IF row.flags # {} /\ row.revision = policy.revision
                        THEN row.since ELSE pushes + 1
    BY <1>4, EndsAbreast
  <2>2. PICK e : e = events
    OBVIOUS
  <2>3. e \in Seq(Event) /\ lastId \in Nat /\ pushes \in Nat
    BY <2>2 DEF Typed
  <2>4. PICK x \in Event : NewEvents = <<x>> /\ x.time = pushes + 1 /\ x.since > 0
    BY <1>1, NewEventsBounded, FoundEvents
  <2>5. Head(NewEvents) = x /\ events' = e \o <<x>>
    BY <1>1, <2>2, <2>4
  <2>6. CASE ~(row.flags # {} /\ row.revision = policy.revision)
    <3>1. NewEvents = <<[type |-> "started", bucket |-> push.bucket, time |-> pushes + 1,
                         since |-> push.row.since]>>
      BY <2>1, <2>6, NewEventsCases
    <3>2. x.type = "started"
      BY <2>4, <3>1
    <3>3. Applied(0, x) = x.time
      BY <3>2, AppliedNew
    <3>4. incident' = [id |-> lastId + 1, since |-> x.time]
      BY <2>5, <3>2, <3>3, EndingWithEvent
    <3>5. incident'.id # 0 /\ incident'.since = pushes + 1
      BY <2>3, <2>4, <3>4
    <3>6. row'.since = x.time
      BY <2>1, <2>4, <2>6
    <3>7. \A i \in 1 .. Len(e) : e[i].time < x.time
      <4>1. ASSUME NEW i \in 1 .. Len(e) PROVE e[i].time <= pushes /\ e[i].time \in Nat
        <5>1. i \in DOMAIN events
          BY <2>2, <2>3
        <5>2. QED BY <2>2, <2>3, <5>1 DEF EventsBounded
      <4>2. QED BY <2>3, <2>4, <4>1
    <3>8. \A k \in 0 .. Len(events') : Renewed(events', k, row'.since)
      BY <2>3, <2>5, <3>2, <3>6, <3>7, RenewedStarted
    <3>9. Recorded'
      <4>1. forgotten' = FALSE
        BY <1>1, <2>5, <3>2
      <4>2. QED BY <2>4, <3>5, <3>6, <4>1 DEF Recorded
    <3>10. QED BY <3>8, <3>9
  <2>7. CASE row.flags # {} /\ row.revision = policy.revision
    <3>1. row'.since = row.since /\ row.since > 0 /\ row.since <= pushes /\ row.since \in Nat
      BY <2>1, <2>7 DEF RowsBounded, Bounded, Typed, Row
    <3>2. x.type = "updated" /\ x.since = row.since
      <4>1. push.row.flags # push.before.flags
        BY <1>1, <2>1, <2>7 DEF Dated
      <4>2. NewEvents = <<[type |-> "updated", bucket |-> push.bucket, time |-> pushes + 1,
                           since |-> push.row.since]>>
        BY <2>1, <2>7, <4>1, NewEventsCases
      <4>3. push.row.since = row.since
        BY <2>1, <3>1
      <4>4. QED BY <2>4, <4>2, <4>3
    <3>3. \A k \in 0 .. Len(e) : Renewed(e, k, row.since)
      BY <2>2, <2>7 DEF Replays
    <3>4. x.time > row.since
      BY <2>3, <2>4, <3>1
    <3>5. \A k \in 0 .. Len(events') : Renewed(events', k, row'.since)
      BY <2>3, <2>5, <3>1, <3>2, <3>3, <3>4, RenewedUpdated
    <3>6. ASSUME ~raced' PROVE Recorded'
      <4>1. ~raced /\ forgotten' = forgotten
        <5>1. ~raced
          BY <1>2, <2>5, <3>2, <3>6
        <5>2. forgotten' = (forgotten /\ TRUE)
          BY <1>1, <2>5, <3>2
        <5>3. forgotten \in BOOLEAN
          BY DEF Shaped
        <5>4. QED BY <5>1, <5>2, <5>3
      <4>2. Recorded /\ push.seen = incident.id
        BY <1>1, <2>7, <4>1 DEF Replays, Abreast
      <4>3. CASE push.seen = 0
        <5>1. incident' = [id |-> lastId + 1, since |-> row.since] /\ lastId + 1 # 0
          BY <2>3, <2>5, <3>2, <4>3, EndingWithEvent, AppliedNew
        <5>2. incident'.id # 0 /\ incident'.since = row.since
          BY <5>1
        <5>3. forgotten
          BY <4>2, <4>3 DEF Recorded
        <5>4. QED BY <3>1, <4>1, <5>2, <5>3 DEF Recorded
      <4>4. CASE push.seen # 0
        <5>1. incident' = incident
          BY <2>5, <3>2, <4>4, EndingWithEvent
        <5>2. QED BY <3>1, <4>1, <4>2, <5>1 DEF Recorded
      <4>5. QED BY <4>3, <4>4
    <3>7. QED BY <3>5, <3>6
  <2>8. QED BY <2>6, <2>7
<1>5. QED BY <1>3, <1>4 DEF Replays

LEMMA AdministerReplays ==
  ASSUME Typed, RowsBounded, Shaped, Replays, NEW a \in Admins, Administer(a)
  PROVE  Replays'
<1>1. UNCHANGED <<events, push>>
  BY AdministerFrame
<1>2. ~raced' => ~raced
  BY AdministerFrame, RebuildOverlaps
<1>3. ~raced' => \A b \in Admins : admin'[b].pc = "replay" =>
                   \E k \in 0 .. Len(events') : admin'[b].events = Reread(events', k)
  <2>1. ASSUME ~raced', NEW b \in Admins, admin'[b].pc = "replay"
        PROVE  \E k \in 0 .. Len(events) : admin'[b].events = Reread(events, k)
    <3>1. CASE admin[b].pc = "replay" /\ admin'[b].events = admin[b].events
      BY <1>2, <2>1, <3>1 DEF Replays
    <3>2. QED BY <2>1, <3>1, ActFields
  <2>2. QED BY <1>1, <2>1
<1>4. CASE SaveEnds(a)
  <2>1. row'.flags = {}
    BY <1>4, SaveFrame
  <2>2. QED BY <1>3, <2>1 DEF Replays
<1>5. CASE RebuildEnds(a)
  <2>1. UNCHANGED <<policy, row>>
    BY <1>5, RebuildOverlaps
  <2>2. ASSUME row.flags # {}, row.revision = policy.revision, ~raced'
        PROVE  Recorded'
    <3>1. PICK k \in 0 .. Len(events) : admin[a].events = Reread(events, k)
      BY <1>2, <1>5, <2>2 DEF RebuildEnds, Replays
    <3>2. /\ row.since > 0 /\ row.since \in Nat /\ lastId \in Nat /\ events \in Seq(Event)
          /\ forgotten \in BOOLEAN /\ incident.since \in Nat
      BY <2>2 DEF RowsBounded, Bounded, Typed, Row, Shaped
    <3>3. PICK v : v = Replay(admin[a].events)
      OBVIOUS
    <3>4. /\ (\E i \in k + 1 .. Len(events) : events[i].time = row.since) => v = row.since
          /\ v = 0 \/ v >= row.since
      BY <2>2, <3>1, <3>3 DEF Replays, Renewed
    <3>5. \/ v # 0 /\ incident' = [id |-> lastId + 1, since |-> v]
          \/ v = 0 /\ incident' \in {incident, NoIncident}
      BY <1>5, <3>3 DEF RebuildEnds, Replay
    <3>6. forgotten' = (forgotten \/ Forgets(a))
      BY <1>5 DEF RebuildEnds
    <3>7. CASE Forgets(a) \/ forgotten
      <4>1. forgotten' = TRUE
        BY <3>2, <3>6, <3>7 DEF Forgets
      <4>2. incident.id = 0 \/ incident.since >= row.since
        BY <1>2, <2>2, <3>2 DEF Replays, Recorded
      <4>3. incident'.id = 0 \/ incident'.since >= row.since
        BY <3>2, <3>4, <3>5, <4>2 DEF NoIncident
      <4>4. QED BY <2>1, <4>1, <4>3 DEF Recorded
    <3>8. CASE ~Forgets(a) /\ ~forgotten
      <4>1. forgotten' = FALSE
        BY <3>6, <3>8, Zenon
      <4>2. PICK i \in DOMAIN admin[a].events : admin[a].events[i].time = row.since
        BY <3>2, <3>8 DEF Forgets
      <4>3. i \in 1 .. Len(events) - k
        BY <3>1, <3>2, <4>2, RereadEvents
      <4>4. events[k + i].time = row.since
        <5>1. Reread(events, k)[i].time = events[k + i].time
          BY <3>2, <4>3, RereadEvents
        <5>2. QED BY <3>1, <4>2, <5>1
      <4>5. k + i \in k + 1 .. Len(events)
        BY <3>2, <4>3
      <4>6. incident' = [id |-> lastId + 1, since |-> row.since]
        BY <3>2, <3>4, <3>5, <4>4, <4>5
      <4>7. QED BY <2>1, <3>2, <4>1, <4>6 DEF Recorded
    <3>9. QED BY <3>7, <3>8
  <2>3. QED BY <1>1, <1>3, <2>1, <2>2 DEF Replays
<1>6. CASE ~SaveEnds(a) /\ ~RebuildEnds(a)
  <2>1. UNCHANGED <<policy, row, incident, raced>>
    BY <1>6, AdministerFrame
  <2>2. UNCHANGED forgotten
    BY <1>6 DEF Administer, SaveBegins, SaveChooses, SaveCloses, RebuildDeletes,
                RebuildReads, AdminAborts, historyVars
  <2>3. QED BY <1>1, <1>3, <2>1, <2>2 DEF Replays, Recorded
<1>7. QED BY <1>4, <1>5, <1>6

LEMMA StepReplays ==
  Typed /\ Abreast /\ Assessed /\ RowsBounded /\ InStep /\ Dated /\ EventsBounded /\ Shaped
    /\ Replays /\ [Next]_vars
    => Replays'
<1> SUFFICES ASSUME Typed, Abreast, Assessed, RowsBounded, InStep, Dated, EventsBounded, Shaped,
                    Replays, [Next]_vars
             PROVE  Replays'
  OBVIOUS
<1>1. CASE UNCHANGED <<policy, row, events, incident, admin, raced, forgotten>>
  BY <1>1 DEF Replays, Recorded
<1>2. CASE \/ Tick \/ ReadSettings \/ ReadRevision \/ ReadState \/ WriteState \/ FindIncident
           \/ PushAborts \/ UNCHANGED vars
  <2>1. UNCHANGED forgotten
    BY <1>2 DEF Tick, ReadSettings, ReadRevision, ReadState, WriteState, FindIncident,
                PushAborts, vars, historyVars
  <2>2. QED BY <1>1, <1>2, <2>1, PushFrame DEF Tick, vars, tables, historyVars
<1>3. QED BY <1>2, QuietReplays, EventReplays, AdministerReplays DEF Next, Push

(* However saves overlap it, and however often cleanups rebuild the          *)
(* incidents, a VM shown as abusive under the policy in force has an open    *)
(* incident, and both began with the same push; after a cleanup that came    *)
(* more than seven days after that push it has none, or one that begins      *)
(* later.  Only a cleanup that overlaps a push can break this, until abuse   *)
(* starts anew.                                                              *)
THEOREM AbuseIsRecorded == Spec => []AbuseRecorded
<1>1. Replays => AbuseRecorded
  BY DEF Replays, Recorded, AbuseRecorded, WasActive
<1>2. QED
  BY <1>1, AlwaysSound, InitDated, StepDated, InitEventsBounded, InitShaped, StepDetails,
     InitReplays, StepReplays, PTL DEF Spec
=============================================================================
