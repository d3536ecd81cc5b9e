----------------------- MODULE BandwidthConsumption -----------------------
(***************************************************************************)
(* The compact two-hour accounting of one node.  The Agent cuts the bytes  *)
(* of each payload into local buckets, moves a bucket whose end has passed *)
(* to a durable retry list and posts the oldest of that list once a cycle; *)
(* the Monitor upserts one row per bucket; administrators clear, purge and *)
(* expire rows.                                                            *)
(*                                                                         *)
(* Bucket k covers the ticks k * BucketSeconds up to the next multiple.    *)
(* One counter stands for the eight, which are cut alike.                  *)
(***************************************************************************)
EXTENDS Integers, FiniteSets, Functions, FiniteSetsExt

CONSTANTS
  PushSeconds,       \* PUSH_SECONDS
  BucketSeconds,     \* BANDWIDTH_CONSUMPTION_BUCKET_SECONDS
  Jitter,            \* bandwidth_consumption_jitter() of the node
  MaxPending,        \* BANDWIDTH_CONSUMPTION_MAX_PENDING
  RetentionSeconds,  \* V5030_BW_RETENTION_SECONDS
  TokenBound,        \* FALSE: API_TOKEN is not a global of app.py
  MaxClock,          \* bound: last tick
  MaxBytes,          \* bound: bytes of all payloads
  MaxFaults,         \* bound: restarts, crashes and losses of state.json
  MaxAdmin           \* bound: clears and purges

ASSUME ParametersAssumption ==
  /\ {PushSeconds, BucketSeconds, MaxPending} \subseteq Nat \ {0}
  /\ {Jitter, RetentionSeconds, MaxClock, MaxBytes, MaxFaults, MaxAdmin} \subseteq Nat
  /\ Jitter < PushSeconds /\ PushSeconds <= BucketSeconds
  /\ TokenBound \in BOOLEAN

VARIABLES
  clock,
  pc,         \* run_push_cycle: "idle", "accounted", "await"
  due,        \* when the next cycle may begin
  lastTime,   \* _last_payload_time, 0 if state.json is lost
  marker,     \* last_marker: <<time, interval>>, <<>> before the first cycle
  buckets,    \* the working accumulator: bucket -> record
  queue,      \* the retry list: bucket -> record, posted in order of the bucket
  requests,   \* POSTs on their way to the Monitor or in its handler
  reply,      \* what the connection the Agent waits on brought: none, ok, error
  rows,       \* node_bandwidth_consumption_2h of the node: bucket -> record
  epoch,      \* the acceptance epoch, 0 if never set
  clearing,   \* an administrator deleted the rows and has not set the epoch yet
  accounted,  \* history: bytes accounted since the first cycle
  final,      \* history: bucket -> the record it was first queued with
  overlap,    \* history: two payloads accounted for the same second
  dropped,    \* history: buckets trimmed from the retry list
  acked,      \* history: buckets the Agent let go of
  erased,     \* history: buckets the Monitor deleted or ignored
  raced,      \* history: a request was handled while the history was cleared
  faults, admins

agentVars   == <<pc, due, lastTime, marker, buckets, queue>>
monitorVars == <<rows, epoch, clearing>>
historyVars == <<accounted, final, overlap, dropped, acked, erased, raced>>
vars == <<clock, agentVars, requests, reply, monitorVars, historyVars, faults, admins>>

-----------------------------------------------------------------------------
BucketOf(t) == t \div BucketSeconds
StartOf(k)  == k * BucketSeconds
EndOf(k)    == (k + 1) * BucketSeconds

Larger(a, b)  == IF a > b THEN a ELSE b
Smaller(a, b) == IF a < b THEN a ELSE b

Empty == [k \in {} |-> 0]
Without(f, S) == [k \in DOMAIN f \ S |-> f[k]]

(* f with the records of g put over those of the same bucket. *)
Over(g, f) == [k \in DOMAIN g \cup DOMAIN f |-> IF k \in DOMAIN g THEN g[k] ELSE f[k]]

TotalBytes(f) == FoldFunction(LAMBDA a, b : a + b, 0, [k \in DOMAIN f |-> f[k].bytes])

Interval(now) ==
  IF lastTime > 0 /\ now > lastTime THEN now - lastTime ELSE PushSeconds

(* Bytes of a payload that fall to its first n ticks. *)
Cumulated(total, n, interval) == (total * n) \div interval

(* Mutant: the share of each segment is rounded by itself. *)
RoundedShare(total, from, to, interval) == Cumulated(total, to - from, interval)

(* Bytes that fall to the ticks between from and to: a difference of         *)
(* cumulated shares, so that the segments of a payload add up to its total.  *)
Share(total, from, to, interval) ==
  Cumulated(total, to, interval) - Cumulated(total, from, interval)

(* The accumulator after the segments of one payload were added. *)
Accumulated(start, end, total) ==
  LET from(k) == Larger(start, StartOf(k)) - start
      to(k)   == Smaller(end, EndOf(k)) - start
      old(k)  == IF k \in DOMAIN buckets THEN buckets[k] ELSE [bytes |-> 0, coverage |-> 0]
  IN Over([k \in BucketOf(start) .. BucketOf(end - 1) |->
             [bytes    |-> old(k).bytes + Share(total, from(k), to(k), end - start),
              coverage |-> Smaller(BucketSeconds, old(k).coverage + to(k) - from(k))]],
          buckets)

(* Mutant: a bucket is closed by the first payload that ends in it. *)
ClosedEarly(k) == StartOf(k) < clock

Closed(k) == EndOf(k) <= clock

(* Mutants: the list has no limit; the oldest are kept. *)
Unlimited(S) == S
Oldest(S) == {k \in S : Cardinality({j \in S : j < k}) < MaxPending}

(* The newest MaxPending of the buckets to send. *)
Newest(S) == {k \in S : Cardinality({j \in S : j > k}) < MaxPending}

-----------------------------------------------------------------------------
(* The first tick is PushSeconds: no interval reaches back before tick 0.    *)
Init ==
  /\ clock = PushSeconds
  /\ pc = "idle" /\ due = PushSeconds /\ lastTime = 0 /\ marker = <<>>
  /\ buckets = Empty /\ queue = Empty
  /\ requests = {} /\ reply = "none"
  /\ rows = Empty /\ epoch = 0 /\ clearing = FALSE
  /\ accounted = 0 /\ final = Empty /\ overlap = FALSE
  /\ dropped = {} /\ acked = {} /\ erased = {} /\ raced = FALSE
  /\ faults = 0 /\ admins = 0

Tick ==
  /\ clock < MaxClock
  /\ clock' = clock + 1
  /\ UNCHANGED <<agentVars, requests, reply, monitorVars, historyVars, faults, admins>>

(* collect_cycle_payload at a wall boundary, or later when the Monitor could *)
(* not be reached before: what account_bandwidth_consumption makes of it is  *)
(* saved together with the payload.  Counters read for the first time after  *)
(* state.json was lost have no delta.                                        *)
BeginCycle ==
  /\ pc = "idle" /\ clock >= due
  /\ pc' = "accounted"
  /\ due' = (clock \div PushSeconds + 1) * PushSeconds
  /\ lastTime' = clock
  /\ marker' = <<clock, Interval(clock)>>
  /\ UNCHANGED <<clock, requests, reply, monitorVars, acked, erased, raced, faults, admins>>

(* The first cycle after the installation only sets the baseline, and a      *)
(* payload of the same time and interval is not accounted again.             *)
AccountNothing ==
  /\ BeginCycle
  /\ marker \in {<<>>, marker'}
  /\ UNCHANGED <<buckets, queue, accounted, final, overlap, dropped>>

Account(total) ==
  /\ BeginCycle
  /\ marker \notin {<<>>, marker'}
  /\ lastTime = 0 => total = 0
  /\ LET start   == clock - Interval(clock)
         working == Accumulated(start, clock, total)
         closed  == {k \in DOMAIN working : Closed(k)}
         listed  == DOMAIN queue \cup closed
     IN /\ buckets' = Without(working,
                              closed \cup {k \in DOMAIN working : k < BucketOf(clock) - 1})
        /\ queue' = [k \in Newest(listed) |-> IF k \in closed THEN working[k] ELSE queue[k]]
        /\ final' = Over(final, [k \in closed |-> working[k]])
        /\ dropped' = dropped \cup (listed \ Newest(listed))
        /\ overlap' = (overlap \/ start < marker[1])
        /\ accounted' = accounted + total

(* Bound: past the last tick the cycles go on, with nothing to account. *)
CycleAtBound ==
  /\ pc = "idle" /\ clock = MaxClock /\ queue # Empty
  /\ pc' = "accounted"
  /\ UNCHANGED <<clock, due, lastTime, marker, buckets, queue, requests, reply,
                 monitorVars, historyVars, faults, admins>>

-----------------------------------------------------------------------------
(* send_bandwidth_consumption_pending: the oldest of the list, once its      *)
(* bucket's end and the node's jitter have passed.                           *)
Head == CHOOSE k \in DOMAIN queue : \A j \in DOMAIN queue : k <= j

Send ==
  /\ pc = "accounted" /\ queue # Empty
  /\ clock >= EndOf(Head) + Jitter
  /\ pc' = "await" /\ reply' = "none"
  /\ requests' = requests \cup
       {[bucket |-> Head, record |-> queue[Head], live |-> TRUE, stage |-> "sent"]}
  /\ UNCHANGED <<clock, due, lastTime, marker, buckets, queue, monitorVars, historyVars,
                 faults, admins>>

(* Nothing to send, a stop while waiting for the jitter, or a failed normal  *)
(* push.                                                                     *)
SendNothing ==
  /\ pc = "accounted"
  /\ pc' = "idle"
  /\ UNCHANGED <<clock, due, lastTime, marker, buckets, queue, requests, reply,
                 monitorVars, historyVars, faults, admins>>

Abandoned == {[r EXCEPT !.live = FALSE] : r \in requests}

(* Mutant: the head leaves the list once it was posted. *)
Posted ==
  /\ pc = "await"
  /\ pc' = "idle" /\ reply' = "none"
  /\ queue' = Without(queue, {Head})
  /\ acked' = acked \cup {Head}
  /\ UNCHANGED <<clock, due, lastTime, marker, buckets, requests, monitorVars, accounted,
                 final, overlap, dropped, erased, raced, faults, admins>>

(* A reply with "ok": the head leaves the list and runtime.json is saved. *)
Acknowledged ==
  /\ pc = "await" /\ reply = "ok"
  /\ pc' = "idle" /\ reply' = "none"
  /\ queue' = Without(queue, {Head})
  /\ acked' = acked \cup {Head}
  /\ UNCHANGED <<clock, due, lastTime, marker, buckets, requests, monitorVars, accounted,
                 final, overlap, dropped, erased, raced, faults, admins>>

(* An error status or a timeout: the bucket is kept.  The request may still  *)
(* be on its way, or in the handler.                                         *)
SendFails ==
  /\ pc = "await" /\ reply # "ok"
  /\ pc' = "idle" /\ reply' = "none"
  /\ requests' = Abandoned
  /\ UNCHANGED <<clock, due, lastTime, marker, buckets, queue, monitorVars, historyVars,
                 faults, admins>>

Fault == faults < MaxFaults /\ faults' = faults + 1

(* A stop or a crash, perhaps between the reply and the save; the new        *)
(* process begins with a cycle, after a crash RestartSec later.              *)
Restart(wait) ==
  /\ Fault
  /\ wait = 0 => pc = "idle"
  /\ pc' = "idle" /\ reply' = "none" /\ requests' = Abandoned
  /\ due' = clock + wait
  /\ UNCHANGED <<clock, lastTime, marker, buckets, queue, monitorVars, historyVars, admins>>

(* state.json, which is not flushed to disk, does not survive a power loss. *)
StateLost ==
  /\ Fault
  /\ pc' = "idle" /\ reply' = "none" /\ requests' = Abandoned
  /\ due' = clock + 1 /\ lastTime' = 0
  /\ UNCHANGED <<clock, marker, buckets, queue, monitorVars, historyVars, admins>>

-----------------------------------------------------------------------------
(* push_bandwidth_consumption.  The token is compared with API_TOKEN: where  *)
(* the name is not bound, Flask answers 500.                                 *)
Answer(r, answer) == reply' = IF r.live THEN answer ELSE reply

Unauthorized(r) ==
  /\ r.stage = "sent" /\ ~TokenBound
  /\ requests' = requests \ {r} /\ Answer(r, "error")
  /\ UNCHANGED <<clock, agentVars, monitorVars, historyVars, faults, admins>>

(* Mutant: the epoch is compared with the end of the bucket. *)
EndsBeforeEpoch(k) == epoch > 0 /\ EndOf(k) < epoch

(* The epoch is read in a transaction of its own. *)
BeforeEpoch(k) == epoch > 0 /\ StartOf(k) < epoch

ReadEpoch(r) ==
  /\ r.stage = "sent" /\ TokenBound
  /\ IF BeforeEpoch(r.bucket)
     THEN /\ requests' = requests \ {r} /\ Answer(r, "ok")
          /\ erased' = erased \cup {r.bucket}
     ELSE /\ requests' = (requests \ {r}) \cup {[r EXCEPT !.stage = "checked"]}
          /\ UNCHANGED <<reply, erased>>
  /\ UNCHANGED <<clock, agentVars, monitorVars, accounted, final, overlap, dropped, acked,
                 raced, faults, admins>>

(* Mutant: an INSERT without the ON CONFLICT clause. *)
InsertOnly(r) ==
  /\ r.stage = "checked"
  /\ rows' = Over(rows, [k \in {r.bucket} |-> r.record])
  /\ requests' = requests \ {r}
  /\ Answer(r, IF r.bucket \in DOMAIN rows THEN "error" ELSE "ok")
  /\ UNCHANGED <<clock, agentVars, epoch, clearing, historyVars, faults, admins>>

Upsert(r) ==
  /\ r.stage = "checked"
  /\ rows' = Over([k \in {r.bucket} |-> r.record], rows)
  /\ requests' = requests \ {r} /\ Answer(r, "ok")
  /\ UNCHANGED <<clock, agentVars, epoch, clearing, historyVars, faults, admins>>

(* The rows go in one transaction, the epoch is set in the next: rows that   *)
(* are there already, and requests past ReadEpoch, escape it.                *)
ClearHistory ==
  /\ admins < MaxAdmin /\ ~clearing
  /\ admins' = admins + 1 /\ clearing' = TRUE
  /\ rows' = Empty /\ erased' = erased \cup DOMAIN rows
  /\ UNCHANGED <<clock, agentVars, requests, reply, epoch, accounted, final, overlap,
                 dropped, acked, raced, faults>>

SetEpoch ==
  /\ clearing
  /\ clearing' = FALSE /\ epoch' = clock
  /\ raced' = (\/ raced \/ rows # Empty
               \/ \E r \in requests : r.stage = "checked")
  /\ UNCHANGED <<clock, agentVars, requests, reply, rows, accounted, final, overlap,
                 dropped, acked, erased, faults, admins>>

(* purge_node_data: no epoch, the node may report again. *)
PurgeNode ==
  /\ admins < MaxAdmin
  /\ admins' = admins + 1
  /\ rows' = Empty /\ erased' = erased \cup DOMAIN rows
  /\ UNCHANGED <<clock, agentVars, requests, reply, epoch, clearing, accounted, final,
                 overlap, dropped, acked, raced, faults>>

Expire ==
  LET old == {k \in DOMAIN rows : EndOf(k) <= clock - RetentionSeconds}
  IN /\ old # {}
     /\ rows' = Without(rows, old) /\ erased' = erased \cup old
     /\ UNCHANGED <<clock, agentVars, requests, reply, epoch, clearing, accounted, final,
                    overlap, dropped, acked, raced, faults, admins>>

-----------------------------------------------------------------------------
Cycle ==
  \/ AccountNothing \/ CycleAtBound
  \/ \E total \in 0 .. MaxBytes - accounted : Account(total)

Next ==
  \/ Tick \/ Cycle \/ Send \/ SendNothing \/ Acknowledged \/ SendFails
  \/ \E wait \in {0, 1} : Restart(wait)
  \/ StateLost
  \/ \E r \in requests : Unauthorized(r) \/ ReadEpoch(r) \/ Upsert(r)
  \/ ClearHistory \/ SetEpoch \/ PurgeNode \/ Expire

Spec == Init /\ [][Next]_vars

-----------------------------------------------------------------------------
BucketRecord == [bytes : Nat, coverage : 0 .. BucketSeconds]

(* Every variable holds a value of its type, and the retry list its bound.   *)
TypeOK ==
  /\ clock \in Nat /\ pc \in {"idle", "accounted", "await"} /\ due \in Nat
  /\ lastTime \in Nat /\ marker \in {<<>>} \cup (Nat \X (Nat \ {0}))
  /\ \A f \in {buckets, queue, rows, final} :
        DOMAIN f \subseteq Nat /\ Range(f) \subseteq BucketRecord
  /\ Cardinality(DOMAIN queue) <= MaxPending
  /\ \A r \in requests : r.record \in BucketRecord /\ r.live \in BOOLEAN
                         /\ r.stage \in {"sent", "checked"}
  /\ reply \in {"none", "ok", "error"} /\ epoch \in Nat /\ accounted \in Nat
  /\ {clearing, overlap, raced} \subseteq BOOLEAN
  /\ (dropped \cup acked \cup erased) \subseteq Nat

(* However a payload is cut at the bucket boundaries, no byte is invented or *)
(* lost: what was accounted is in the accumulator or in a closed bucket.     *)
BytesConserved ==
  ~overlap => accounted = TotalBytes(buckets) + TotalBytes(final)

(* A row of the Monitor is the record its bucket was closed with, whatever   *)
(* was resent, delivered late or delivered twice.                            *)
RowsFinal ==
  ~overlap => \A k \in DOMAIN rows : k \in DOMAIN final /\ rows[k] = final[k]

(* "A bucket is immutable once its local 2-hour end has passed": RowsFinal   *)
(* without its condition.                                                    *)
BucketsImmutable == \A k \in DOMAIN rows : rows[k] = final[k]

(* The Agent lets go of a bucket only when the Monitor has stored it, or     *)
(* ignored it, or it was deleted there since.                                *)
AckedStored == acked \subseteq DOMAIN rows \cup erased

(* A closed bucket is never forgotten: it is in the retry list, or was       *)
(* acknowledged, or was trimmed in favour of newer ones.                     *)
NoneForgotten ==
  ~overlap => /\ DOMAIN final \subseteq DOMAIN queue \cup acked \cup dropped
              /\ \A d \in dropped, k \in DOMAIN queue : d < k

(* A retry from before a reset does not bring back what the reset deleted,   *)
(* as long as no request was handled during the reset itself.                *)
ResetHolds ==
  ~raced /\ ~clearing => \A k \in DOMAIN rows : StartOf(k) >= epoch

(* A well-formed bucket with the right token is answered with "ok": the      *)
(* assertion of the integration test.                                        *)
ValidBucketAcknowledged == reply # "error"

-----------------------------------------------------------------------------
(* The Agent runs on, the normal push succeeds time and again, and neither   *)
(* the live request nor its answer loses to the timeout for ever.            *)
Fairness ==
  /\ WF_vars(Tick) /\ WF_vars(Cycle) /\ WF_vars(SendNothing) /\ WF_vars(SendFails)
  /\ WF_vars(SetEpoch) /\ SF_vars(Send) /\ SF_vars(Acknowledged)
  /\ SF_vars(\E r \in requests : r.live /\ ReadEpoch(r))
  /\ SF_vars(\E r \in requests : r.live /\ Upsert(r))

FairSpec == Spec /\ Fairness

(* A bucket that is due leaves the retry list: the head of the list does not *)
(* block it for ever.  (The bound stops the clock at MaxClock.)              *)
ListDrains ==
  \A k \in 0 .. BucketOf(MaxClock) :
    (k \in DOMAIN queue /\ EndOf(k) + Jitter <= MaxClock) ~> (k \notin DOMAIN queue)
=============================================================================
