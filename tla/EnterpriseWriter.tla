-------------------------- MODULE EnterpriseWriter --------------------------
(***************************************************************************)
(* The Enterprise data plane: the web service writes every accepted push   *)
(* and every purge to a spool file, then adds it to a Redis stream; one    *)
(* writer takes messages from the stream and sweeps the spool, applies them*)
(* to TimescaleDB, acknowledges them and removes the file.  A message may  *)
(* thus arrive twice, late, and in any order.                              *)
(*                                                                         *)
(* One node that runs one VM: the code treats every node and VM by itself. *)
(* An agent that did not see its push accepted sends it again.             *)
(***************************************************************************)
EXTENDS Naturals, FiniteSets

CONSTANTS
  MaxFiles,    \* bound: messages accepted
  MaxTime,     \* bound: last push time
  MaxRetries,  \* BW_ENTERPRISE_MAX_RETRIES
  RetainAcked, \* BW_ENTERPRISE_STREAM_RETAIN_ACKED
  MaxFaults    \* bound: crashes and errors of Redis and PostgreSQL

ASSUME BoundsAssumption ==
  {MaxFiles, MaxFaults} \subseteq Nat /\ {MaxTime, MaxRetries, RetainAcked} \subseteq Nat \ {0}

Files == 1 .. MaxFiles
Times == 1 .. MaxTime

VARIABLES
  clock,
  message,    \* per file: the message it holds
  place,      \* per file: where it is
  accepted,   \* how many files there have been
  entry,      \* per message: its entry in the Redis stream
  failures,   \* per message: failed attempts from the stream
  spoolFails, \* per message: failed attempts from the spool, the .fail file
  receipts,   \* ingest_receipts: the push times of the node
  cutoff,     \* purge_tombstones, per scope
  vmRows,     \* per push time: how often its VM metrics are stored
  nodeRows,   \* per push time: how often its node metrics are stored
  current,    \* push times of vm_current and node_current, 0 without a row
  dead,       \* dead_letters
  writer,     \* what the writer does
  applied,    \* history: the messages that have been processed
  purged,     \* history, per scope: the highest cutoff ever applied
  faults

producerVars == <<clock, message, accepted>>
redisVars    == <<entry, failures>>
dbVars       == <<receipts, cutoff, vmRows, nodeRows, current, applied, purged>>
vars == <<producerVars, place, redisVars, spoolFails, dbVars, dead, writer, faults>>

-----------------------------------------------------------------------------
Scopes == {"vm", "node_vms", "node"}
Purges == {"purge_vm", "purge_node_vms", "purge_node"}

(* What a push says of the VM; "bad": PostgreSQL refuses a value of it. *)
Pushes == {"listed", "absent", "bad"}

ScopeOf == [purge_vm |-> "vm", purge_node_vms |-> "node_vms", purge_node |-> "node"]

NoMessage == [kind |-> "bad", time |-> 0]

(* via: the stream or the spool; file: the message it processes, 0 for none. *)
Resting == [pc |-> "idle", via |-> "stream", file |-> 0]

Later(s, t) == IF s > t THEN s ELSE t
Fault == faults < MaxFaults /\ faults' = faults + 1

Step(pc) == writer' = [writer EXCEPT !.pc = pc]
Rest     == writer' = Resting

Init ==
  /\ clock = 1 /\ accepted = 0
  /\ message = [f \in Files |-> NoMessage] /\ place = [f \in Files |-> "none"]
  /\ entry = [f \in Files |-> "none"]
  /\ failures = [f \in Files |-> 0] /\ spoolFails = [f \in Files |-> 0]
  /\ receipts = {} /\ cutoff = [s \in Scopes |-> 0] /\ purged = [s \in Scopes |-> 0]
  /\ vmRows = [t \in Times |-> 0] /\ nodeRows = [t \in Times |-> 0]
  /\ current = [vm |-> 0, node |-> 0]
  /\ dead = {} /\ applied = {} /\ writer = Resting /\ faults = 0

-----------------------------------------------------------------------------
(* The producer. *)

Tick ==
  /\ clock < MaxTime /\ clock' = clock + 1
  /\ UNCHANGED <<message, accepted, place, redisVars, spoolFails, dbVars, dead, writer, faults>>

(* A push, which may be late or a retry, or a purge, which bears the present *)
(* time: the atomic spool file, then xadd, unless Redis is down or the web   *)
(* worker dies first.                                                        *)
Accept ==
  LET f == accepted + 1 IN
  /\ accepted < MaxFiles /\ accepted' = f
  /\ \E m \in [kind : Pushes, time : 1 .. clock] \cup [kind : Purges, time : {clock}] :
       message' = [message EXCEPT ![f] = m]
  /\ place' = [place EXCEPT ![f] = "inbox"]
  /\ \E e \in {"unread", "none"} : entry' = [entry EXCEPT ![f] = e]
  /\ UNCHANGED <<clock, failures, spoolFails, dbVars, dead, writer, faults>>

-----------------------------------------------------------------------------
(* What the loop takes up.  It reads the stream in batches and sweeps the  *)
(* spool in the order of the push times; here any message may be the next.  *)

Take(via, f) ==
  writer.pc = "idle" /\ writer' = [pc |-> "process", via |-> via, file |-> f]

InState(state) == {f \in Files : entry[f] = state}

(* xreadgroup, which makes the oldest unread entry pending; xautoclaim of   *)
(* an entry that has been pending for long.                                 *)
TakeEntry(f) ==
  /\ \/ entry[f] = "pending"
     \/ entry[f] = "unread" /\ \A g \in InState("unread") : f <= g
  /\ Take("stream", f)
  /\ entry' = [entry EXCEPT ![f] = "pending"]
  /\ UNCHANGED <<producerVars, place, failures, spoolFails, dbVars, dead, faults>>

(* process_spool *)
TakeFile(f) ==
  /\ place[f] = "inbox" /\ Take("spool", f)
  /\ UNCHANGED <<producerVars, place, redisVars, spoolFails, dbVars, dead, faults>>

(* trim_stream.  With nothing pending it keeps the newest entries, whether  *)
(* or not they have been read; else it drops only what was acknowledged.    *)
TrimStream ==
  LET dropped == {f \in InState("unread") :
                    Cardinality({g \in InState("unread") : g > f}) >= RetainAcked} IN
  /\ writer.pc = "idle" /\ InState("pending") = {} /\ dropped # {}
  /\ entry' = [f \in Files |-> IF f \in dropped THEN "none" ELSE entry[f]]
  /\ UNCHANGED <<producerVars, place, failures, spoolFails, dbVars, dead, writer, faults>>

-----------------------------------------------------------------------------
(* The transaction of one message. *)

(* Mutant: a push of the very second of the purge passes. *)
BlockedAfter(scopes, t) == \E s \in scopes : cutoff[s] > t

Blocked(scopes, t) == \E s \in scopes : cutoff[s] >= t

(* Mutant: the receipt is written and its conflict ignored. *)
IngestAgain(kind, t) ==
  /\ receipts' = receipts \cup {t}
  /\ nodeRows' = [nodeRows EXCEPT ![t] = @ + 1]
  /\ vmRows' = IF kind = "listed" THEN [vmRows EXCEPT ![t] = @ + 1] ELSE vmRows
  /\ UNCHANGED <<cutoff, purged, current>>

(* Mutant: a push is dropped if a purge of its VMs covers it. *)
IngestWhole(kind, t) ==
  IF Blocked(Scopes, t) \/ t \in receipts
  THEN UNCHANGED <<receipts, cutoff, purged, vmRows, nodeRows, current>>
  ELSE /\ receipts' = receipts \cup {t}
       /\ nodeRows' = [nodeRows EXCEPT ![t] = @ + 1]
       /\ vmRows' = IF kind = "listed" THEN [vmRows EXCEPT ![t] = @ + 1] ELSE vmRows
       /\ current' = [node |-> t, vm |-> IF kind = "listed" THEN t ELSE 0]
       /\ UNCHANGED <<cutoff, purged>>

(* ingest: a push that a purge of the node covers, or whose receipt exists, *)
(* is dropped; one that a purge of its VMs covers is stored without them.   *)
(* The current rows take the push whether or not it is the newest; a        *)
(* complete inventory deletes the older row of an absent VM.                *)
Ingest(kind, t) ==
  IF Blocked({"node"}, t) \/ t \in receipts
  THEN UNCHANGED <<receipts, cutoff, purged, vmRows, nodeRows, current>>
  ELSE LET stored == kind = "listed" /\ ~Blocked({"vm", "node_vms"}, t) IN
       /\ receipts' = receipts \cup {t}
       /\ nodeRows' = [nodeRows EXCEPT ![t] = @ + 1]
       /\ vmRows' = IF stored THEN [vmRows EXCEPT ![t] = @ + 1] ELSE vmRows
       /\ current' = [node |-> t,
                      vm |-> IF stored THEN t ELSE IF current.vm < t THEN 0 ELSE current.vm]
       /\ UNCHANGED <<cutoff, purged>>

(* process_control: the tombstone, then every row of the VM or of the node, *)
(* older than the purge or not; a purged node loses its receipts as well.   *)
Purge(kind, t) ==
  /\ cutoff' = [cutoff EXCEPT ![ScopeOf[kind]] = Later(@, t)]
  /\ purged' = [purged EXCEPT ![ScopeOf[kind]] = Later(@, t)]
  /\ vmRows' = [u \in Times |-> 0]
  /\ IF kind = "purge_node"
     THEN /\ receipts' = {} /\ nodeRows' = [u \in Times |-> 0]
          /\ current' = [vm |-> 0, node |-> 0]
     ELSE current' = [current EXCEPT !.vm = 0] /\ UNCHANGED <<receipts, nodeRows>>

(* The commit.  The spool may hold the file no more: its entry is then read *)
(* from the stream alone.                                                   *)
Commit ==
  LET m == message[writer.file] IN
  /\ writer.pc = "process" /\ m.kind # "bad"
  /\ \/ /\ m.kind \in Purges /\ Purge(m.kind, m.time) /\ Step("refresh")
        /\ UNCHANGED applied
     \/ /\ m.kind \in Pushes /\ Ingest(m.kind, m.time) /\ Step("close")
        /\ applied' = applied \cup {writer.file}
  /\ UNCHANGED <<producerVars, place, redisVars, spoolFails, dead, faults>>

(* The aggregates of a purge are refreshed after its commit. *)
Refresh ==
  /\ writer.pc = "refresh"
  /\ \/ Step("close") /\ applied' = applied \cup {writer.file} /\ UNCHANGED faults
     \/ Fault /\ Step("fail") /\ UNCHANGED applied
  /\ UNCHANGED <<producerVars, place, redisVars, spoolFails, receipts, cutoff, vmRows,
                 nodeRows, current, purged, dead>>

(* Mutant: the file is removed whatever became of the transaction. *)
RefuseUnlinked ==
  /\ writer.pc = "process" /\ message[writer.file].kind = "bad"
  /\ place' = [place EXCEPT ![writer.file] = "gone"] /\ Rest
  /\ UNCHANGED <<producerVars, redisVars, spoolFails, dbVars, dead, faults>>

(* The transaction fails: for good, or because PostgreSQL is away.  From    *)
(* the spool the latter ends the pass and counts as no attempt.             *)
Refuse ==
  /\ writer.pc = "process"
  /\ \/ message[writer.file].kind = "bad" /\ Step("fail") /\ UNCHANGED faults
     \/ /\ message[writer.file].kind # "bad" /\ Fault
        /\ IF writer.via = "stream" THEN Step("fail") ELSE Rest
  /\ UNCHANGED <<producerVars, place, redisVars, spoolFails, dbVars, dead>>

(* Mutant: a failed attempt from the spool is not counted. *)
FailUncounted ==
  /\ writer.pc = "fail" /\ Rest
  /\ UNCHANGED <<producerVars, place, redisVars, spoolFails, dbVars, dead, faults>>

(* Mutant: the dead letter comes one attempt late. *)
FailLate ==
  /\ writer.pc = "fail" /\ writer.via = "stream"
  /\ failures' = [failures EXCEPT ![writer.file] = @ + 1]
  /\ IF failures[writer.file] >= MaxRetries THEN Step("bury") ELSE Rest
  /\ UNCHANGED <<producerVars, place, entry, spoolFails, dbVars, dead, faults>>

(* The attempt is counted; the last one goes on to the dead letter. *)
Fail ==
  LET counter == IF writer.via = "stream" THEN failures ELSE spoolFails
      count   == counter[writer.file] + 1
      capped  == IF count > MaxRetries THEN MaxRetries ELSE count
  IN /\ writer.pc = "fail"
     /\ IF writer.via = "stream"
        THEN failures' = [failures EXCEPT ![writer.file] = capped] /\ UNCHANGED spoolFails
        ELSE spoolFails' = [spoolFails EXCEPT ![writer.file] = capped] /\ UNCHANGED failures
     /\ IF count >= MaxRetries THEN Step("bury") ELSE Rest
     /\ UNCHANGED <<producerVars, place, entry, dbVars, dead, faults>>

(* The dead letter; if it cannot be stored the message stays where it is. *)
Bury ==
  /\ writer.pc = "bury"
  /\ \/ dead' = dead \cup {writer.file} /\ Step("discard") /\ UNCHANGED faults
     \/ Fault /\ Rest /\ UNCHANGED dead
  /\ UNCHANGED <<producerVars, place, redisVars, spoolFails, dbVars>>

MoveFile(to) == place' = [place EXCEPT ![writer.file] = IF @ = "inbox" THEN to ELSE @]

(* From the stream: xack, the counter, then the file.  From the spool: the  *)
(* file, then its counter.                                                  *)
Settle(from, to, final) ==
  /\ writer.pc = from
  /\ \/ /\ writer.via = "stream"
        /\ entry' = [entry EXCEPT ![writer.file] = "acked"]
        /\ failures' = [failures EXCEPT ![writer.file] = 0]
        /\ Step(to) /\ UNCHANGED <<place, spoolFails, faults>>
     \/ /\ writer.via = "spool"
        /\ MoveFile(final) /\ spoolFails' = [spoolFails EXCEPT ![writer.file] = 0]
        /\ Rest /\ UNCHANGED <<entry, failures, faults>>
  /\ UNCHANGED <<producerVars, dbVars, dead>>

Close   == Settle("close", "unlink", "gone")
Discard == Settle("discard", "move", "bad")

(* Redis does not answer the xack of a committed message: the loop leaves it. *)
RedisFails ==
  /\ writer.pc = "close" /\ writer.via = "stream" /\ Fault
  /\ \E e \in {"pending", "acked"} : entry' = [entry EXCEPT ![writer.file] = e]
  /\ Rest
  /\ UNCHANGED <<producerVars, place, failures, spoolFails, dbVars, dead>>

(* The file of a message that was taken from the stream. *)
Unlink ==
  /\ \/ writer.pc = "unlink" /\ MoveFile("gone")
     \/ writer.pc = "move" /\ MoveFile("bad")
  /\ Rest
  /\ UNCHANGED <<producerVars, redisVars, spoolFails, dbVars, dead, faults>>

(* The writer dies; what it was given stays pending until it is reclaimed. *)
Crash ==
  /\ writer.pc # "idle" /\ Fault
  /\ Rest
  /\ UNCHANGED <<producerVars, place, redisVars, spoolFails, dbVars, dead>>

Writing == Commit \/ Refresh \/ Refuse \/ Fail \/ Bury \/ Close \/ Discard \/ RedisFails \/ Unlink

Next ==
  \/ Tick \/ Accept
  \/ (\E f \in Files : TakeEntry(f) \/ TakeFile(f)) \/ TrimStream
  \/ Writing \/ Crash

(* systemd keeps the writer running and its loop comes to the sweep of the  *)
(* spool again and again, whatever the stream gives it to do.               *)
Fairness == WF_vars(Writing) /\ \A f \in Files : SF_vars(TakeFile(f))

Spec == Init /\ [][Next]_vars /\ Fairness

-----------------------------------------------------------------------------
(* The values the variables take. *)
TypeOK ==
  /\ clock \in Times /\ accepted \in 0 .. MaxFiles /\ faults \in 0 .. MaxFaults
  /\ message \in [Files -> [kind : Pushes \cup Purges, time : 0 .. MaxTime]]
  /\ place \in [Files -> {"none", "inbox", "gone", "bad"}]
  /\ entry \in [Files -> {"none", "unread", "pending", "acked"}]
  /\ failures \in [Files -> 0 .. MaxRetries] /\ spoolFails \in [Files -> 0 .. MaxRetries]
  /\ receipts \subseteq Times /\ dead \subseteq Files /\ applied \subseteq Files
  /\ cutoff \in [Scopes -> 0 .. MaxTime] /\ purged \in [Scopes -> 0 .. MaxTime]
  /\ vmRows \in [Times -> Nat] /\ nodeRows \in [Times -> Nat]
  /\ current \in [vm : 0 .. MaxTime, node : 0 .. MaxTime]
  /\ writer \in [pc : {"idle", "process", "refresh", "close", "unlink", "fail", "bury",
                       "discard", "move"},
                 via : {"stream", "spool"}, file : 0 .. accepted]

(* However often a push arrives, by the stream, the spool and the agent's    *)
(* retries, over crashes between commit and acknowledgement, its metrics are *)
(* stored at most once (ingest, the receipts).                               *)
StoredOnce == \A t \in Times : vmRows[t] <= 1 /\ nodeRows[t] <= 1

(* Once a purge is applied, no push of its time or before is stored again or *)
(* shown as current, in whatever order purges and pushes arrive; a purge     *)
(* that comes late does not lower the tombstone of one that came before      *)
(* (process_control, ingest).                                                *)
NoResurrection ==
  LET vmCut == Later(purged["node"], Later(purged["vm"], purged["node_vms"])) IN
  /\ \A s \in Scopes : cutoff[s] >= purged[s]
  /\ \A t \in Times : vmRows[t] > 0 => t > vmCut
  /\ \A t \in Times : nodeRows[t] > 0 => t > purged["node"]
  /\ current.vm # 0 => current.vm > vmCut
  /\ current.node # 0 => current.node > purged["node"]

(* A spool file leaves the inbox only when its message has been applied, or  *)
(* is kept as a dead letter (process_stream_entry, process_spool).           *)
NothingLost ==
  \A f \in Files : /\ place[f] = "gone" => f \in applied
                   /\ place[f] = "bad" => f \in dead

(* Stream, spool, retries, crashes, receipts and acknowledgements add up to  *)
(* what PurgeableStore promises: a push is taken for done only when its rows *)
(* are there or a purge covers it, a purge only when it is in force, and a   *)
(* file is let go of only after that or as a dead letter (ingest,            *)
(* process_control, process_stream_entry, process_spool).                    *)
Promise == INSTANCE PurgeableStore WITH
             Ids <- Files, known <- 1 .. accepted, barrier <- cutoff,
             waiting <- {f \in Files : place[f] = "inbox"}
ImplementsStore == Promise!Spec

(* Every message is applied or becomes a dead letter in the end, also one    *)
(* that never reached the stream, was trimmed from it unread, or was being   *)
(* processed by a writer that died (process_spool).                          *)
Drained == \A f \in Files : (place[f] = "inbox") ~> (place[f] # "inbox")
=============================================================================
