----------------------- MODULE EnterpriseWriterProofs -----------------------
(***************************************************************************)
(* Theorems about EnterpriseWriter, for any number of messages, retries and*)
(* faults.                                                                 *)
(***************************************************************************)
EXTENDS EnterpriseWriter, TLAPS

Messages == [kind : Pushes \cup Purges, time : 0 .. MaxTime]
WriterSteps == {"idle", "process", "refresh", "close", "unlink", "fail", "bury", "discard",
                "move"}

LEMMA Numbers == /\ MaxFiles \in Nat /\ MaxTime \in Nat /\ MaxTime >= 1 /\ MaxRetries \in Nat
                 /\ MaxRetries >= 1 /\ MaxFaults \in Nat
                 /\ Files \subseteq Nat /\ Times \subseteq 0 .. MaxTime /\ 1 \in Times
BY BoundsAssumption DEF Files, Times

(* Messages are numbered in the order they are accepted, and the writer      *)
(* works on one of them, which bears a push time.                            *)
Known ==
  /\ \A f \in Files : f > accepted => place[f] = "none" /\ entry[f] = "none"
  /\ \A f \in Files : f <= accepted => message[f].time \in Times
  /\ writer.pc # "idle" => writer.file \in Files /\ writer.file <= accepted

LEMMA LaterType ==
  ASSUME NEW s \in 0 .. MaxTime, NEW t \in 0 .. MaxTime
  PROVE  Later(s, t) \in 0 .. MaxTime
BY DEF Later

LEMMA FaultType ==
  ASSUME faults \in 0 .. MaxFaults, Fault
  PROVE  faults' \in 0 .. MaxFaults
BY Numbers DEF Fault

(* Moving from step to step keeps the message at hand. *)
LEMMA StepEffect ==
  ASSUME TypeOK, NEW pc \in WriterSteps, Step(pc)
  PROVE  /\ writer'.pc = pc /\ writer'.via = writer.via /\ writer'.file = writer.file
         /\ writer' \in [pc : WriterSteps, via : {"stream", "spool"}, file : 0 .. accepted]
BY DEF TypeOK, Step, WriterSteps

LEMMA RestEffect ==
  ASSUME TypeOK, Rest
  PROVE  /\ writer'.pc = "idle"
         /\ writer' \in [pc : WriterSteps, via : {"stream", "spool"}, file : 0 .. accepted]
<1>1. accepted \in Nat
  BY Numbers DEF TypeOK
<1>2. QED
  BY <1>1 DEF Rest, Resting, WriterSteps

LEMMA TypeInit == Init => TypeOK /\ Known
<1> SUFFICES ASSUME Init
             PROVE  TypeOK /\ Known
  OBVIOUS
<1>1. 0 \in 0 .. MaxFiles /\ 0 \in 0 .. MaxFaults /\ 0 \in 0 .. MaxTime /\ 0 \in 0 .. MaxRetries
  BY Numbers
<1>2. NoMessage \in Messages
  BY <1>1 DEF NoMessage, Messages, Pushes
<1>3. TypeOK
  BY <1>1, <1>2, Numbers DEF Init, TypeOK, Resting, Messages
<1>4. Known
  BY Numbers DEF Init, Known, Resting, Files
<1>5. QED
  BY <1>3, <1>4

(* The producer: the clock and an accepted message. *)
LEMMA ProducerTypes ==
  ASSUME TypeOK, Known, Tick \/ Accept
  PROVE  TypeOK' /\ Known'
<1>1. CASE Tick
  <2>1. clock' \in Times
    BY <1>1, Numbers DEF Tick, TypeOK, Times
  <2>2. QED
    BY <1>1, <2>1 DEF Tick, TypeOK, Known, redisVars, dbVars
<1>2. CASE Accept
  <2> DEFINE f == accepted + 1
  <2>1. /\ f \in Files /\ accepted' = f /\ f \in 0 .. MaxFiles
        /\ f \in Nat /\ accepted \in Nat /\ 0 .. accepted \subseteq 0 .. f
    BY <1>2, Numbers DEF Accept, TypeOK, Files
  <2>2. PICK m \in [kind : Pushes, time : 1 .. clock] \cup [kind : Purges, time : {clock}] :
          message' = [message EXCEPT ![f] = m]
    BY <1>2 DEF Accept
  <2>3. m \in Messages /\ m.time \in Times
    <3>1. clock \in Times /\ 1 .. clock \subseteq Times
      BY Numbers DEF TypeOK, Times
    <3>2. m.kind \in Pushes \cup Purges /\ m.time \in Times
      BY <3>1
    <3>3. QED
      BY <3>2, Numbers DEF Messages
  <2>4. PICK e \in {"unread", "none"} : entry' = [entry EXCEPT ![f] = e]
    BY <1>2 DEF Accept
  <2>5. place' = [place EXCEPT ![f] = "inbox"]
        /\ UNCHANGED <<clock, failures, spoolFails, dbVars, dead, writer, faults>>
    BY <1>2 DEF Accept
  <2>6. message' \in [Files -> Messages]
    BY <2>2, <2>3 DEF TypeOK, Messages
  <2>7. TypeOK'
    <3>1. writer' \in [pc : WriterSteps, via : {"stream", "spool"}, file : 0 .. accepted']
      <4>1. writer.file \in 0 .. f
        BY <2>1 DEF TypeOK
      <4>2. QED
        BY <2>1, <2>5, <4>1 DEF TypeOK, WriterSteps
    <3>2. QED
      BY <2>1, <2>4, <2>5, <2>6, <3>1 DEF TypeOK, Messages, WriterSteps, dbVars
  <2>8. Known'
    <3>1. ASSUME NEW g \in Files
          PROVE  /\ g > f => g > accepted /\ g # f
                 /\ g <= f => g <= accepted \/ g = f
      BY <2>1, Numbers
    <3>2. ASSUME NEW g \in Files, g > f
          PROVE  place'[g] = "none" /\ entry'[g] = "none"
      BY <2>4, <2>5, <3>1, <3>2 DEF Known, TypeOK
    <3>3. ASSUME NEW g \in Files, g <= f
          PROVE  message'[g].time \in Times
      BY <2>2, <2>3, <3>1, <3>3 DEF Known, TypeOK
    <3>4. writer.pc # "idle" => writer.file \in Files /\ writer.file <= f
      BY <2>1, Numbers DEF Known
    <3>5. QED
      BY <2>1, <2>5, <3>2, <3>3, <3>4 DEF Known
  <2>9. QED
    BY <2>7, <2>8
<1>3. QED
  BY <1>1, <1>2

(* Taking a message up, and trimming the stream. *)
LEMMA TakeTypes ==
  ASSUME TypeOK, Known,
         (\E f \in Files : TakeEntry(f) \/ TakeFile(f)) \/ TrimStream
  PROVE  TypeOK' /\ Known'
<1>1. ASSUME NEW f \in Files, TakeEntry(f) \/ TakeFile(f)
      PROVE  TypeOK' /\ Known'
  <2>1. f <= accepted
    <3>1. place[f] # "none" \/ entry[f] # "none"
      BY <1>1 DEF TakeEntry, TakeFile
    <3>2. f \in Nat /\ accepted \in Nat
      BY Numbers DEF TypeOK
    <3>3. QED
      BY <3>1, <3>2 DEF Known
  <2>2. f \in 0 .. accepted
    BY <2>1, Numbers DEF TypeOK
  <2>3. PICK via \in {"stream", "spool"} :
          writer' = [pc |-> "process", via |-> via, file |-> f]
    BY <1>1 DEF TakeEntry, TakeFile, Take
  <2>4. entry' = entry \/ entry' = [entry EXCEPT ![f] = "pending"]
    BY <1>1 DEF TakeEntry, TakeFile, redisVars
  <2>5. UNCHANGED <<producerVars, place, failures, spoolFails, dbVars, dead, faults>>
    BY <1>1 DEF TakeEntry, TakeFile, redisVars
  <2>6. TypeOK'
    BY <2>2, <2>3, <2>4, <2>5 DEF TypeOK, producerVars, dbVars
  <2>7. Known'
    <3>1. ASSUME NEW g \in Files, g > accepted
          PROVE  entry'[g] = "none"
      <4>1. g # f
        BY <2>1, <3>1, Numbers DEF TypeOK
      <4>2. QED
        BY <2>4, <3>1, <4>1 DEF Known, TypeOK
    <3>2. QED
      BY <2>1, <2>3, <2>5, <3>1 DEF Known, producerVars
  <2>8. QED
    BY <2>6, <2>7
<1>2. CASE TrimStream
  <2>1. /\ entry' \in [Files -> {"none", "unread", "pending", "acked"}]
        /\ \A f \in Files : entry'[f] = entry[f] \/ entry'[f] = "none"
    BY <1>2 DEF TrimStream, TypeOK
  <2>2. UNCHANGED <<producerVars, place, failures, spoolFails, dbVars, dead, writer, faults>>
    BY <1>2 DEF TrimStream
  <2>3. QED
    BY <2>1, <2>2 DEF TypeOK, Known, producerVars, dbVars
<1>3. QED
  BY <1>1, <1>2

(* What the transaction writes. *)
LEMMA CommitTypes ==
  ASSUME TypeOK, Known, Commit
  PROVE  TypeOK' /\ Known'
<1> DEFINE m == message[writer.file]
<1>1. /\ writer.pc = "process" /\ writer.file \in Files /\ writer.file <= accepted
      /\ m \in Messages /\ m.time \in Times /\ m.time \in 0 .. MaxTime
  BY Numbers DEF Commit, Known, TypeOK, Messages
<1>2. UNCHANGED <<producerVars, place, redisVars, spoolFails, dead, faults>>
  BY DEF Commit
<1>3. CASE m.kind \in Purges /\ Purge(m.kind, m.time) /\ Step("refresh") /\ UNCHANGED applied
  <2>1. ScopeOf[m.kind] \in Scopes
    BY <1>3 DEF ScopeOf, Scopes, Purges
  <2>2. /\ cutoff' \in [Scopes -> 0 .. MaxTime] /\ purged' \in [Scopes -> 0 .. MaxTime]
    BY <1>1, <1>3, <2>1, LaterType DEF Purge, TypeOK
  <2>3. /\ vmRows' \in [Times -> Nat] /\ nodeRows' \in [Times -> Nat] /\ receipts' \subseteq Times
        /\ current' \in [vm : 0 .. MaxTime, node : 0 .. MaxTime]
    BY <1>3, Numbers DEF Purge, TypeOK
  <2>4. QED
    BY <1>1, <1>2, <1>3, <2>2, <2>3, StepEffect
       DEF TypeOK, Known, producerVars, redisVars, WriterSteps
<1>4. CASE m.kind \in Pushes /\ Ingest(m.kind, m.time) /\ Step("close")
           /\ applied' = applied \cup {writer.file}
  <2>1. UNCHANGED <<cutoff, purged>>
    BY <1>4 DEF Ingest
  <2>2. /\ receipts' \subseteq Times /\ vmRows' \in [Times -> Nat] /\ nodeRows' \in [Times -> Nat]
    <3>1. \/ UNCHANGED <<receipts, vmRows, nodeRows>>
          \/ /\ receipts' = receipts \cup {m.time}
             /\ nodeRows' = [nodeRows EXCEPT ![m.time] = @ + 1]
             /\ vmRows' = [vmRows EXCEPT ![m.time] = @ + 1] \/ vmRows' = vmRows
      BY <1>4 DEF Ingest
    <3>2. ASSUME NEW rows \in [Times -> Nat]
          PROVE  [rows EXCEPT ![m.time] = @ + 1] \in [Times -> Nat]
      BY <1>1
    <3>3. /\ receipts \subseteq Times /\ m.time \in Times
          /\ vmRows \in [Times -> Nat] /\ nodeRows \in [Times -> Nat]
      BY <1>1 DEF TypeOK
    <3>4. /\ [vmRows EXCEPT ![m.time] = @ + 1] \in [Times -> Nat]
          /\ [nodeRows EXCEPT ![m.time] = @ + 1] \in [Times -> Nat]
          /\ receipts \cup {m.time} \subseteq Times
      BY <3>2, <3>3
    <3> HIDE DEF m
    <3>5. QED
      BY <3>1, <3>3, <3>4
  <2>3. current' \in [vm : 0 .. MaxTime, node : 0 .. MaxTime]
    <3>1. \/ current' = current
          \/ \E v \in {m.time, 0, current.vm} : current' = [node |-> m.time, vm |-> v]
      BY <1>4 DEF Ingest
    <3>2. {m.time, 0, current.vm} \subseteq 0 .. MaxTime
      BY <1>1, Numbers DEF TypeOK
    <3>3. QED
      BY <1>1, <3>1, <3>2 DEF TypeOK
  <2>4. QED
    BY <1>1, <1>2, <1>4, <2>1, <2>2, <2>3, StepEffect
       DEF TypeOK, Known, producerVars, redisVars, WriterSteps
<1>5. QED
  BY <1>3, <1>4 DEF Commit

(* The rest of the writer's steps move entries, files and counters. *)
LEMMA WritingTypes ==
  ASSUME TypeOK, Known,
         Refresh \/ Refuse \/ Fail \/ Bury \/ Close \/ Discard \/ RedisFails \/ Unlink \/ Crash
  PROVE  /\ TypeOK' /\ Known'
         /\ UNCHANGED <<receipts, cutoff, vmRows, nodeRows, current, purged>>
<1>0. /\ writer.pc # "idle" /\ writer.file \in Files /\ writer.file <= accepted
  BY DEF Refresh, Refuse, Fail, Bury, Close, Discard, Settle, RedisFails, Unlink, Crash, Known
<1>1. UNCHANGED <<producerVars, receipts, cutoff, vmRows, nodeRows, current, purged>>
  BY DEF Refresh, Refuse, Fail, Bury, Close, Discard, Settle, RedisFails, Unlink, Crash, dbVars
<1>2. \/ writer'.pc = "idle" \/ writer'.file = writer.file
  <2>1. Rest \/ \E pc \in WriterSteps : Step(pc)
    BY DEF Refresh, Refuse, Fail, Bury, Close, Discard, Settle, RedisFails, Unlink, Crash,
           WriterSteps
  <2>2. QED
    BY <2>1, StepEffect, RestEffect
<1>3. writer' \in [pc : WriterSteps, via : {"stream", "spool"}, file : 0 .. accepted]
  <2>1. Rest \/ \E pc \in WriterSteps : Step(pc)
    BY DEF Refresh, Refuse, Fail, Bury, Close, Discard, Settle, RedisFails, Unlink, Crash,
           WriterSteps
  <2>2. QED
    BY <2>1, StepEffect, RestEffect
<1>4. faults' \in 0 .. MaxFaults
  <2>1. faults' = faults \/ Fault
    BY DEF Refresh, Refuse, Fail, Bury, Close, Discard, Settle, RedisFails, Unlink, Crash
  <2>2. QED
    BY <2>1, FaultType DEF TypeOK
<1>5. /\ entry' \in [Files -> {"none", "unread", "pending", "acked"}]
      /\ \A f \in Files : f > accepted => entry'[f] = "none"
  <2>1. entry' = entry \/ \E e \in {"pending", "acked"} : entry' = [entry EXCEPT ![writer.file] = e]
    BY DEF Refresh, Refuse, Fail, Bury, Close, Discard, Settle, RedisFails, Unlink, Crash,
           redisVars
  <2>2. \A f \in Files : f > accepted => f # writer.file
    BY <1>0, Numbers DEF TypeOK
  <2>3. QED
    BY <2>1, <2>2 DEF TypeOK, Known
<1>6. /\ place' \in [Files -> {"none", "inbox", "gone", "bad"}]
      /\ \A f \in Files : f > accepted => place'[f] = "none"
  <2>1. place' = place \/ \E to \in {"gone", "bad"} : MoveFile(to)
    BY DEF Refresh, Refuse, Fail, Bury, Close, Discard, Settle, RedisFails, Unlink, Crash
  <2>2. \A f \in Files : f > accepted => f # writer.file
    BY <1>0, Numbers DEF TypeOK
  <2>3. QED
    <3>1. ASSUME NEW to \in {"gone", "bad"}, MoveFile(to)
          PROVE  /\ place' \in [Files -> {"none", "inbox", "gone", "bad"}]
                 /\ \A f \in Files : f # writer.file => place'[f] = place[f]
      <4>1. place' = [place EXCEPT ![writer.file] = to] \/ place' = place
        BY <1>0, <3>1 DEF MoveFile, TypeOK
      <4>2. QED
        BY <4>1 DEF TypeOK
    <3>2. QED
      BY <2>1, <2>2, <3>1 DEF TypeOK, Known
<1>7. /\ failures' \in [Files -> 0 .. MaxRetries] /\ spoolFails' \in [Files -> 0 .. MaxRetries]
  <2>1. \/ UNCHANGED <<failures, spoolFails>>
        \/ failures' = [failures EXCEPT ![writer.file] = 0] /\ UNCHANGED spoolFails
        \/ spoolFails' = [spoolFails EXCEPT ![writer.file] = 0] /\ UNCHANGED failures
        \/ Fail
    BY DEF Refresh, Refuse, Bury, Close, Discard, Settle, RedisFails, Unlink, Crash, redisVars
  <2>2. CASE Fail
    <3> DEFINE Counted(n) == IF n + 1 > MaxRetries THEN MaxRetries ELSE n + 1
    <3>1. \A n \in 0 .. MaxRetries : Counted(n) \in 0 .. MaxRetries
      BY Numbers
    <3>2. CASE writer.via = "stream"
      <4>1. failures' = [failures EXCEPT ![writer.file] = Counted(failures[writer.file])]
            /\ UNCHANGED spoolFails
        BY <2>2, <3>2 DEF Fail
      <4>2. Counted(failures[writer.file]) \in 0 .. MaxRetries
        BY <1>0, <3>1 DEF TypeOK
      <4>3. QED
        BY <4>1, <4>2 DEF TypeOK
    <3>3. CASE writer.via # "stream"
      <4>1. spoolFails' = [spoolFails EXCEPT ![writer.file] = Counted(spoolFails[writer.file])]
            /\ UNCHANGED failures
        BY <2>2, <3>3 DEF Fail
      <4>2. Counted(spoolFails[writer.file]) \in 0 .. MaxRetries
        BY <1>0, <3>1 DEF TypeOK
      <4>3. QED
        BY <4>1, <4>2 DEF TypeOK
    <3>4. QED
      BY <3>2, <3>3
  <2>3. QED
    BY <2>1, <2>2, Numbers DEF TypeOK
<1>8. dead' \subseteq Files /\ applied' \subseteq Files
  <2>1. dead' = dead \/ dead' = dead \cup {writer.file}
    BY DEF Refresh, Refuse, Fail, Bury, Close, Discard, Settle, RedisFails, Unlink, Crash
  <2>2. applied' = applied \/ applied' = applied \cup {writer.file}
    BY DEF Refresh, Refuse, Fail, Bury, Close, Discard, Settle, RedisFails, Unlink, Crash, dbVars
  <2>3. QED
    BY <1>0, <2>1, <2>2 DEF TypeOK
<1>9. TypeOK'
  BY <1>1, <1>3, <1>4, <1>5, <1>6, <1>7, <1>8 DEF TypeOK, WriterSteps, producerVars
<1>10. Known'
  BY <1>0, <1>1, <1>2, <1>5, <1>6 DEF Known, producerVars
<1>11. QED
  BY <1>1, <1>9, <1>10

LEMMA TypeNext == TypeOK /\ Known /\ [Next]_vars => TypeOK' /\ Known'
<1> SUFFICES ASSUME TypeOK, Known, [Next]_vars
             PROVE  TypeOK' /\ Known'
  OBVIOUS
<1>1. CASE UNCHANGED vars
  BY <1>1 DEF vars, producerVars, redisVars, dbVars, TypeOK, Known
<1>2. QED
  BY <1>1, ProducerTypes, TakeTypes, CommitTypes, WritingTypes DEF Next, Writing

(* Every variable keeps its type: the counters stay below their limits and   *)
(* the writer works on messages that were accepted.                          *)
THEOREM TypeCorrect == Spec => []TypeOK
<1>1. QED
  BY TypeInit, TypeNext, PTL DEF Spec

-----------------------------------------------------------------------------
(* Steps that leave the database alone. *)
LEMMA Outside ==
  ASSUME TypeOK, Known, [Next]_vars, ~Commit
  PROVE  UNCHANGED <<receipts, cutoff, vmRows, nodeRows, current, purged>>
<1>1. CASE Tick \/ Accept
  BY <1>1 DEF Tick, Accept, dbVars
<1>2. CASE (\E f \in Files : TakeEntry(f) \/ TakeFile(f)) \/ TrimStream
  BY <1>2 DEF TakeEntry, TakeFile, TrimStream, dbVars
<1>3. CASE UNCHANGED vars
  BY <1>3 DEF vars, dbVars
<1>4. QED
  BY <1>1, <1>2, <1>3, WritingTypes DEF Next, Writing

(* A transaction stores a push, drops it, or purges. *)
LEMMA CommitEffect ==
  ASSUME TypeOK, Known, Commit
  PROVE  LET m == message[writer.file] IN
         /\ m.time \in Times
         /\ \/ m.kind \in Pushes /\ Ingest(m.kind, m.time)
            \/ m.kind \in Purges /\ Purge(m.kind, m.time)
BY DEF Commit, Known

(* Rows of a push exist only beside its receipt. *)
Receipted ==
  \A t \in Times : t \notin receipts => vmRows[t] = 0 /\ nodeRows[t] = 0

LEMMA StoredNext == TypeOK /\ Known /\ Receipted /\ StoredOnce /\ [Next]_vars
                      => Receipted' /\ StoredOnce'
<1> SUFFICES ASSUME TypeOK, Known, Receipted, StoredOnce, [Next]_vars
             PROVE  Receipted' /\ StoredOnce'
  OBVIOUS
<1>1. CASE ~Commit
  BY <1>1, Outside DEF Receipted, StoredOnce
<1>2. CASE Commit
  <2> DEFINE m == message[writer.file]
  <2>1. m.time \in Times
    BY <1>2, CommitEffect
  <2>2. CASE m.kind \in Pushes /\ Ingest(m.kind, m.time)
    <3>1. CASE UNCHANGED <<receipts, vmRows, nodeRows>>
      BY <3>1 DEF Receipted, StoredOnce
    <3>2. CASE /\ m.time \notin receipts /\ receipts' = receipts \cup {m.time}
               /\ nodeRows' = [nodeRows EXCEPT ![m.time] = @ + 1]
               /\ vmRows' = [vmRows EXCEPT ![m.time] = @ + 1] \/ vmRows' = vmRows
      <4>1. vmRows[m.time] = 0 /\ nodeRows[m.time] = 0
        BY <2>1, <3>2 DEF Receipted
      <4>2. ASSUME NEW t \in Times
            PROVE  /\ t # m.time => vmRows'[t] = vmRows[t] /\ nodeRows'[t] = nodeRows[t]
                   /\ t = m.time => vmRows'[t] \in {0, 1} /\ nodeRows'[t] = 1
        BY <2>1, <3>2, <4>1 DEF TypeOK
      <4>3. QED
        BY <3>2, <4>2 DEF Receipted, StoredOnce
    <3>3. QED
      BY <2>2, <3>1, <3>2 DEF Ingest
  <2>3. CASE m.kind \in Purges /\ Purge(m.kind, m.time)
    <3>1. /\ vmRows' = [u \in Times |-> 0]
          /\ \/ UNCHANGED <<receipts, nodeRows>>
             \/ nodeRows' = [u \in Times |-> 0]
      BY <2>3 DEF Purge
    <3>2. QED
      BY <3>1 DEF Receipted, StoredOnce
  <2>4. QED
    BY <1>2, <2>2, <2>3, CommitEffect
<1>3. QED
  BY <1>1, <1>2

(* However often and by whatever way a push arrives, it is stored once. *)
THEOREM NothingStoredTwice == Spec => []StoredOnce
<1>1. Init => Receipted /\ StoredOnce
  BY Numbers DEF Init, Receipted, StoredOnce
<1>2. TypeOK /\ Known /\ Receipted /\ StoredOnce /\ [Next]_vars
        => (TypeOK /\ Known /\ Receipted /\ StoredOnce)'
  BY TypeNext, StoredNext
<1>3. QED
  BY <1>1, <1>2, TypeInit, PTL DEF Spec

-----------------------------------------------------------------------------
(* The rows left by a purge, and those a push adds, are above every cutoff. *)
LEMMA ResurrectionNext == TypeOK /\ Known /\ NoResurrection /\ [Next]_vars => NoResurrection'
<1> SUFFICES ASSUME TypeOK, Known, NoResurrection, [Next]_vars
             PROVE  NoResurrection'
  OBVIOUS
<1>1. CASE ~Commit
  BY <1>1, Outside DEF NoResurrection
<1>2. CASE Commit
  <2> DEFINE m == message[writer.file]
             vmCut == Later(purged["node"], Later(purged["vm"], purged["node_vms"]))
  <2>1. m.time \in Times
    BY <1>2, CommitEffect
  <2>2. /\ \A s \in Scopes : cutoff[s] \in Nat /\ purged[s] \in Nat /\ cutoff[s] >= purged[s]
        /\ vmCut \in Nat /\ m.time \in Nat
    <3>1. /\ cutoff \in [Scopes -> Nat] /\ purged \in [Scopes -> Nat]
          /\ \A s \in Scopes : cutoff[s] >= purged[s]
      BY Numbers DEF TypeOK, NoResurrection
    <3>2. \A s, t \in Nat : Later(s, t) \in Nat
      BY DEF Later
    <3>3. {"vm", "node_vms", "node"} \subseteq Scopes
      BY DEF Scopes
    <3>4. vmCut \in Nat
      BY <3>1, <3>2, <3>3
    <3>5. m.time \in Nat
      BY <2>1 DEF Times
    <3>6. \A s \in Scopes : cutoff[s] \in Nat /\ purged[s] \in Nat
      BY <3>1
    <3> HIDE DEF m, vmCut
    <3>7. QED
      BY <3>1, <3>4, <3>5, <3>6
  <2>3. CASE m.kind \in Pushes /\ Ingest(m.kind, m.time)
    <3>1. CASE UNCHANGED <<receipts, cutoff, purged, vmRows, nodeRows, current>>
      BY <3>1 DEF NoResurrection
    <3>2. CASE ~UNCHANGED <<receipts, cutoff, purged, vmRows, nodeRows, current>>
      <4> DEFINE stored == m.kind = "listed" /\ ~Blocked({"vm", "node_vms"}, m.time)
      <4>1. /\ ~Blocked({"node"}, m.time) /\ UNCHANGED <<cutoff, purged>>
            /\ nodeRows' = [nodeRows EXCEPT ![m.time] = @ + 1]
            /\ vmRows' = IF stored THEN [vmRows EXCEPT ![m.time] = @ + 1] ELSE vmRows
            /\ current' = [node |-> m.time,
                           vm |-> IF stored THEN m.time
                                  ELSE IF current.vm < m.time THEN 0 ELSE current.vm]
        BY <2>3, <3>2 DEF Ingest
      <4>2. m.time > purged["node"]
        BY <2>2, <4>1 DEF Blocked, Scopes
      <4>3. ASSUME stored
            PROVE  m.time > vmCut
        <5>1. cutoff["vm"] < m.time /\ cutoff["node_vms"] < m.time
          BY <2>2, <4>3 DEF Blocked, Scopes
        <5>2. QED
          BY <2>2, <4>2, <5>1 DEF Later, Scopes
      <4>4. ASSUME NEW t \in Times, vmRows'[t] > 0
            PROVE  t > vmCut
        <5>1. CASE stored /\ t = m.time
          BY <4>3, <5>1
        <5>2. CASE ~(stored /\ t = m.time)
          <6>1. vmRows'[t] = vmRows[t]
            BY <4>1, <5>2 DEF TypeOK
          <6>2. QED
            BY <4>4, <6>1 DEF NoResurrection
        <5>3. QED
          BY <5>1, <5>2
      <4>5. ASSUME NEW t \in Times, nodeRows'[t] > 0
            PROVE  t > purged["node"]
        <5>1. t = m.time \/ nodeRows'[t] = nodeRows[t]
          BY <4>1 DEF TypeOK
        <5>2. QED
          BY <4>2, <4>5, <5>1 DEF NoResurrection
      <4>6. /\ current'.node = m.time
            /\ current'.vm # 0 => \/ stored /\ current'.vm = m.time
                                  \/ current'.vm = current.vm
        BY <4>1
      <4>7. current'.vm # 0 => current'.vm > vmCut
        BY <4>3, <4>6 DEF NoResurrection
      <4>8. QED
        BY <4>1, <4>2, <4>4, <4>5, <4>6, <4>7 DEF NoResurrection
    <3>3. QED
      BY <3>1, <3>2
  <2>4. CASE m.kind \in Purges /\ Purge(m.kind, m.time)
    <3> DEFINE scope == ScopeOf[m.kind]
    <3>1. scope \in Scopes /\ (m.kind # "purge_node" => scope # "node")
      BY <2>4 DEF ScopeOf, Scopes, Purges
    <3>2. /\ cutoff' = [cutoff EXCEPT ![scope] = Later(@, m.time)]
          /\ purged' = [purged EXCEPT ![scope] = Later(@, m.time)]
          /\ vmRows' = [u \in Times |-> 0]
      BY <2>4 DEF Purge
    <3>3. \A s \in Scopes : cutoff'[s] >= purged'[s]
      BY <2>2, <3>1, <3>2 DEF Later, TypeOK
    <3>4. current'.vm = 0
      BY <2>4 DEF Purge, TypeOK
    <3>5. \A t \in Times : nodeRows'[t] > 0 => t > purged'["node"]
      <4>1. CASE m.kind = "purge_node"
        BY <2>4, <4>1 DEF Purge
      <4>2. CASE m.kind # "purge_node"
        <5>1. nodeRows' = nodeRows
          BY <2>4, <4>2 DEF Purge
        <5>2. purged'["node"] = purged["node"]
          BY <3>1, <3>2, <4>2 DEF TypeOK, Scopes
        <5>3. QED
          BY <5>1, <5>2 DEF NoResurrection
      <4>3. QED
        BY <4>1, <4>2
    <3>6. current'.node # 0 => current'.node > purged'["node"]
      <4>1. CASE m.kind = "purge_node"
        BY <2>4, <4>1 DEF Purge, TypeOK
      <4>2. CASE m.kind # "purge_node"
        <5>1. current'.node = current.node
          BY <2>4, <4>2 DEF Purge, TypeOK
        <5>2. purged'["node"] = purged["node"]
          BY <3>1, <3>2, <4>2 DEF TypeOK, Scopes
        <5>3. QED
          BY <5>1, <5>2 DEF NoResurrection
      <4>3. QED
        BY <4>1, <4>2
    <3>7. \A t \in Times : ~(vmRows'[t] > 0)
      BY <3>2
    <3>8. QED
      BY <3>3, <3>4, <3>5, <3>6, <3>7 DEF NoResurrection
  <2>5. QED
    BY <1>2, <2>3, <2>4, CommitEffect
<1>3. QED
  BY <1>1, <1>2

(* Once a purge is applied, no push it covers is stored or shown again, in   *)
(* whatever order and however often messages arrive.                         *)
THEOREM PurgedStaysPurged == Spec => []NoResurrection
<1>1. Init => NoResurrection
  BY DEF Init, NoResurrection, Later, Scopes
<1>2. TypeOK /\ Known /\ NoResurrection /\ [Next]_vars => (TypeOK /\ Known /\ NoResurrection)'
  BY TypeNext, ResurrectionNext
<1>3. QED
  BY <1>1, <1>2, TypeInit, PTL DEF Spec

-----------------------------------------------------------------------------
(* The writer gives a file up only after its message has been applied or is  *)
(* a dead letter.                                                            *)
Settled ==
  /\ writer.pc \in {"close", "unlink"} => writer.file \in applied
  /\ writer.pc \in {"discard", "move"} => writer.file \in dead

LEMMA SettledNext == TypeOK /\ Known /\ Settled /\ NothingLost /\ [Next]_vars
                       => Settled' /\ NothingLost'
<1> SUFFICES ASSUME TypeOK, Known, Settled, NothingLost, [Next]_vars
             PROVE  Settled' /\ NothingLost'
  OBVIOUS
<1>1. CASE Tick \/ Accept
  <2>1. UNCHANGED <<writer, applied, dead>>
    BY <1>1 DEF Tick, Accept, dbVars
  <2>2. place' = place \/ place' = [place EXCEPT ![accepted + 1] = "inbox"]
    BY <1>1 DEF Tick, Accept
  <2>3. \A f \in Files : place'[f] = place[f] \/ place'[f] = "inbox"
    BY <2>2 DEF TypeOK
  <2>4. QED
    BY <2>1, <2>3 DEF Settled, NothingLost
<1>2. CASE (\E f \in Files : TakeEntry(f) \/ TakeFile(f)) \/ TrimStream \/ UNCHANGED vars
  <2>1. UNCHANGED <<place, applied, dead>> /\ (writer'.pc = "process" \/ writer' = writer)
    BY <1>2 DEF TakeEntry, TakeFile, Take, TrimStream, vars, dbVars
  <2>2. QED
    BY <2>1 DEF Settled, NothingLost
<1>3. CASE Commit \/ Refresh
  <2>1. UNCHANGED <<place, dead>>
    BY <1>3 DEF Commit, Refresh
  <2>2. \/ /\ writer'.pc = "close" /\ writer'.file = writer.file
           /\ applied' = applied \cup {writer.file}
        \/ writer'.pc \in {"refresh", "fail"} /\ applied' = applied
    BY <1>3, StepEffect DEF Commit, Refresh, WriterSteps
  <2>3. QED
    BY <2>1, <2>2 DEF Settled, NothingLost
<1>4. CASE Refuse \/ Fail \/ RedisFails \/ Crash
  <2>1. UNCHANGED <<place, dead, applied>>
    BY <1>4 DEF Refuse, Fail, RedisFails, Crash, dbVars
  <2>2. writer'.pc \in {"idle", "fail", "bury"}
    BY <1>4, StepEffect, RestEffect DEF Refuse, Fail, RedisFails, Crash, WriterSteps
  <2>3. QED
    BY <2>1, <2>2 DEF Settled, NothingLost
<1>5. CASE Bury
  <2>1. UNCHANGED <<place, applied>>
    BY <1>5 DEF Bury, dbVars
  <2>2. \/ /\ writer'.pc = "discard" /\ writer'.file = writer.file
           /\ dead' = dead \cup {writer.file}
        \/ writer'.pc = "idle" /\ dead' = dead
    BY <1>5, StepEffect, RestEffect DEF Bury, WriterSteps
  <2>3. QED
    BY <2>1, <2>2 DEF Settled, NothingLost
<1>6. CASE Close \/ Discard \/ Unlink
  <2>1. UNCHANGED <<applied, dead>>
    BY <1>6 DEF Close, Discard, Settle, Unlink, dbVars
  <2>2. \/ writer'.pc = "idle"
        \/ /\ writer'.file = writer.file
           /\ \/ writer.pc = "close" /\ writer'.pc = "unlink"
              \/ writer.pc = "discard" /\ writer'.pc = "move"
    BY <1>6, StepEffect, RestEffect DEF Close, Discard, Settle, Unlink, WriterSteps
  <2>3. \/ UNCHANGED place
        \/ MoveFile("gone") /\ writer.file \in applied
        \/ MoveFile("bad") /\ writer.file \in dead
    BY <1>6 DEF Close, Discard, Settle, Unlink, Settled
  <2>4. ASSUME NEW to, MoveFile(to)
        PROVE  \A f \in Files : place'[f] = place[f] \/ (f = writer.file /\ place'[f] = to)
    BY <2>4 DEF MoveFile, TypeOK
  <2>5. NothingLost'
    BY <2>1, <2>3, <2>4 DEF NothingLost
  <2>6. QED
    BY <2>1, <2>2, <2>5 DEF Settled
<1>7. QED
  BY <1>1, <1>2, <1>3, <1>4, <1>5, <1>6 DEF Next, Writing

(* No message leaves the spool without having been applied or kept as a dead *)
(* letter, wherever the writer dies.                                         *)
THEOREM NoMessageLost == Spec => []NothingLost
<1>1. Init => Settled /\ NothingLost
  BY DEF Init, Settled, NothingLost, Resting
<1>2. TypeOK /\ Known /\ Settled /\ NothingLost /\ [Next]_vars
        => (TypeOK /\ Known /\ Settled /\ NothingLost)'
  BY TypeNext, SettledNext
<1>3. QED
  BY <1>1, <1>2, TypeInit, PTL DEF Spec

-----------------------------------------------------------------------------
(* The receipts are those of the pushes whose rows are stored, and a purge   *)
(* whose aggregates are to be refreshed is in force.                         *)
Present == \A t \in receipts : nodeRows[t] = 1
InForce ==
  writer.pc = "refresh" =>
    LET m == message[writer.file] IN m.kind \in Purges /\ cutoff[ScopeOf[m.kind]] >= m.time

LEMMA PurgeScopes ==
  /\ DOMAIN ScopeOf = Purges
  /\ \A k \in Purges : ScopeOf[k] \in Scopes /\ (ScopeOf[k] = "node" <=> k = "purge_node")
BY DEF ScopeOf, Purges, Scopes

LEMMA PresentNext == TypeOK /\ Known /\ Receipted /\ Present /\ [Next]_vars => Present'
<1> SUFFICES ASSUME TypeOK, Known, Receipted, Present, [Next]_vars
             PROVE  Present'
  OBVIOUS
<1>1. CASE ~Commit
  BY <1>1, Outside DEF Present
<1>2. CASE Commit
  <2> DEFINE m == message[writer.file]
  <2>1. m.time \in Times
    BY <1>2, CommitEffect
  <2>2. CASE m.kind \in Pushes /\ Ingest(m.kind, m.time)
    <3>1. CASE UNCHANGED <<receipts, nodeRows>>
      BY <3>1 DEF Present
    <3>2. CASE /\ m.time \notin receipts /\ receipts' = receipts \cup {m.time}
               /\ nodeRows' = [nodeRows EXCEPT ![m.time] = @ + 1]
      <4>1. nodeRows[m.time] = 0
        BY <2>1, <3>2 DEF Receipted
      <4>2. ASSUME NEW t \in receipts'
            PROVE  nodeRows'[t] = 1
        <5>1. CASE t = m.time
          BY <2>1, <3>2, <4>1, <5>1 DEF TypeOK
        <5>2. CASE t # m.time
          BY <3>2, <5>2 DEF TypeOK, Present
        <5>3. QED
          BY <5>1, <5>2
      <4>3. QED
        BY <4>2 DEF Present
    <3>3. QED
      BY <2>2, <3>1, <3>2 DEF Ingest
  <2>3. CASE m.kind \in Purges /\ Purge(m.kind, m.time)
    <3>1. receipts' = {} \/ UNCHANGED <<receipts, nodeRows>>
      BY <2>3 DEF Purge
    <3>2. QED
      BY <3>1 DEF Present
  <2>4. QED
    BY <1>2, <2>2, <2>3, CommitEffect
<1>3. QED
  BY <1>1, <1>2

LEMMA InForceNext == TypeOK /\ Known /\ InForce /\ [Next]_vars => InForce'
<1> SUFFICES ASSUME TypeOK, Known, InForce, [Next]_vars
             PROVE  InForce'
  OBVIOUS
<1>1. CASE Commit
  <2> DEFINE m == message[writer.file]
  <2>1. UNCHANGED message
    BY <1>1 DEF Commit, producerVars
  <2>2. CASE m.kind \in Purges /\ Purge(m.kind, m.time) /\ Step("refresh")
    <3>1. /\ ScopeOf[m.kind] \in Scopes /\ writer'.file = writer.file
          /\ m.time \in Times
      BY <1>1, <2>2, PurgeScopes, CommitEffect, StepEffect DEF WriterSteps
    <3>2. cutoff' = [cutoff EXCEPT ![ScopeOf[m.kind]] = Later(@, m.time)]
      BY <2>2 DEF Purge
    <3>3. /\ cutoff'[ScopeOf[m.kind]] = Later(cutoff[ScopeOf[m.kind]], m.time)
          /\ cutoff[ScopeOf[m.kind]] \in Nat /\ m.time \in Nat
      <4>1. cutoff \in [Scopes -> 0 .. MaxTime]
        BY DEF TypeOK
      <4> HIDE DEF m
      <4>2. cutoff[ScopeOf[m.kind]] \in 0 .. MaxTime
        BY <3>1, <4>1
      <4>3. cutoff'[ScopeOf[m.kind]] = Later(cutoff[ScopeOf[m.kind]], m.time)
        BY <3>1, <3>2, <4>1
      <4>4. m.time \in Nat /\ \A n \in 0 .. MaxTime : n \in Nat
        BY <3>1 DEF Times
      <4>5. QED
        BY ONLY <4>2, <4>3, <4>4
    <3>4. cutoff'[ScopeOf[m.kind]] >= m.time
      <4>1. \A s, t \in Nat : Later(s, t) >= t
        BY DEF Later
      <4>2. QED
        BY ONLY <3>3, <4>1
    <3>5. QED
      BY <2>1, <2>2, <3>1, <3>4 DEF InForce
  <2>3. CASE Step("close")
    BY <2>3, StepEffect DEF WriterSteps, InForce
  <2>4. QED
    BY <1>1, <2>2, <2>3 DEF Commit
<1>2. CASE Tick \/ Accept
  <2>1. UNCHANGED <<writer, cutoff>>
    BY <1>2 DEF Tick, Accept, dbVars
  <2>2. writer.pc = "refresh" => message'[writer.file] = message[writer.file]
    <3>1. writer.pc = "refresh" => writer.file \in Files /\ writer.file # accepted + 1
      BY Numbers DEF Known, TypeOK
    <3>2. UNCHANGED message \/ \E x : message' = [message EXCEPT ![accepted + 1] = x]
      BY <1>2 DEF Tick, Accept
    <3>3. QED
      BY <3>1, <3>2 DEF TypeOK
  <2>3. QED
    BY <2>1, <2>2 DEF InForce
<1>3. CASE ~Commit /\ ~Tick /\ ~Accept
  <2>1. writer' = writer \/ writer'.pc # "refresh"
    <3>1. CASE (\E f \in Files : TakeEntry(f) \/ TakeFile(f)) \/ TrimStream \/ UNCHANGED vars
      BY <3>1 DEF TakeEntry, TakeFile, Take, TrimStream, vars
    <3>2. CASE Writing \/ Crash
      <4>1. Rest \/ \E pc \in WriterSteps \ {"refresh"} : Step(pc)
        BY <1>3, <3>2 DEF Writing, Refresh, Refuse, Fail, Bury, Close, Discard, Settle, RedisFails,
                          Unlink, Crash, WriterSteps
      <4>2. QED
        BY <4>1, StepEffect, RestEffect
    <3>3. QED
      BY <1>3, <3>1, <3>2 DEF Next
  <2>2. UNCHANGED cutoff
    BY <1>3, Outside
  <2>3. UNCHANGED message
    BY <1>3 DEF Next, Writing, TakeEntry, TakeFile, TrimStream, Refresh, Refuse, Fail, Bury,
                Close, Discard, Settle, RedisFails, Unlink, Crash, vars, producerVars
  <2>4. QED
    BY <2>1, <2>2, <2>3 DEF InForce
<1>4. QED
  BY <1>1, <1>2, <1>3

(* What PurgeableStore sees. *)
Waiting == {f \in Files : place[f] = "inbox"}

LEMMA StutterImplements ==
  ASSUME UNCHANGED <<message, accepted, place, applied, dead, cutoff, nodeRows, vmRows>>
  PROVE  UNCHANGED Promise!vars
BY DEF Promise!vars, Promise!queueVars, Promise!storeVars

LEMMA AcceptImplements ==
  ASSUME TypeOK, Known, Accept
  PROVE  Promise!Accept
<1> DEFINE f == accepted + 1
<1>1. f \in Files /\ accepted' = f /\ accepted \in Nat
  BY Numbers DEF Accept, TypeOK, Files
<1>2. f \notin 1 .. accepted /\ 1 .. accepted' = (1 .. accepted) \cup {f}
  BY <1>1
<1>3. /\ place' = [place EXCEPT ![f] = "inbox"]
      /\ UNCHANGED <<applied, dead, cutoff, nodeRows, vmRows>>
      /\ \E x : message' = [message EXCEPT ![f] = x]
  BY DEF Accept, dbVars
<1>4. Waiting' = Waiting \cup {f}
  BY <1>1, <1>3 DEF TypeOK, Waiting
<1>5. \A j \in 1 .. accepted : message'[j] = message[j]
  BY <1>1, <1>2, <1>3 DEF TypeOK, Files
<1>6. QED
  BY <1>1, <1>2, <1>3, <1>4, <1>5 DEF Promise!Accept, Promise!storeVars, Waiting

(* A push that is stored, or need not be. *)
LEMMA PushImplements ==
  ASSUME TypeOK, Known, Receipted, Present, Commit, message[writer.file].kind \in Pushes
  PROVE  Promise!Push(writer.file)
<1> DEFINE m == message[writer.file]
<1>1. /\ writer.file \in 1 .. accepted /\ m.kind \in {"listed", "absent"} /\ m.time \in Times
  <2>1. writer.file \in 1 .. accepted
    BY Numbers DEF Commit, Known, TypeOK, Files
  <2>2. m.kind # "bad" /\ m.kind \in Pushes
    BY DEF Commit
  <2>3. m.time \in Times
    BY CommitEffect
  <2>4. QED
    BY <2>1, <2>2, <2>3 DEF Pushes
<1>2. /\ Ingest(m.kind, m.time) /\ applied' = applied \cup {writer.file}
      /\ UNCHANGED <<message, accepted, place, dead, cutoff>>
  BY <1>1 DEF Commit, Pushes, Purges, Ingest, producerVars
<1> HIDE DEF m
<1>3. CASE Blocked({"node"}, m.time) \/ m.time \in receipts
  <2>1. UNCHANGED <<cutoff, nodeRows, vmRows>>
    BY <1>2, <1>3 DEF Ingest
  <2>2. Promise!Needless(m.time)
    BY <1>3, <2>1 DEF Present, Blocked, Promise!Needless, Promise!Covered, Promise!storeVars
  <2>3. QED
    BY <1>1, <1>2, <2>2 DEF Promise!Push, Promise!queueVars, m
<1>4. CASE ~(Blocked({"node"}, m.time) \/ m.time \in receipts)
  <2>1. nodeRows[m.time] = 0 /\ vmRows[m.time] = 0
    BY <1>1, <1>4 DEF Receipted
  <2>2. /\ nodeRows' = [nodeRows EXCEPT ![m.time] = 1]
        /\ vmRows' = IF m.kind = "listed" /\ ~Blocked({"vm", "node_vms"}, m.time)
                     THEN [vmRows EXCEPT ![m.time] = 1] ELSE vmRows
    BY <1>2, <1>4, <2>1 DEF Ingest
  <2>3. Promise!Store(m.kind, m.time)
    BY <1>2, <1>4, <2>1, <2>2 DEF Blocked, Promise!Store, Promise!Covered
  <2>4. QED
    BY <1>1, <1>2, <2>3 DEF Promise!Push, Promise!queueVars, m
<1>5. QED
  BY <1>3, <1>4

LEMMA PurgeImplements ==
  ASSUME TypeOK, Known, Commit, message[writer.file].kind \in Purges
  PROVE  Promise!Purge(writer.file)
<1> DEFINE m == message[writer.file]
           scope == ScopeOf[m.kind]
<1>1. writer.file \in 1 .. accepted
  BY Numbers DEF Commit, Known, TypeOK, Files
<1>2. /\ Purge(m.kind, m.time)
      /\ UNCHANGED <<message, accepted, place, applied, dead>>
  BY DEF Commit, Pushes, Purges, producerVars
<1>3. Promise!IsPurge(writer.file)
  BY <1>1, PurgeScopes DEF Promise!IsPurge
<1>4. cutoff' = [cutoff EXCEPT ![scope] = IF @ > m.time THEN @ ELSE m.time]
  BY <1>2 DEF Purge, Later
<1>5. /\ vmRows' = [t \in Times |-> 0]
      /\ IF scope = "node" THEN nodeRows' = [t \in Times |-> 0] ELSE UNCHANGED nodeRows
  BY <1>2, PurgeScopes DEF Purge
<1>6. QED
  BY <1>2, <1>3, <1>4, <1>5 DEF Promise!Purge, Promise!queueVars

(* The end of a message: done, given up, or its file removed. *)
LEMMA PurgedImplements ==
  ASSUME TypeOK, Known, InForce, Refresh
  PROVE  Promise!Purged(writer.file) \/ UNCHANGED Promise!vars
<1>1. UNCHANGED <<message, accepted, place, dead, cutoff, nodeRows, vmRows>>
  BY DEF Refresh, producerVars
<1>2. CASE UNCHANGED applied
  BY <1>1, <1>2, StutterImplements
<1>3. CASE applied' = applied \cup {writer.file}
  <2>1. /\ writer.pc = "refresh" /\ writer.file \in 1 .. accepted
    BY Numbers DEF Refresh, Known, TypeOK, Files
  <2>2. Promise!IsPurge(writer.file)
    BY <2>1, PurgeScopes DEF Promise!IsPurge, InForce
  <2>3. Promise!Covered({ScopeOf[message[writer.file].kind]}, message[writer.file].time)
    BY <2>1 DEF Promise!Covered, InForce
  <2>4. QED
    BY <1>1, <1>3, <2>2, <2>3 DEF Promise!Purged, Promise!queueVars, Promise!storeVars
<1>4. QED
  BY <1>2, <1>3 DEF Refresh

LEMMA GiveUpImplements ==
  ASSUME TypeOK, Known, Bury
  PROVE  Promise!GiveUp(writer.file) \/ UNCHANGED Promise!vars
<1>1. UNCHANGED <<message, accepted, place, applied, cutoff, nodeRows, vmRows>>
  BY DEF Bury, producerVars, dbVars
<1>2. CASE UNCHANGED dead
  BY <1>1, <1>2, StutterImplements
<1>3. CASE dead' = dead \cup {writer.file}
  <2>1. writer.file \in 1 .. accepted
    BY Numbers DEF Bury, Known, TypeOK, Files
  <2>2. QED
    BY <1>1, <1>3, <2>1 DEF Promise!GiveUp, Promise!queueVars, Promise!storeVars
<1>4. QED
  BY <1>2, <1>3 DEF Bury

LEMMA LetGoImplements ==
  ASSUME TypeOK, Known, Settled, Close \/ Discard \/ Unlink
  PROVE  Promise!LetGo(writer.file) \/ UNCHANGED Promise!vars
<1>1. UNCHANGED <<message, accepted, applied, dead, cutoff, nodeRows, vmRows>>
  BY DEF Close, Discard, Settle, Unlink, producerVars, dbVars
<1>2. writer.file \in applied \cup dead /\ writer.file \in Files
  BY DEF Close, Discard, Settle, Unlink, Settled, Known
<1>3. CASE UNCHANGED place
  BY <1>1, <1>3, StutterImplements
<1>4. CASE \E to \in {"gone", "bad"} : MoveFile(to)
  <2>1. Waiting' = Waiting \ {writer.file}
    BY <1>2, <1>4 DEF MoveFile, TypeOK, Waiting
  <2>2. QED
    BY <1>1, <1>2, <2>1 DEF Promise!LetGo, Promise!storeVars, Waiting
<1>5. QED
  BY <1>3, <1>4 DEF Close, Discard, Settle, Unlink

(* Each step is one of PurgeableStore's, or none it sees. *)
LEMMA StepImplements ==
  ASSUME TypeOK, Known, Receipted, Present, InForce, Settled, [Next]_vars
  PROVE  [Promise!Next]_(Promise!vars)
<1>1. CASE Accept
  BY <1>1, AcceptImplements DEF Promise!Next
<1>2. CASE Commit
  <2>1. writer.file \in Files
    BY <1>2 DEF Commit, Known
  <2>2. Promise!Push(writer.file) \/ Promise!Purge(writer.file)
    BY <1>2, PushImplements, PurgeImplements DEF Commit
  <2>3. QED
    BY <2>1, <2>2 DEF Promise!Next
<1>3. CASE Refresh \/ Bury \/ Close \/ Discard \/ Unlink
  <2>1. writer.file \in Files
    BY <1>3 DEF Refresh, Bury, Close, Discard, Settle, Unlink, Known
  <2>2. \/ Promise!Purged(writer.file) \/ Promise!GiveUp(writer.file)
        \/ Promise!LetGo(writer.file) \/ UNCHANGED Promise!vars
    BY <1>3, PurgedImplements, GiveUpImplements, LetGoImplements
  <2>3. CASE Promise!Purged(writer.file)
    BY <2>1, <2>3 DEF Promise!Next
  <2>4. CASE Promise!GiveUp(writer.file)
    BY <2>1, <2>4 DEF Promise!Next
  <2>5. CASE Promise!LetGo(writer.file)
    BY <2>1, <2>5 DEF Promise!Next, Promise!LetGo
  <2>6. QED
    BY <2>2, <2>3, <2>4, <2>5
<1>4. CASE \/ Tick \/ (\E f \in Files : TakeEntry(f) \/ TakeFile(f)) \/ TrimStream
           \/ Refuse \/ Fail \/ RedisFails \/ Crash \/ UNCHANGED vars
  <2>1. UNCHANGED <<message, accepted, place, applied, dead, cutoff, nodeRows, vmRows>>
    BY <1>4 DEF Tick, TakeEntry, TakeFile, TrimStream, Refuse, Fail, RedisFails, Crash, vars,
                producerVars, dbVars
  <2>2. QED
    BY <2>1, StutterImplements
<1>5. QED
  BY <1>1, <1>2, <1>3, <1>4 DEF Next, Writing

(* The Enterprise plane keeps its promise, whatever way and however often a  *)
(* message comes, and wherever the writer dies: a push is taken for done     *)
(* only when its rows are stored or a purge covers it, a purge only when it  *)
(* is in force, and no file is let go of before.                             *)
THEOREM StoreKeepsPromise == Spec => ImplementsStore
<1>1. Init => Promise!Init
  <2> SUFFICES ASSUME Init
               PROVE  Promise!Init
    OBVIOUS
  <2>1. 1 .. accepted = {} /\ {f \in Files : place[f] = "inbox"} = {}
    BY DEF Init
  <2>2. QED
    BY <2>1 DEF Init, Promise!Init
<1>2. Init => Receipted /\ StoredOnce /\ Present /\ InForce /\ Settled /\ NothingLost
  BY Numbers DEF Init, Receipted, StoredOnce, Present, InForce, Settled, NothingLost, Resting
<1>3. TypeOK /\ Known /\ Receipted /\ StoredOnce /\ Present /\ InForce /\ Settled /\ NothingLost
        /\ [Next]_vars
        => /\ (TypeOK /\ Known /\ Receipted /\ StoredOnce /\ Present)'
           /\ (InForce /\ Settled /\ NothingLost)'
  BY TypeNext, StoredNext, PresentNext, InForceNext, SettledNext
<1>4. TypeOK /\ Known /\ Receipted /\ Present /\ InForce /\ Settled /\ [Next]_vars
        => [Promise!Next]_(Promise!vars)
  BY StepImplements
<1>5. QED
  BY <1>1, <1>2, <1>3, <1>4, TypeInit, PTL DEF Spec, ImplementsStore, Promise!Spec
=============================================================================
