-------------------------- MODULE AgentPushProofs --------------------------
(***************************************************************************)
(* Theorems about AgentPush, for every number of ticks, bytes and faults.  *)
(***************************************************************************)
EXTENDS AgentPush, TLAPS

(* The delta of a payload is a number of bytes, whatever the counter did. *)
LEMMA DeltaIsNat ==
  ASSUME NEW n \in Nat, NEW s \in State
  PROVE  DeltaCounter(n, s) \in Nat
BY DEF DeltaCounter, State

(* The records and sets that the steps build have their types. *)
LEMMA CollectedType ==
  ASSUME TypeOK, NEW seen \in BOOLEAN, NEW complete \in BOOLEAN
  PROVE  AfterCollect(seen, complete) \in State
BY DEF TypeOK, AfterCollect, State

LEMMA AbandonedType ==
  ASSUME TypeOK
  PROVE  Abandoned \in SUBSET Request
BY DEF TypeOK, Abandoned, Request

LEMMA EndCycleType ==
  ASSUME TypeOK, EndCycle
  PROVE  pc' \in PcValues /\ boundary' \in Nat /\ wait' \in Nat
<1>1. NextBoundary(clock) \in Nat
  BY PushAssumption DEF NextBoundary, TypeOK
<1>2. FollowingBoundary \in Nat
  BY <1>1, PushAssumption DEF FollowingBoundary, TypeOK
<1>3. QED
  BY <1>2 DEF EndCycle, TypeOK, PcValues

(* The world's steps and the faults leave every variable in its type. *)
LEMMA WorldTypes ==
  ASSUME TypeOK,
         Tick \/ Flow \/ TapRecreated \/ ClockStepsBack
  PROVE  TypeOK'
<1>1. CASE Tick
  BY <1>1 DEF Tick, TypeOK, fileVars, netVars, monitorVars, historyVars
<1>2. CASE Flow
  BY <1>2 DEF Flow, TypeOK, agentVars, fileVars, netVars, monitorVars, historyVars
<1>3. CASE TapRecreated
  BY <1>3 DEF TapRecreated, TypeOK, agentVars, fileVars, netVars, monitorVars
<1>4. CASE ClockStepsBack
  BY <1>4 DEF ClockStepsBack, Fault, TypeOK, agentVars, fileVars, netVars, monitorVars
<1>5. QED
  BY <1>1, <1>2, <1>3, <1>4

(* So do the steps of a cycle up to the request. *)
LEMMA PrepareTypes ==
  ASSUME TypeOK,
         Start \/ Rotate \/ SaveCarry \/ SavePending \/ Post
  PROVE  TypeOK'
<1>1. CASE Start
  BY <1>1 DEF Start, TypeOK, PcValues, fileVars, netVars, monitorVars, historyVars
<1>2. CASE Rotate
  <2>1. stateDirty' \in BOOLEAN
    BY <1>2 DEF Rotate, TypeOK
  <2>2. window' \in Nat /\ carry' \in SUBSET Nat
    <3>1. \/ window' = window /\ carry' = carry
          \/ window' = window + 1 /\ carry' = carry \cup {window + 1}
      BY <1>2 DEF Rotate
    <3>2. window \in Nat /\ carry \in SUBSET Nat
      BY DEF TypeOK
    <3>3. carry \cup {window + 1} \in SUBSET Nat
      BY <3>2
    <3>4. QED
      BY <3>1, <3>2, <3>3
  <2>3. /\ pc' = "saveCarry"
        /\ UNCHANGED <<boundary, wait, retry, pending, committed, filePending, fileCarry,
                       stateFile, netVars, monitorVars, worldVars, faults, saveLost, lossy>>
    BY <1>2 DEF Rotate
  <2>4. QED
    BY <2>1, <2>2, <2>3 DEF TypeOK, PcValues, netVars, monitorVars, worldVars
<1>3. CASE SaveCarry
  BY <1>3 DEF SaveCarry, SaveRuntime, TypeOK, PcValues, netVars, monitorVars,
              worldVars, historyVars
<1>4. CASE SavePending
  BY <1>4 DEF SavePending, SaveRuntime, TypeOK, PcValues, netVars, monitorVars,
              worldVars, historyVars
<1>5. CASE Post
  <2>1. requests' \in SUBSET Request
    <3>1. ASSUME NEW p \in pending
          PROVE  [payload |-> p, live |-> TRUE] \in Request
      BY DEF TypeOK, Request
    <3>2. requests' = requests \cup {[payload |-> p, live |-> TRUE] : p \in pending}
      BY <1>5 DEF Post
    <3>3. QED
      BY <3>1, <3>2 DEF TypeOK
  <2>2. QED
    BY <1>5, <2>1 DEF Post, TypeOK, PcValues, fileVars, monitorVars, worldVars,
                      historyVars
<1>6. QED
  BY <1>1, <1>2, <1>3, <1>4, <1>5

(* So does collecting a payload. *)
LEMMA CollectTypes ==
  ASSUME TypeOK, NEW seen \in BOOLEAN, NEW complete \in BOOLEAN,
         Collect(seen, complete)
  PROVE  TypeOK'
<1> DEFINE d == IF seen THEN DeltaCounter(counter, committed) ELSE 0
           p == [time |-> clock, delta |-> d, windows |-> carry,
                 after |-> AfterCollect(seen, complete)]
<1>1. d \in Nat
  BY DeltaIsNat DEF TypeOK
<1>2. p \in Payload
  BY <1>1, CollectedType DEF TypeOK, Payload
<1>3. pending' = {p}
  BY DEF Collect
<1>4. lossy' \in BOOLEAN
  BY DEF Collect
<1>5. QED
  BY <1>2, <1>3, <1>4 DEF Collect, TypeOK, PcValues, fileVars, netVars, monitorVars,
                          worldVars

(* So do the answer, and what the Agent makes of it. *)
LEMMA AnswerTypes ==
  ASSUME TypeOK,
         PushFails \/ PushAnswered \/ SaveState \/ SaveStateFails
           \/ ClearPending \/ ClearFails
  PROVE  TypeOK'
<1>1. CASE PushFails
  BY <1>1, EndCycleType, AbandonedType
     DEF PushFails, TypeOK, fileVars, monitorVars, worldVars, historyVars
<1>2. CASE PushAnswered
  BY <1>2 DEF PushAnswered, SaveRuntime, TypeOK, PcValues, monitorVars, worldVars,
              historyVars
<1>3. CASE SaveState
  BY <1>3 DEF SaveState, TypeOK, PcValues, Payload, netVars, monitorVars, worldVars,
              historyVars
<1>4. CASE SaveStateFails
  BY <1>4, EndCycleType DEF SaveStateFails, Fault, TypeOK, fileVars, netVars,
                            monitorVars, worldVars
<1>5. CASE ClearPending
  <2>1. committed' \in State
    BY <1>5 DEF ClearPending, TypeOK, Payload
  <2>2. pc' \in PcValues /\ boundary' \in Nat /\ wait' \in Nat
    BY <1>5, EndCycleType DEF ClearPending, TypeOK, PcValues
  <2>3. QED
    BY <1>5, <2>1, <2>2 DEF ClearPending, TypeOK, netVars, monitorVars, worldVars,
                            historyVars
<1>6. CASE ClearFails
  BY <1>6, EndCycleType DEF ClearFails, Fault, TypeOK, fileVars, netVars,
                            monitorVars, worldVars
<1>7. QED
  BY <1>1, <1>2, <1>3, <1>4, <1>5, <1>6

(* So do stops, crashes and power losses. *)
LEMMA StopTypes ==
  ASSUME TypeOK,
         GracefulStop \/ Crash \/ PowerLoss
  PROVE  TypeOK'
<1>1. ASSUME NEW how \in {"off", "dead"}, Stopped(how)
      PROVE  /\ pc' \in PcValues /\ boundary' \in Nat /\ wait' \in Nat
             /\ retry' \in BOOLEAN /\ pending' = {} /\ carry' = {}
             /\ committed' \in State /\ requests' \in SUBSET Request
             /\ reply' \in BOOLEAN
  <2>1. Abandoned \in SUBSET Request
    BY AbandonedType
  <2>2. QED
    BY <1>1, <2>1 DEF Stopped, PcValues, NoState, State
<1>2. CASE GracefulStop
  <2>1. Stopped("off")
    BY <1>2 DEF GracefulStop
  <2>2. QED
    BY <1>1, <1>2, <2>1 DEF GracefulStop, Fault, TypeOK, monitorVars, worldVars
<1>3. CASE Crash
  <2>1. Stopped("dead")
    BY <1>3 DEF Crash
  <2>2. QED
    BY <1>1, <1>3, <2>1 DEF Crash, Fault, TypeOK, fileVars, monitorVars, worldVars
<1>4. CASE PowerLoss
  <2>1. Stopped("dead")
    BY <1>4 DEF PowerLoss
  <2>2. NoState \in State
    BY DEF NoState, State
  <2>3. /\ faults' = faults + 1 /\ stateFile' = NoState
        /\ stateDirty' \in BOOLEAN /\ lossy' \in BOOLEAN
        /\ UNCHANGED <<filePending, fileCarry, monitorVars, worldVars, window, saveLost>>
    BY <1>4 DEF PowerLoss, Fault
  <2>4. /\ pc' \in PcValues /\ boundary' \in Nat /\ wait' \in Nat
        /\ retry' \in BOOLEAN /\ pending' = {} /\ carry' = {}
        /\ committed' \in State /\ requests' \in SUBSET Request
        /\ reply' \in BOOLEAN
    BY <1>1, <2>1
  <2>5. QED
    BY <2>2, <2>3, <2>4 DEF TypeOK, monitorVars, worldVars
<1>5. QED
  BY <1>2, <1>3, <1>4

(* So do the Monitor's transactions. *)
LEMMA MonitorTypes ==
  ASSUME TypeOK,
         \/ \E r \in requests : Deliver(r)
         \/ \E t \in receipts : PruneReceipt(t)
  PROVE  TypeOK'
<1>1. ASSUME NEW r \in requests, Deliver(r)
      PROVE  TypeOK'
  <2>1. r.payload \in Payload /\ r.live \in BOOLEAN
    BY DEF TypeOK, Request
  <2>2. r.payload.time \in Nat /\ r.payload.delta \in Nat
    BY <2>1 DEF Payload
  <2>3. reply' \in BOOLEAN
    BY <1>1, <2>1 DEF Deliver, TypeOK
  <2>4. receipts' \in SUBSET Nat /\ credited' \in Nat /\ applied' \in SUBSET Payload
    <3>1. \/ UNCHANGED monitorVars
          \/ /\ receipts' = receipts \cup {r.payload.time}
             /\ credited' = credited + r.payload.delta
             /\ applied' = applied \cup {r.payload}
      BY <1>1 DEF Deliver
    <3>2. receipts \in SUBSET Nat /\ credited \in Nat /\ applied \in SUBSET Payload
      BY DEF TypeOK
    <3>3. CASE UNCHANGED monitorVars
      BY <3>2, <3>3 DEF monitorVars
    <3>4. CASE /\ receipts' = receipts \cup {r.payload.time}
               /\ credited' = credited + r.payload.delta
               /\ applied' = applied \cup {r.payload}
      <4>1. receipts' \in SUBSET Nat
        BY <2>2, <3>2, <3>4
      <4>2. credited' \in Nat
        BY <2>2, <3>2, <3>4
      <4>3. applied' \in SUBSET Payload
        BY <2>1, <3>2, <3>4
      <4>4. QED
        BY <4>1, <4>2, <4>3
    <3>5. QED
      BY <3>1, <3>3, <3>4
  <2>5. /\ requests' \in SUBSET Request
        /\ UNCHANGED <<agentVars, fileVars, worldVars, historyVars>>
    BY <1>1 DEF Deliver, TypeOK
  <2>6. QED
    BY <2>3, <2>4, <2>5 DEF TypeOK, agentVars, fileVars, worldVars, historyVars
<1>2. ASSUME NEW t \in receipts, PruneReceipt(t)
      PROVE  TypeOK'
  BY <1>2 DEF PruneReceipt, TypeOK, agentVars, fileVars, netVars, worldVars, historyVars
<1>3. QED
  BY <1>1, <1>2

LEMMA TypeInit == Init => TypeOK
<1> SUFFICES ASSUME Init
             PROVE  TypeOK
  OBVIOUS
<1>1. committed \in State /\ stateFile \in State
  BY DEF Init, State, NoState
<1>2. QED
  BY <1>1 DEF Init, TypeOK, PcValues

LEMMA TypeNext == TypeOK /\ [Next]_vars => TypeOK'
<1> SUFFICES ASSUME TypeOK, [Next]_vars
             PROVE  TypeOK'
  OBVIOUS
<1>1. CASE AgentStep
  BY <1>1, PrepareTypes, CollectTypes, AnswerTypes DEF AgentStep
<1>2. CASE UNCHANGED vars
  BY <1>2 DEF vars, agentVars, fileVars, netVars, monitorVars, worldVars, historyVars,
              TypeOK
<1>3. QED
  BY <1>1, <1>2, WorldTypes, AnswerTypes, StopTypes, MonitorTypes DEF Next

(* Every variable keeps its type; the Agent and its file hold at most one   *)
(* payload.                                                                 *)
THEOREM TypeCorrect == Spec => []TypeOK
<1>1. QED
  BY TypeInit, TypeNext, PTL DEF Spec

-----------------------------------------------------------------------------
(* A payload at hand, and the baseline it leads to, have their types. *)
LEMMA HandTypes ==
  ASSUME TypeOK, NEW p \in pending \cup filePending
  PROVE  p.time \in Nat /\ p.delta \in Nat /\ p.after \in State
BY DEF TypeOK, Payload

LEMMA OwedType ==
  ASSUME TypeOK, NEW p \in pending \cup filePending
  PROVE  Owed(p) \in Nat
BY HandTypes DEF Owed, TypeOK

LEMMA BooksInit == Init => BooksBalance
BY DEF Init, BooksBalance, FilesAgree, RequestsKnown, Balanced, Accounts, NoState

(* Bytes that flow keep every baseline in agreement with the totals, and so  *)
(* does a counter that starts anew, a loss aside.                            *)
LEMMA WorldBooks ==
  ASSUME TypeOK, FilesAgree, RequestsKnown, Balanced,
         Tick \/ Flow \/ TapRecreated \/ ClockStepsBack
  PROVE  FilesAgree' /\ RequestsKnown' /\ Balanced'
<1>1. UNCHANGED <<pc, pending, committed, filePending, stateFile, requests, reply,
                  receipts, credited>>
  BY DEF Tick, Flow, TapRecreated, ClockStepsBack, agentVars, fileVars, netVars,
         monitorVars
<1>2. FilesAgree' /\ RequestsKnown'
  BY <1>1 DEF FilesAgree, RequestsKnown, Settled
<1>3. \/ UNCHANGED <<traffic, counter, lossy>>
      \/ traffic' = traffic + 1 /\ counter' = counter + 1 /\ lossy' = lossy
      \/ traffic' = traffic /\ counter' = 0 /\ lossy' = TRUE
  BY DEF Tick, Flow, TapRecreated, ClockStepsBack, historyVars
<1>4. ASSUME NEW c \in Nat, NEW s \in State, Accounts(c, s)
      PROVE  /\ c <= traffic'
             /\ s.known => c + counter' <= traffic' + s.base
             /\ ~lossy' => s.known /\ s.base <= counter'
                           /\ c + counter' = traffic' + s.base
  <2>1. s.base \in Nat /\ traffic \in Nat /\ counter \in Nat
    BY DEF State, TypeOK
  <2>2. QED
    BY <1>3, <1>4, <2>1 DEF Accounts
<1>5. \A p \in pending \cup filePending : Owed(p)' = Owed(p)
  BY <1>1 DEF Owed, Settled
<1>6. Balanced'
  <2>1. filePending = {} => Accounts(credited, stateFile)'
    BY <1>1, <1>4 DEF Balanced, Accounts, TypeOK
  <2>2. pc \notin {"off", "dead"} /\ pending = {} => Accounts(credited, committed)'
    BY <1>1, <1>4 DEF Balanced, Accounts, TypeOK
  <2>3. ASSUME NEW p \in pending \cup filePending
        PROVE  Accounts(Owed(p), p.after)'
    <3>1. Accounts(Owed(p), p.after) /\ Owed(p) \in Nat /\ p.after \in State
      BY HandTypes, OwedType DEF Balanced
    <3>2. QED
      BY <1>4, <1>5, <3>1 DEF Accounts
  <2>4. QED
    BY <1>1, <2>1, <2>2, <2>3 DEF Balanced
<1>7. QED
  BY <1>2, <1>6

(* A step of the Agent moves payloads and baselines, not the totals. *)
LEMMA KeepBalance ==
  ASSUME UNCHANGED <<traffic, counter, lossy, credited, receipts>>,
         filePending' = {} => Accounts(credited, stateFile'),
         pc' \notin {"off", "dead"} /\ pending' = {} => Accounts(credited, committed'),
         \A p \in pending' \cup filePending' : Accounts(Owed(p), p.after)
  PROVE  Balanced'
BY DEF Balanced, Accounts, Owed, Settled

(* The steps of a cycle up to the request but for Collect: memory and disk   *)
(* come to agree, and the request carries the payload on disk.               *)
LEMMA PrepareBooks ==
  ASSUME TypeOK, FilesAgree, RequestsKnown, Balanced,
         Start \/ Rotate \/ SaveCarry \/ SavePending \/ Post
  PROVE  FilesAgree' /\ RequestsKnown' /\ Balanced'
<1>1. UNCHANGED <<traffic, counter, lossy, credited, receipts, stateFile>>
  BY DEF Start, Rotate, SaveCarry, SavePending, Post, SaveRuntime, fileVars,
         monitorVars, worldVars, historyVars
<1>2. CASE Start
  <2>1. /\ pc \in {"off", "dead"} /\ pc' = "boot" /\ pending' = filePending
        /\ committed' = stateFile /\ UNCHANGED <<filePending, requests, reply>>
    BY <1>2 DEF Start, fileVars, netVars
  <2>2. FilesAgree'
    BY <2>1 DEF FilesAgree
  <2>3. RequestsKnown'
    BY <1>1, <2>1 DEF RequestsKnown, Settled
  <2>4. Balanced'
    BY <1>1, <2>1, KeepBalance DEF Balanced
  <2>5. QED
    BY <2>2, <2>3, <2>4
<1>3. CASE Rotate
  <2>1. /\ pc \in {"boot", "idle"} /\ pc' = "saveCarry"
        /\ UNCHANGED <<pending, committed, filePending, requests, reply>>
    BY <1>3 DEF Rotate, netVars
  <2>2. FilesAgree'
    BY <1>1, <2>1 DEF FilesAgree
  <2>3. RequestsKnown'
    BY <1>1, <2>1 DEF RequestsKnown, Settled
  <2>4. Balanced'
    BY <1>1, <2>1, KeepBalance DEF Balanced
  <2>5. QED
    BY <2>2, <2>3, <2>4
<1>4. CASE SaveCarry
  <2>1. /\ pc = "saveCarry" /\ filePending' = pending
        /\ pc' = IF pending # {} THEN "post" ELSE "collect"
        /\ UNCHANGED <<pending, committed, requests, reply>>
    BY <1>4 DEF SaveCarry, SaveRuntime, netVars
  <2>2. pending = filePending
    BY <2>1 DEF FilesAgree
  <2>3. FilesAgree'
    BY <1>1, <2>1, <2>2 DEF FilesAgree
  <2>4. RequestsKnown'
    BY <1>1, <2>1, <2>2 DEF RequestsKnown, Settled
  <2>5. Balanced'
    BY <1>1, <2>1, <2>2, KeepBalance DEF Balanced
  <2>6. QED
    BY <2>3, <2>4, <2>5
<1>5. CASE SavePending
  <2>1. /\ pc = "savePending" /\ pc' = "post" /\ filePending' = pending
        /\ UNCHANGED <<pending, committed, requests, reply>>
    BY <1>5 DEF SavePending, SaveRuntime, netVars
  <2>2. filePending = {}
    BY <2>1 DEF FilesAgree
  <2>3. FilesAgree'
    BY <1>1, <2>1 DEF FilesAgree
  <2>4. RequestsKnown'
    BY <1>1, <2>1, <2>2 DEF RequestsKnown, Settled
  <2>5. Balanced'
    BY <1>1, <2>1, <2>2, KeepBalance DEF Balanced
  <2>6. QED
    BY <2>3, <2>4, <2>5
<1>6. CASE Post
  <2>1. /\ pc = "post" /\ pc' = "await" /\ reply' = FALSE
        /\ requests' = requests \cup {[payload |-> p, live |-> TRUE] : p \in pending}
        /\ UNCHANGED <<pending, committed, filePending>>
    BY <1>6 DEF Post, fileVars
  <2>2. pending = filePending
    BY <2>1 DEF FilesAgree
  <2>3. FilesAgree'
    BY <1>1, <2>1 DEF FilesAgree
  <2>4. RequestsKnown'
    BY <1>1, <2>1, <2>2 DEF RequestsKnown, Settled
  <2>5. Balanced'
    BY <1>1, <2>1, <2>2, KeepBalance DEF Balanced
  <2>6. QED
    BY <2>3, <2>4, <2>5
<1>7. QED
  BY <1>2, <1>3, <1>4, <1>5, <1>6

(* What Collect makes of a baseline that agrees with the totals: it agrees   *)
(* with them once the payload is added.  A payload whose second has a        *)
(* receipt already is never added: that is a loss.                           *)
LEMMA CollectAccounts ==
  ASSUME TypeOK, NEW seen \in BOOLEAN, NEW complete \in BOOLEAN,
         Collect(seen, complete), Accounts(credited, committed)
  PROVE  \A p \in pending' : Accounts(Owed(p), p.after)'
<1> DEFINE d == IF seen THEN DeltaCounter(counter, committed) ELSE 0
           s == AfterCollect(seen, complete)
<1>1. /\ credited \in Nat /\ traffic \in Nat /\ counter \in Nat
      /\ committed.base \in Nat /\ committed.known \in BOOLEAN
  BY DEF TypeOK, State
<1>2. /\ lossy => lossy'
      /\ ~committed.known => lossy'
      /\ ~seen /\ complete => lossy'
      /\ clock \in receipts => lossy'
  BY DEF Collect
<1>3. UNCHANGED <<traffic, counter, credited, receipts, committed>>
  BY DEF Collect, worldVars, monitorVars
<1>4. d \in Nat /\ s \in State
  BY <1>1, DeltaIsNat, CollectedType DEF TypeOK
<1>5. /\ credited + d <= traffic
      /\ s.known => credited + d + counter <= traffic + s.base
      /\ ~lossy' => s.known /\ s.base <= counter
                    /\ credited + d + counter = traffic + s.base
  <2>1. CASE seen
    <3>1. s.base = counter /\ s.known = TRUE
      BY <2>1 DEF AfterCollect
    <3>2. d = IF committed.known /\ counter >= committed.base
              THEN counter - committed.base ELSE 0
      BY <2>1 DEF DeltaCounter
    <3>3. QED
      BY <1>1, <1>2, <3>1, <3>2 DEF Accounts
  <2>2. CASE ~seen /\ complete
    <3>1. ~s.known /\ d = 0
      BY <2>2 DEF AfterCollect
    <3>2. lossy'
      BY <1>2, <2>2
    <3>3. credited + 0 = credited /\ credited <= traffic
      BY <1>1 DEF Accounts
    <3>4. QED
      BY <3>1, <3>2, <3>3
  <2>3. CASE ~seen /\ ~complete
    <3>1. s.known = committed.known /\ s.base = committed.base /\ d = 0
      BY <1>1, <2>3 DEF AfterCollect
    <3>2. QED
      BY <1>1, <1>2, <3>1 DEF Accounts
  <2>4. QED
    BY <2>1, <2>2, <2>3
<1>6. ASSUME NEW p \in pending'
      PROVE  Accounts(Owed(p), p.after)'
  <2>1. p.time = clock /\ p.delta = d /\ p.after = s
    BY <1>6 DEF Collect
  <2>2. CASE clock \in receipts
    <3>1. Owed(p)' = credited
      BY <1>3, <2>1, <2>2 DEF Owed, Settled
    <3>2. lossy'
      BY <1>2, <2>2
    <3>3. QED
      BY <1>1, <1>3, <1>4, <1>5, <2>1, <3>1, <3>2 DEF Accounts, State
  <2>3. CASE clock \notin receipts
    <3>1. Owed(p)' = credited + d
      BY <1>3, <2>1, <2>3 DEF Owed, Settled
    <3>2. QED
      BY <1>3, <1>5, <2>1, <3>1 DEF Accounts
  <2>4. QED
    BY <2>2, <2>3
<1>7. QED
  BY <1>6

LEMMA CollectBooks ==
  ASSUME TypeOK, FilesAgree, RequestsKnown, Balanced,
         NEW seen \in BOOLEAN, NEW complete \in BOOLEAN, Collect(seen, complete)
  PROVE  FilesAgree' /\ RequestsKnown' /\ Balanced'
<1>1. /\ pc = "collect" /\ pc' = "savePending" /\ (lossy => lossy')
      /\ UNCHANGED <<traffic, counter, credited, receipts, committed, filePending,
                     stateFile, requests, reply>>
  BY DEF Collect, fileVars, netVars, worldVars, monitorVars
<1>2. pending = {} /\ filePending = {}
  BY <1>1 DEF FilesAgree
<1>3. pending' # {}
  BY DEF Collect
<1>4. FilesAgree'
  BY <1>1, <1>2 DEF FilesAgree
<1>5. RequestsKnown'
  BY <1>1, <1>2 DEF RequestsKnown, Settled
<1>6. Accounts(credited, stateFile)' /\ Accounts(credited, committed)
  BY <1>1, <1>2 DEF Balanced, Accounts
<1>7. \A p \in pending' : Accounts(Owed(p), p.after)'
  BY <1>6, CollectAccounts
<1>8. Balanced'
  BY <1>1, <1>2, <1>3, <1>6, <1>7 DEF Balanced
<1>9. QED
  BY <1>4, <1>5, <1>8

(* An answer that arrives or does not, and the writes that follow it: the    *)
(* payload is settled before state.json moves on, and state.json has moved   *)
(* on before runtime.json lets go of it.                                     *)
LEMMA AnswerBooks ==
  ASSUME TypeOK, FilesAgree, RequestsKnown, Balanced,
         PushFails \/ PushAnswered \/ SaveState \/ SaveStateFails \/ ClearPending
  PROVE  FilesAgree' /\ RequestsKnown' /\ Balanced'
<1>1. UNCHANGED <<traffic, counter, lossy, credited, receipts>>
  BY DEF PushFails, PushAnswered, SaveState, SaveStateFails, ClearPending, monitorVars,
         worldVars, historyVars
<1>2. CASE PushFails
  <2>1. /\ pc = "await" /\ pc' = "idle" /\ reply' = FALSE /\ requests' = Abandoned
        /\ UNCHANGED <<pending, committed, filePending, stateFile>>
    BY <1>2 DEF PushFails, EndCycle, fileVars
  <2>2. FilesAgree'
    BY <2>1 DEF FilesAgree
  <2>3. \A r \in Abandoned : /\ r.live = FALSE
                              /\ \E q \in requests : r.payload = q.payload
    BY DEF Abandoned, TypeOK, Request
  <2>4. RequestsKnown'
    BY <1>1, <2>1, <2>3 DEF RequestsKnown, Settled
  <2>5. Balanced'
    BY <1>1, <2>1, KeepBalance DEF Balanced
  <2>6. QED
    BY <2>2, <2>4, <2>5
<1>3. CASE PushAnswered
  <2>1. /\ pc = "await" /\ pc' = "saveState" /\ reply /\ reply' = FALSE
        /\ filePending' = pending
        /\ UNCHANGED <<pending, committed, stateFile, requests>>
    BY <1>3 DEF PushAnswered, SaveRuntime
  <2>2. pending = filePending
    BY <2>1 DEF FilesAgree
  <2>3. FilesAgree'
    BY <2>1, <2>2 DEF FilesAgree
  <2>4. RequestsKnown'
    BY <1>1, <2>1, <2>2 DEF RequestsKnown, Settled
  <2>5. Balanced'
    BY <1>1, <2>1, <2>2, KeepBalance DEF Balanced
  <2>6. QED
    BY <2>3, <2>4, <2>5
<1>4. CASE SaveState
  <2>1. PICK p \in pending : stateFile' = p.after
    BY <1>4 DEF SaveState
  <2>2. /\ pc = "saveState" /\ pc' = "clear"
        /\ UNCHANGED <<pending, committed, filePending, requests, reply>>
    BY <1>4 DEF SaveState, netVars
  <2>3. pending = filePending /\ pending # {}
    BY <2>1, <2>2 DEF FilesAgree
  <2>4. FilesAgree'
    BY <2>1, <2>2 DEF FilesAgree, TypeOK
  <2>5. RequestsKnown'
    BY <1>1, <2>2 DEF RequestsKnown, Settled
  <2>6. Balanced'
    BY <1>1, <2>2, <2>3, KeepBalance DEF Balanced
  <2>7. QED
    BY <2>4, <2>5, <2>6
<1>5. CASE SaveStateFails
  <2>1. /\ pc = "saveState" /\ pc' = "idle"
        /\ UNCHANGED <<pending, committed, filePending, stateFile, requests, reply>>
    BY <1>5 DEF SaveStateFails, EndCycle, fileVars, netVars
  <2>2. FilesAgree'
    BY <2>1 DEF FilesAgree
  <2>3. RequestsKnown'
    BY <1>1, <2>1 DEF RequestsKnown, Settled
  <2>4. Balanced'
    BY <1>1, <2>1, KeepBalance DEF Balanced
  <2>5. QED
    BY <2>2, <2>3, <2>4
<1>6. CASE ClearPending
  <2>1. PICK p \in pending : committed' = p.after
    BY <1>6 DEF ClearPending
  <2>2. /\ pc = "clear" /\ pc' \in {"collect", "idle"}
        /\ pending' = {} /\ filePending' = {}
        /\ UNCHANGED <<stateFile, requests, reply>>
    BY <1>6 DEF ClearPending, EndCycle, netVars
  <2>3. pending = filePending /\ stateFile = p.after /\ Settled(p)
    BY <2>1, <2>2 DEF FilesAgree, RequestsKnown
  <2>4. FilesAgree'
    BY <2>2 DEF FilesAgree
  <2>5. \A q \in pending : Settled(q)
    BY <2>2 DEF RequestsKnown
  <2>6. RequestsKnown'
    BY <1>1, <2>2, <2>3, <2>5 DEF RequestsKnown, Settled
  <2>7. Accounts(credited, p.after)
    BY <2>1, <2>3 DEF Balanced, Owed
  <2>8. Balanced'
    BY <1>1, <2>1, <2>2, <2>3, <2>7, KeepBalance
  <2>9. QED
    BY <2>4, <2>6, <2>8
<1>7. QED
  BY <1>2, <1>3, <1>4, <1>5, <1>6

(* A stop, a crash or a power loss: the next start counts from what the      *)
(* files hold, and the copies that were sent are as settled as before.       *)
LEMMA StopBooks ==
  ASSUME TypeOK, FilesAgree, RequestsKnown, Balanced,
         GracefulStop \/ Crash \/ PowerLoss
  PROVE  FilesAgree' /\ RequestsKnown' /\ Balanced'
<1>1. /\ pc' \in {"off", "dead"} /\ pending' = {} /\ requests' = Abandoned
      /\ reply' = FALSE
      /\ UNCHANGED <<traffic, counter, credited, receipts>>
  BY DEF GracefulStop, Crash, PowerLoss, Stopped, worldVars, monitorVars
<1>2. filePending' = filePending
  BY DEF GracefulStop, Crash, PowerLoss, FilesAgree, fileVars
<1>3. FilesAgree'
  BY <1>1 DEF FilesAgree
<1>4. \A r \in Abandoned : /\ r.live = FALSE
                            /\ \E q \in requests : r.payload = q.payload
  BY DEF Abandoned, TypeOK, Request
<1>5. RequestsKnown'
  BY <1>1, <1>2, <1>4 DEF RequestsKnown, Settled
<1>6. Balanced'
  <2>1. CASE GracefulStop \/ Crash
    <3>1. UNCHANGED <<lossy, stateFile>>
      BY <2>1 DEF GracefulStop, Crash, fileVars
    <3>2. QED
      BY <1>1, <1>2, <3>1, KeepBalance DEF Balanced
  <2>2. CASE PowerLoss
    <3>1. stateFile' = NoState /\ lossy' = TRUE
      BY <2>2 DEF PowerLoss
    <3>2. filePending = {} => Accounts(credited, NoState)'
      BY <1>1, <3>1 DEF Balanced, Accounts, NoState
    <3>3. \A p \in filePending : Accounts(Owed(p), p.after)'
      BY <1>1, <1>2, <3>1 DEF Balanced, Accounts, Owed, Settled
    <3>4. QED
      BY <1>1, <1>2, <3>1, <3>2, <3>3 DEF Balanced
  <2>3. QED
    BY <2>1, <2>2
<1>7. QED
  BY <1>3, <1>5, <1>6

(* A copy that is delivered is the payload on disk, and is added once; or    *)
(* it is settled, and adds nothing.                                          *)
LEMMA DeliverBooks ==
  ASSUME TypeOK, FilesAgree, RequestsKnown, Balanced,
         NEW r \in requests, Deliver(r)
  PROVE  FilesAgree' /\ RequestsKnown' /\ Balanced'
<1> DEFINE p == r.payload
<1>1. /\ requests' = requests \ {r}
      /\ reply' = IF r.live THEN TRUE ELSE reply
      /\ UNCHANGED <<pc, pending, committed, filePending, stateFile, traffic, counter,
                     lossy>>
  BY DEF Deliver, agentVars, fileVars, worldVars, historyVars
<1>2. FilesAgree'
  BY <1>1 DEF FilesAgree
<1>3. p.time \in receipts'
  BY DEF Deliver, Settled, monitorVars
<1>4. receipts \subseteq receipts'
  BY DEF Deliver, monitorVars
<1>5. \A q \in requests : q.live /\ r.live => q = r
  <2>1. ASSUME NEW q \in requests, q.live, r.live
        PROVE  q = r
    <3>1. q.payload \in pending /\ r.payload \in pending
      BY <2>1 DEF RequestsKnown
    <3>2. q.payload = r.payload
      BY <3>1 DEF TypeOK
    <3>3. /\ q = [payload |-> q.payload, live |-> q.live]
          /\ r = [payload |-> r.payload, live |-> r.live]
          /\ q.live \in BOOLEAN /\ r.live \in BOOLEAN
      BY DEF TypeOK, Request
    <3>4. q.live = TRUE /\ r.live = TRUE
      BY <2>1, <3>3
    <3>5. QED
      BY <3>2, <3>3, <3>4
  <2>2. QED
    BY <2>1
<1>6. RequestsKnown'
  <2>1. \A q \in requests' : Settled(q.payload)' \/ q.payload \in filePending'
    BY <1>1, <1>4 DEF RequestsKnown, Settled
  <2>2. \A q \in requests' : q.live => pc' = "await" /\ q.payload \in pending'
    BY <1>1 DEF RequestsKnown
  <2>3. reply' => pc' = "await" /\ \A q \in requests' : ~q.live
    BY <1>1, <1>5 DEF RequestsKnown
  <2>4. reply' \/ pc' \in {"saveState", "clear"} => \A q \in pending' : Settled(q)'
    <3>1. CASE r.live
      <4>1. \A q \in pending : q = p
        BY <3>1 DEF RequestsKnown, TypeOK
      <4>2. QED
        BY <1>1, <1>3, <4>1 DEF Settled
    <3>2. CASE ~r.live
      BY <1>1, <1>4, <3>2 DEF RequestsKnown, Settled
    <3>3. QED
      BY <3>1, <3>2
  <2>5. QED
    BY <2>1, <2>2, <2>3, <2>4 DEF RequestsKnown
<1>7. CASE Settled(p)
  <2>1. UNCHANGED <<receipts, credited>>
    BY <1>7 DEF Deliver, monitorVars
  <2>2. Balanced'
    BY <1>1, <2>1, KeepBalance DEF Balanced
  <2>3. QED
    BY <1>2, <1>6, <2>2
<1>8. CASE ~Settled(p)
  <2>1. receipts' = receipts \cup {p.time} /\ credited' = credited + p.delta
    BY <1>8 DEF Deliver
  <2>2. p \in filePending
    BY <1>8 DEF RequestsKnown
  <2>3. \A q \in pending \cup filePending : q = p
    BY <2>2 DEF FilesAgree, TypeOK
  <2>4. p.time \in Nat /\ p.delta \in Nat /\ p.after \in State
    BY <2>2, HandTypes
  <2>5. Accounts(credited', p.after)
    BY <1>8, <2>1, <2>2 DEF Balanced, Owed
  <2>6. filePending' # {} /\ (pc' \notin {"off", "dead"} => pending' # {})
    BY <1>1, <2>2 DEF FilesAgree
  <2>7. ASSUME NEW q \in pending' \cup filePending'
        PROVE  Accounts(Owed(q), q.after)'
    <3>1. q = p
      BY <1>1, <2>3
    <3>2. Owed(q)' = credited'
      BY <1>3, <3>1 DEF Owed, Settled
    <3>3. QED
      BY <1>1, <2>5, <3>1, <3>2 DEF Accounts
  <2>8. Balanced'
    BY <2>6, <2>7 DEF Balanced
  <2>9. QED
    BY <1>2, <1>6, <2>8
<1>9. QED
  BY <1>7, <1>8

(* No receipt that a copy still needs is pruned. *)
LEMMA PruneBooks ==
  ASSUME OutageBounded, TypeOK, FilesAgree, RequestsKnown, Balanced,
         NEW t \in receipts, PruneReceipt(t)
  PROVE  FilesAgree' /\ RequestsKnown' /\ Balanced'
<1>1. /\ receipts' = receipts \ {t}
      /\ UNCHANGED <<pc, pending, committed, filePending, stateFile, requests, reply,
                     traffic, counter, credited, lossy>>
  BY DEF PruneReceipt, agentVars, fileVars, netVars, worldVars, historyVars
<1>2. /\ \A p \in pending \cup filePending : p.time # t
      /\ \A r \in requests : r.payload.time # t
  BY DEF PruneReceipt, Resendable
<1>3. /\ \A p \in pending \cup filePending : Settled(p)' <=> Settled(p)
      /\ \A r \in requests : Settled(r.payload)' <=> Settled(r.payload)
  BY <1>1, <1>2 DEF Settled
<1>4. FilesAgree'
  BY <1>1 DEF FilesAgree
<1>5. RequestsKnown'
  BY <1>1, <1>3 DEF RequestsKnown
<1>6. \A p \in pending \cup filePending : Owed(p)' = Owed(p)
  BY <1>1, <1>3 DEF Owed
<1>7. Balanced'
  BY <1>1, <1>6 DEF Balanced, Accounts
<1>8. QED
  BY <1>4, <1>5, <1>7

LEMMA BooksNext ==
  ASSUME OutageBounded, TypeOK, BooksBalance, [Next]_vars
  PROVE  BooksBalance'
<1> SUFFICES ASSUME ~saveLost'
             PROVE  FilesAgree' /\ RequestsKnown' /\ Balanced'
  BY DEF BooksBalance
<1>1. ~saveLost
  BY DEF Next, AgentStep, vars, historyVars, Tick, Flow, TapRecreated, ClockStepsBack,
         Start, Rotate, SaveCarry, SavePending, Post, SaveState, ClearPending, Collect,
         PushFails, PushAnswered, SaveStateFails, ClearFails, GracefulStop, Crash,
         PowerLoss, Deliver, PruneReceipt
<1>2. FilesAgree /\ RequestsKnown /\ Balanced
  BY <1>1 DEF BooksBalance
<1>3. CASE AgentStep
  BY <1>2, <1>3, PrepareBooks, CollectBooks, AnswerBooks DEF AgentStep
<1>4. CASE UNCHANGED vars
  BY <1>2, <1>4 DEF vars, agentVars, fileVars, netVars, monitorVars, worldVars,
                    historyVars, FilesAgree, RequestsKnown, Balanced, Accounts, Owed,
                    Settled
<1>5. ~ClearFails
  BY DEF ClearFails
<1>6. CASE \E r \in requests : Deliver(r)
  BY <1>2, <1>6, DeliverBooks
<1>7. CASE \E t \in receipts : PruneReceipt(t)
  BY <1>2, <1>7, PruneBooks
<1>8. QED
  BY <1>2, <1>3, <1>4, <1>5, <1>6, <1>7, WorldBooks, AnswerBooks, StopBooks DEF Next

-----------------------------------------------------------------------------
(* As long as receipts outlive their payloads and runtime.json was never     *)
(* left with a payload that memory had let go of, every baseline agrees with *)
(* the Monitor's totals: the inductive invariant of the push path.           *)
THEOREM BooksAlwaysBalance ==
  ASSUME OutageBounded
  PROVE  Spec => []BooksBalance
<1>1. Init => BooksBalance
  BY BooksInit
<1>2. TypeOK /\ BooksBalance /\ [Next]_vars => BooksBalance'
  BY BooksNext
<1>3. QED
  BY <1>1, <1>2, TypeCorrect, PTL DEF Spec

(* No byte is added twice, whatever is lost, repeated, delayed or restarted. *)
THEOREM NothingCountedTwice ==
  ASSUME OutageBounded
  PROVE  Spec => []CreditedOnce
<1>1. TypeOK /\ BooksBalance => CreditedOnce
  <2> SUFFICES ASSUME TypeOK, FilesAgree, RequestsKnown, Balanced
               PROVE  credited <= traffic
    BY DEF BooksBalance, CreditedOnce
  <2>1. CASE filePending = {}
    BY <2>1 DEF Balanced, Accounts
  <2>2. CASE filePending # {}
    <3>1. PICK p \in filePending : TRUE
      BY <2>2
    <3>2. Owed(p) <= traffic /\ Owed(p) \in Nat /\ p.delta \in Nat
      BY OwedType, HandTypes DEF Balanced, Accounts
    <3>3. QED
      BY <3>2 DEF Owed, TypeOK
  <2>3. QED
    BY <2>1, <2>2
<1>2. QED
  BY <1>1, TypeCorrect, BooksAlwaysBalance, PTL

(* No byte is lost either, as long as nothing happened that may lose bytes.  *)
THEOREM NothingLost ==
  ASSUME OutageBounded
  PROVE  Spec => []ExactWhenUndisturbed
<1>1. TypeOK /\ BooksBalance => ExactWhenUndisturbed
  <2> SUFFICES ASSUME TypeOK, FilesAgree, RequestsKnown, Balanced, ~lossy
               PROVE  /\ Baseline.known /\ Baseline.base <= counter
                      /\ credited + Outstanding + (counter - Baseline.base) = traffic
    BY DEF BooksBalance, ExactWhenUndisturbed
  <2>1. CASE filePending = {}
    <3>1. Baseline = stateFile /\ Outstanding = 0
      BY <2>1 DEF Baseline, Outstanding
    <3>2. QED
      BY <2>1, <3>1 DEF Balanced, Accounts, TypeOK, State
  <2>2. CASE filePending # {}
    <3>1. PICK p \in filePending : TRUE
      BY <2>2
    <3>2. (CHOOSE q \in filePending : TRUE) = p
      BY <3>1 DEF TypeOK
    <3>3. /\ Baseline = p.after
          /\ Outstanding = IF Settled(p) THEN 0 ELSE p.delta
      BY <2>2, <3>2 DEF Baseline, Outstanding, TypeOK
    <3>4. Accounts(Owed(p), p.after) /\ p.delta \in Nat /\ p.after \in State
      BY HandTypes DEF Balanced
    <3>5. Owed(p) = credited + Outstanding
      BY <3>3, <3>4 DEF Owed, TypeOK
    <3>6. QED
      BY <3>3, <3>4, <3>5 DEF Accounts, TypeOK, State
  <2>3. QED
    BY <2>1, <2>2
<1>2. QED
  BY <1>1, TypeCorrect, BooksAlwaysBalance, PTL
=============================================================================
