------------------------ MODULE AgentPushRefinement ------------------------
(***************************************************************************)
(* AgentPush implements ExactlyOnce, and the sampler windows are reported  *)
(* once and kept: theorems for every number of ticks, bytes and faults,    *)
(* also for those faults after which bytes are counted twice.              *)
(***************************************************************************)
EXTENDS AgentPushProofs

(* What may have left the Agent: the payload on disk, the copies on their    *)
(* way and what the Monitor has added; and with them the payload in memory.  *)
Copies == {r.payload : r \in requests}
Issued == filePending \cup applied \cup Copies
Held   == pending \cup Issued

(* Every window is in one payload or in the carry.  Between Collect and      *)
(* SavePending alone the file has in its carry what memory has in a payload, *)
(* and then nothing of that payload has left the Agent.                      *)
Apart ==
  /\ \A p, q \in Held : p # q => p.windows \cap q.windows = {}
  /\ \A p \in Held : /\ p.windows # {} /\ p.windows \cap carry = {}
                     /\ \A w \in p.windows : w <= window
  /\ \A p \in Issued : p.windows \cap fileCarry = {}
  /\ \A w \in carry \cup fileCarry : w <= window
  /\ pc # "savePending" => pending \subseteq filePending

LEMMA HeldTypes ==
  ASSUME TypeOK
  PROVE  /\ Held \subseteq Payload /\ Issued \subseteq Held
         /\ carry \subseteq Nat /\ fileCarry \subseteq Nat /\ window \in Nat
         /\ \A p \in Held : p.windows \subseteq Nat
<1>1. Copies \subseteq Payload
  BY DEF TypeOK, Copies, Request
<1>2. Held \subseteq Payload /\ Issued \subseteq Held
  BY <1>1 DEF TypeOK, Held, Issued
<1>3. QED
  BY <1>2 DEF TypeOK, Payload

LEMMA InitApart == Init => Apart
BY DEF Init, Apart, Held, Issued, Copies

(* A step that brings no window and no payload. *)
LEMMA ApartKept ==
  ASSUME Apart, Held' \subseteq Held, window' = window,
         \/ carry' \subseteq carry
         \/ carry' \subseteq fileCarry /\ Held' \subseteq Issued,
         \/ fileCarry' \subseteq carry
         \/ fileCarry' \subseteq fileCarry /\ Issued' \subseteq Issued,
         pc' # "savePending" => pending' \subseteq filePending'
  PROVE  Apart'
<1>1. Issued' \subseteq Held'
  BY DEF Held
<1>2. \A p, q \in Held' : p # q => p.windows \cap q.windows = {}
  BY DEF Apart
<1>3. \A p \in Held' : /\ p.windows # {} /\ p.windows \cap carry' = {}
                       /\ \A w \in p.windows : w <= window'
  BY DEF Apart
<1>4. \A p \in Issued' : p.windows \cap fileCarry' = {}
  BY <1>1 DEF Apart
<1>5. \A w \in carry' \cup fileCarry' : w <= window'
  BY DEF Apart
<1>6. QED
  BY <1>2, <1>3, <1>4, <1>5 DEF Apart

(* A cycle begins: a new window joins the carry. *)
LEMMA RotateApart ==
  ASSUME TypeOK, Apart, Rotate
  PROVE  Apart'
<1>1. /\ pc \in {"boot", "idle"} /\ pc' = "saveCarry"
      /\ UNCHANGED <<pending, filePending, fileCarry, requests, applied>>
      /\ \/ UNCHANGED <<window, carry>>
         \/ window' = window + 1 /\ carry' = carry \cup {window + 1}
  BY DEF Rotate, netVars, monitorVars
<1>2. Held' = Held /\ Issued' = Issued
  BY <1>1 DEF Held, Issued, Copies
<1>3. window \in Nat /\ window <= window' /\ window' \in Nat
      /\ \A w \in carry' : w \in carry \/ (w = window + 1 /\ w = window')
  BY <1>1, HeldTypes
<1>4. \A p \in Held : \A w \in p.windows : w \in Nat /\ w <= window /\ w # window + 1 /\ w <= window'
  BY <1>3, HeldTypes DEF Apart
<1>5. \A p \in Held : p.windows \cap carry' = {}
  BY <1>3, <1>4 DEF Apart
<1>6. \A w \in carry' \cup fileCarry' : w <= window'
  BY <1>1, <1>3, HeldTypes DEF Apart
<1>7. QED
  BY <1>1, <1>2, <1>4, <1>5, <1>6 DEF Apart

(* The carry becomes the windows of a payload. *)
LEMMA CollectApart ==
  ASSUME TypeOK, Apart, NEW seen \in BOOLEAN, NEW complete \in BOOLEAN,
         Collect(seen, complete)
  PROVE  /\ Apart' /\ pc = "collect" /\ pc' = "savePending" /\ carry # {} /\ carry' = {}
         /\ \E p : pending' = {p} /\ p.windows = carry /\ p.time = clock
<1>1. /\ pc = "collect" /\ pc' = "savePending" /\ carry # {} /\ carry' = {}
      /\ UNCHANGED <<filePending, fileCarry, requests, applied, window>>
  BY DEF Collect, fileVars, netVars, monitorVars
<1>2. PICK p : pending' = {p} /\ p.windows = carry /\ p.time = clock
  <2> DEFINE d == IF seen THEN DeltaCounter(counter, committed) ELSE 0
             s == AfterCollect(seen, complete)
             q == [time |-> clock, delta |-> d, windows |-> carry, after |-> s]
  <2>1. pending' = {q}
    BY DEF Collect
  <2>2. q.windows = carry /\ q.time = clock
    OBVIOUS
  <2> HIDE DEF q
  <2>3. QED
    BY <2>1, <2>2
<1>3. Issued' = Issued /\ Held' = {p} \cup Issued /\ Issued \subseteq Held
  BY <1>1, <1>2 DEF Held, Issued, Copies
<1>4. \A q \in Held' : q = p \/ q \in Held
  BY <1>3
<1>5. \A q, r \in Held' : q # r => q.windows \cap r.windows = {}
  BY <1>2, <1>3, <1>4 DEF Apart
<1>6. \A q \in Held' : q.windows # {} /\ \A w \in q.windows : w <= window
  BY <1>1, <1>2, <1>4 DEF Apart
<1>7. QED
  BY <1>1, <1>2, <1>3, <1>5, <1>6 DEF Apart

(* A stop saves the open window. *)
LEMMA StopApart ==
  ASSUME TypeOK, Apart, GracefulStop
  PROVE  Apart'
<1>1. /\ pc = "idle" /\ pc' = "off" /\ pending' = {} /\ carry' = {} /\ requests' = Abandoned
      /\ window' = window + 1 /\ filePending' = pending
      /\ fileCarry' = carry \cup {window + 1} /\ applied' = applied
  BY DEF GracefulStop, Stopped, monitorVars
<1>2. pending \subseteq filePending
  BY <1>1 DEF Apart
<1>3. \A r \in Abandoned : \E q \in requests : r.payload = q.payload
  BY DEF Abandoned, TypeOK, Request
<1>4. Copies' \subseteq Copies
  BY <1>1, <1>3 DEF Copies
<1>5. Held' \subseteq Held /\ Issued' \subseteq Held'
  BY <1>1, <1>2, <1>4 DEF Held, Issued
<1>6. \A p \in Held : \A w \in p.windows : w \in Nat /\ w <= window /\ w # window + 1 /\ w <= window'
  BY <1>1, HeldTypes DEF Apart
<1>7. \A p \in Held : p.windows \cap fileCarry' = {}
  BY <1>1, <1>6 DEF Apart
<1>8. \A w \in fileCarry' : w <= window'
  BY <1>1, HeldTypes DEF Apart
<1>9. QED
  BY <1>1, <1>5, <1>6, <1>7, <1>8 DEF Apart

LEMMA StepApart == TypeOK /\ Apart /\ [Next]_vars => Apart'
<1> SUFFICES ASSUME TypeOK, Apart, [Next]_vars
             PROVE  Apart'
  OBVIOUS
<1>1. CASE \/ Tick \/ Flow \/ TapRecreated \/ ClockStepsBack \/ SaveState \/ SaveStateFails
           \/ (\E t \in receipts : PruneReceipt(t)) \/ UNCHANGED vars
  <2>1. /\ UNCHANGED <<pending, filePending, carry, fileCarry, requests, applied, window>>
        /\ pc' = pc \/ pc = "saveState"
    BY <1>1 DEF Tick, Flow, TapRecreated, ClockStepsBack, SaveState, SaveStateFails,
                PruneReceipt, vars, agentVars, fileVars, netVars, monitorVars, historyVars
  <2>2. Held' = Held /\ Issued' = Issued
    BY <2>1 DEF Held, Issued, Copies
  <2>3. QED
    BY <2>1, <2>2, ApartKept DEF Apart
<1>2. CASE Start
  <2>1. /\ pending' = filePending /\ carry' = fileCarry
        /\ UNCHANGED <<filePending, fileCarry, requests, applied, window>>
    BY <1>2 DEF Start, fileVars, netVars, monitorVars, historyVars
  <2>2. Held' = Issued /\ Issued' = Issued /\ Issued \subseteq Held
    BY <2>1 DEF Held, Issued, Copies
  <2>3. QED
    BY <2>1, <2>2, ApartKept
<1>3. CASE SaveCarry \/ SavePending \/ PushAnswered
  <2>1. /\ filePending' = pending /\ fileCarry' = carry
        /\ UNCHANGED <<pending, carry, requests, applied, window>>
    BY <1>3 DEF SaveCarry, SavePending, PushAnswered, SaveRuntime, netVars, monitorVars,
                historyVars
  <2>2. Held' \subseteq Held
    BY <2>1 DEF Held, Issued, Copies
  <2>3. QED
    BY <2>1, <2>2, ApartKept
<1>4. CASE Post
  <2>1. /\ pc = "post" /\ requests' = requests \cup {[payload |-> p, live |-> TRUE] : p \in pending}
        /\ UNCHANGED <<pending, filePending, carry, fileCarry, applied, window>>
    BY <1>4 DEF Post, fileVars, monitorVars, historyVars
  <2>2. pending \subseteq filePending
    BY <2>1 DEF Apart
  <2>3. Copies' = Copies \cup pending
    <3>1. \A p : [payload |-> p, live |-> TRUE].payload = p
      OBVIOUS
    <3>2. ASSUME NEW c
          PROVE  (\E r \in requests' : c = r.payload)
                   <=> (c \in pending \/ \E r \in requests : c = r.payload)
      BY <2>1, <3>1
    <3>3. QED
      BY <3>2 DEF Copies
  <2>4. Held' = Held /\ Issued' = Issued
    BY <2>1, <2>2, <2>3 DEF Held, Issued
  <2>5. QED
    BY <2>1, <2>2, <2>4, ApartKept
<1>5. CASE PushFails \/ Crash \/ PowerLoss
  <2>1. /\ requests' = Abandoned /\ carry' \subseteq carry
        /\ pending' = {} \/ (pending' = pending /\ pc = "await")
        /\ UNCHANGED <<filePending, fileCarry, applied, window>>
    BY <1>5 DEF PushFails, Crash, PowerLoss, Stopped, fileVars, monitorVars, historyVars
  <2>2. \A r \in Abandoned : \E q \in requests : r.payload = q.payload
    BY DEF Abandoned, TypeOK, Request
  <2>3. Copies' \subseteq Copies
    BY <2>1, <2>2 DEF Copies
  <2>4. Held' \subseteq Held /\ Issued' \subseteq Issued
    BY <2>1, <2>3 DEF Held, Issued
  <2>5. pending' \subseteq filePending'
    BY <2>1 DEF Apart
  <2>6. QED
    BY <2>1, <2>4, <2>5, ApartKept
<1>6. CASE ClearPending \/ ClearFails
  <2>1. /\ pending' = {} /\ filePending' \subseteq filePending
        /\ fileCarry' \in {carry, fileCarry}
        /\ UNCHANGED <<carry, requests, applied, window>>
    BY <1>6 DEF ClearPending, ClearFails, fileVars, netVars, monitorVars, historyVars
  <2>2. Held' \subseteq Held /\ Issued' \subseteq Issued
    BY <2>1 DEF Held, Issued, Copies
  <2>3. QED
    BY <2>1, <2>2, ApartKept
<1>7. CASE \E r \in requests : Deliver(r)
  <2>1. PICK r \in requests : Deliver(r)
    BY <1>7
  <2>2. /\ requests' \subseteq requests /\ applied' \subseteq applied \cup {r.payload}
        /\ UNCHANGED <<pc, pending, filePending, carry, fileCarry, window>>
    BY <2>1 DEF Deliver, agentVars, fileVars, monitorVars, historyVars
  <2>3. Copies' \subseteq Copies /\ r.payload \in Copies
    BY <2>2 DEF Copies
  <2>4. Held' \subseteq Held /\ Issued' \subseteq Issued
    BY <2>2, <2>3 DEF Held, Issued
  <2>5. QED
    BY <2>2, <2>4, ApartKept DEF Apart
<1>8. QED
  BY <1>1, <1>2, <1>3, <1>4, <1>5, <1>6, <1>7, RotateApart, CollectApart, StopApart
     DEF Next, AgentStep

(* No sampler window is reported by two payloads: not across a crash between *)
(* the two writes of runtime.json, a resend, or a stop that saves the window *)
(* that is open.                                                             *)
THEOREM WindowsReportedOnce == Spec => []WindowOnce
<1>1. Apart => WindowOnce
  BY DEF Apart, WindowOnce, Held, Issued
<1>2. QED
  BY <1>1, TypeCorrect, InitApart, StepApart, PTL DEF Spec

-----------------------------------------------------------------------------
(* What has been sent is settled, or the payload on disk; what memory has    *)
(* let go of, or is about to let go of, is settled; a payload that was added *)
(* stays settled as long as it may be sent again; one that is not saved yet  *)
(* has been neither; and each receipt is of a payload that was added.        *)
Sent ==
  /\ pc \in {"off", "dead"} => pending = {}
  /\ pc \in {"collect", "savePending"} => filePending = {}
  /\ pc \notin {"off", "dead", "savePending"} /\ pending # filePending
       => \A p \in filePending : p.time \in receipts
  /\ \A c \in Copies : c.time \in receipts \/ c \in filePending
  /\ \A r \in requests : r.live => pc = "await" /\ r.payload \in pending
  /\ reply => pc = "await" /\ \A r \in requests : ~r.live
  /\ reply \/ pc \in {"saveState", "clear"} => \A p \in pending : p.time \in receipts
  /\ \A p \in applied : p \in pending \cup filePending \cup Copies => p.time \in receipts
  /\ pc = "savePending" => \A p \in pending : p \notin applied /\ p \notin Copies
  /\ \A t \in receipts : \E q \in applied : q.time = t

LEMMA InitSent == Init => Sent
BY DEF Init, Sent, Copies

LEMMA AbandonedCopies ==
  ASSUME TypeOK, requests' = Abandoned
  PROVE  Copies' \subseteq Copies /\ \A r \in requests' : ~r.live
<1>1. \A r \in Abandoned : r.live = FALSE /\ \E q \in requests : r.payload = q.payload
  BY DEF Abandoned, TypeOK, Request
<1>2. QED
  BY <1>1 DEF Copies

LEMMA PostedCopies ==
  ASSUME Post
  PROVE  /\ Copies' = Copies \cup pending
         /\ \A r \in requests' : r \in requests \/ r.payload \in pending
<1>1. requests' = requests \cup {[payload |-> p, live |-> TRUE] : p \in pending}
  BY DEF Post
<1>2. \A p : [payload |-> p, live |-> TRUE].payload = p
  OBVIOUS
<1>3. ASSUME NEW c
      PROVE  (\E r \in requests' : c = r.payload)
               <=> (c \in pending \/ \E r \in requests : c = r.payload)
  BY <1>1, <1>2
<1>4. QED
  BY <1>1, <1>2, <1>3 DEF Copies

(* The steps of the Agent up to the request. *)
LEMMA PrepareSent ==
  ASSUME TypeOK, Apart, Sent, Start \/ Rotate \/ SaveCarry \/ SavePending \/ Post
  PROVE  Sent'
<1>1. UNCHANGED <<receipts, applied>>
  BY DEF Start, Rotate, SaveCarry, SavePending, Post, monitorVars
<1>2. CASE Start
  <2>1. /\ pc \in {"off", "dead"} /\ pc' = "boot" /\ pending' = filePending
        /\ UNCHANGED <<filePending, requests, reply>>
    BY <1>2 DEF Start, fileVars, netVars
  <2>2. Copies' = Copies
    BY <2>1 DEF Copies
  <2>3. QED
    BY <1>1, <2>1, <2>2 DEF Sent
<1>3. CASE Rotate
  <2>1. /\ pc \in {"boot", "idle"} /\ pc' = "saveCarry"
        /\ UNCHANGED <<pending, filePending, requests, reply>>
    BY <1>3 DEF Rotate, netVars
  <2>2. Copies' = Copies
    BY <2>1 DEF Copies
  <2>3. QED
    BY <1>1, <2>1, <2>2 DEF Sent
<1>4. CASE SaveCarry
  <2>1. /\ pc = "saveCarry" /\ filePending' = pending
        /\ pc' = IF pending # {} THEN "post" ELSE "collect"
        /\ UNCHANGED <<pending, requests, reply>>
    BY <1>4 DEF SaveCarry, SaveRuntime, netVars
  <2>2. Copies' = Copies
    BY <2>1 DEF Copies
  <2>3. \A c \in Copies : c.time \in receipts \/ c \in pending
    BY <2>1 DEF Sent
  <2>4. QED
    BY <1>1, <2>1, <2>2, <2>3 DEF Sent
<1>5. CASE SavePending
  <2>1. /\ pc = "savePending" /\ pc' = "post" /\ filePending' = pending
        /\ UNCHANGED <<pending, requests, reply>>
    BY <1>5 DEF SavePending, SaveRuntime, netVars
  <2>2. Copies' = Copies
    BY <2>1 DEF Copies
  <2>3. QED
    BY <1>1, <2>1, <2>2 DEF Sent
<1>6. CASE Post
  <2>1. /\ pc = "post" /\ pc' = "await" /\ reply' = FALSE
        /\ UNCHANGED <<pending, filePending>>
    BY <1>6 DEF Post, fileVars
  <2>2. pending \subseteq filePending
    BY <2>1 DEF Apart
  <2>3. /\ Copies' = Copies \cup pending
        /\ \A r \in requests' : r \in requests \/ r.payload \in pending
    BY <1>6, PostedCopies
  <2>4. QED
    BY <1>1, <2>1, <2>2, <2>3 DEF Sent
<1>7. QED
  BY <1>2, <1>3, <1>4, <1>5, <1>6

LEMMA CollectSent ==
  ASSUME TypeOK, Apart, Sent, NEW seen \in BOOLEAN, NEW complete \in BOOLEAN,
         Collect(seen, complete)
  PROVE  Sent'
<1>1. UNCHANGED <<filePending, requests, reply, receipts, applied>>
  BY DEF Collect, fileVars, netVars, monitorVars
<1>2. PICK p : /\ pc = "collect" /\ pc' = "savePending" /\ carry # {}
               /\ pending' = {p} /\ p.windows = carry
  BY CollectApart
<1>3. p \notin applied /\ p \notin Copies
  BY <1>2 DEF Apart, Held, Issued
<1>4. Copies' = Copies
  BY <1>1 DEF Copies
<1>5. QED
  BY <1>1, <1>2, <1>3, <1>4 DEF Sent

LEMMA AnswerSent ==
  ASSUME TypeOK, Apart, Sent,
         PushFails \/ PushAnswered \/ SaveState \/ SaveStateFails \/ ClearPending \/ ClearFails
  PROVE  Sent'
<1>1. UNCHANGED <<receipts, applied>>
  BY DEF PushFails, PushAnswered, SaveState, SaveStateFails, ClearPending, ClearFails,
         monitorVars
<1>2. CASE PushFails
  <2>1. /\ pc = "await" /\ pc' = "idle" /\ requests' = Abandoned /\ reply' = FALSE
        /\ UNCHANGED <<pending, filePending>>
    BY <1>2 DEF PushFails, EndCycle, fileVars
  <2>2. QED
    BY <1>1, <2>1, AbandonedCopies DEF Sent
<1>3. CASE PushAnswered
  <2>1. /\ pc = "await" /\ reply /\ pc' = "saveState" /\ reply' = FALSE
        /\ filePending' = pending /\ UNCHANGED <<pending, requests>>
    BY <1>3 DEF PushAnswered, SaveRuntime
  <2>2. Copies' = Copies
    BY <2>1 DEF Copies
  <2>3. \A r \in requests : ~r.live
    BY <2>1 DEF Sent
  <2>4. \A c \in Copies : c.time \in receipts \/ c \in pending
    BY <2>1 DEF Sent
  <2>5. QED
    BY <1>1, <2>1, <2>2, <2>3, <2>4 DEF Sent
<1>4. CASE SaveState \/ SaveStateFails
  <2>1. /\ pc = "saveState" /\ pc' \in {"clear", "idle"}
        /\ UNCHANGED <<pending, filePending, requests, reply>>
    BY <1>4 DEF SaveState, SaveStateFails, EndCycle, fileVars, netVars
  <2>2. Copies' = Copies
    BY <2>1 DEF Copies
  <2>3. QED
    BY <1>1, <2>1, <2>2 DEF Sent
<1>5. CASE ClearPending \/ ClearFails
  <2>1. /\ pc = "clear" /\ pc' \in {"collect", "idle"} /\ pending' = {}
        /\ filePending' = {} \/ (filePending' = filePending /\ pc' = "idle")
        /\ UNCHANGED <<requests, reply>>
    BY <1>5 DEF ClearPending, ClearFails, EndCycle, fileVars, netVars
  <2>2. Copies' = Copies
    BY <2>1 DEF Copies
  <2>3. \A p \in filePending : p.time \in receipts
    BY <2>1 DEF Sent
  <2>4. \A c \in Copies : c.time \in receipts
    BY <2>3 DEF Sent
  <2>5. QED
    BY <1>1, <2>1, <2>2, <2>3, <2>4 DEF Sent
<1>6. QED
  BY <1>2, <1>3, <1>4, <1>5

LEMMA StopSent ==
  ASSUME TypeOK, Apart, Sent, GracefulStop \/ Crash \/ PowerLoss
  PROVE  Sent'
<1>1. /\ pc' \in {"off", "dead"} /\ pending' = {} /\ requests' = Abandoned /\ reply' = FALSE
      /\ UNCHANGED <<receipts, applied>>
      /\ filePending' = filePending \/ (filePending' = pending /\ pc = "idle")
  BY DEF GracefulStop, Crash, PowerLoss, Stopped, fileVars, monitorVars
<1>2. filePending' \subseteq filePending
  BY <1>1 DEF Apart
<1>3. \A c \in Copies : c.time \in receipts \/ c \in filePending'
  BY <1>1 DEF Sent
<1>4. QED
  BY <1>1, <1>2, <1>3, AbandonedCopies DEF Sent

LEMMA DeliverSent ==
  ASSUME TypeOK, Apart, Sent, NEW r \in requests, Deliver(r)
  PROVE  Sent'
<1>1. /\ requests' = requests \ {r} /\ reply' = IF r.live THEN TRUE ELSE reply
      /\ UNCHANGED <<pc, pending, filePending>>
  BY DEF Deliver, agentVars, fileVars
<1>2. /\ receipts \subseteq receipts' /\ applied \subseteq applied'
      /\ r.payload.time \in receipts'
      /\ \A t \in receipts' : t \in receipts \/ (t = r.payload.time /\ r.payload \in applied')
      /\ \A p \in applied' : p \in applied \/ p = r.payload
  BY DEF Deliver, Settled, monitorVars
<1>3. Copies' \subseteq Copies /\ r.payload \in Copies
  BY <1>1 DEF Copies
<1>4. r.live => pc = "await" /\ \A p \in pending : p = r.payload
  BY DEF Sent, TypeOK
<1>5. reply' => pc' = "await" /\ \A q \in requests' : ~q.live
  <2>1. ASSUME NEW q \in requests, q.live, r.live
        PROVE  q = r
    <3>1. q.payload = r.payload
      BY <1>4, <2>1 DEF Sent
    <3>2. /\ q = [payload |-> q.payload, live |-> q.live]
          /\ r = [payload |-> r.payload, live |-> r.live]
          /\ q.live \in BOOLEAN /\ r.live \in BOOLEAN
      BY DEF TypeOK, Request
    <3>3. q.live = TRUE /\ r.live = TRUE
      BY <2>1, <3>2
    <3>4. QED
      BY <3>1, <3>2, <3>3
  <2>2. QED
    BY <1>1, <1>4, <2>1 DEF Sent
<1>6. reply' \/ pc' \in {"saveState", "clear"} => \A p \in pending' : p.time \in receipts'
  BY <1>1, <1>2, <1>4 DEF Sent
<1>7. \A p \in applied' : p \in pending' \cup filePending' \cup Copies' => p.time \in receipts'
  BY <1>1, <1>2, <1>3 DEF Sent
<1>8. \A t \in receipts' : \E q \in applied' : q.time = t
  BY <1>2 DEF Sent
<1>9. QED
  BY <1>1, <1>2, <1>3, <1>5, <1>6, <1>7, <1>8 DEF Sent

LEMMA PruneSent ==
  ASSUME OutageBounded, Sent, NEW t \in receipts, PruneReceipt(t)
  PROVE  Sent'
<1>1. /\ receipts' = receipts \ {t}
      /\ UNCHANGED <<pc, pending, filePending, requests, reply, applied>>
  BY DEF PruneReceipt, agentVars, fileVars, netVars
<1>2. \A p \in pending \cup filePending \cup Copies : p.time # t
  BY DEF PruneReceipt, Resendable, Copies
<1>3. Copies' = Copies
  BY <1>1 DEF Copies
<1>4. \A p \in pending \cup filePending \cup Copies : p.time \in receipts => p.time \in receipts'
  BY <1>1, <1>2
<1>5. QED
  BY <1>1, <1>3, <1>4 DEF Sent

LEMMA StepSent ==
  ASSUME OutageBounded
  PROVE  TypeOK /\ Apart /\ Sent /\ [Next]_vars => Sent'
<1> SUFFICES ASSUME TypeOK, Apart, Sent, [Next]_vars
             PROVE  Sent'
  OBVIOUS
<1>1. CASE Tick \/ Flow \/ TapRecreated \/ ClockStepsBack \/ UNCHANGED vars
  <2>1. UNCHANGED <<pc, pending, filePending, requests, reply, receipts, applied>>
    BY <1>1 DEF Tick, Flow, TapRecreated, ClockStepsBack, vars, agentVars, fileVars, netVars,
                monitorVars
  <2>2. Copies' = Copies
    BY <2>1 DEF Copies
  <2>3. QED
    BY <2>1, <2>2 DEF Sent
<1>2. QED
  BY <1>1, PrepareSent, CollectSent, AnswerSent, StopSent, DeliverSent, PruneSent
     DEF Next, AgentStep

-----------------------------------------------------------------------------
(* The steps of AgentPush that ExactlyOnce does not see.                     *)
LEMMA Unseen ==
  ASSUME \/ Tick \/ Flow \/ TapRecreated \/ ClockStepsBack \/ Start \/ Rotate \/ Post
         \/ PushFails \/ SaveState \/ SaveStateFails \/ ClearFails \/ Crash \/ PowerLoss
         \/ (\E seen, complete \in BOOLEAN : Collect(seen, complete))
         \/ (\E t \in receipts : PruneReceipt(t)) \/ UNCHANGED vars
  PROVE  UNCHANGED <<filePending, applied, credited>>
BY DEF Tick, Flow, TapRecreated, ClockStepsBack, Start, Rotate, Post, PushFails, SaveState,
       SaveStateFails, ClearFails, Crash, PowerLoss, Collect, PruneReceipt, vars, agentVars,
       fileVars, netVars, monitorVars

(* Each step of AgentPush is one of ExactlyOnce, or none: the payload is     *)
(* prepared when it is saved, added when a copy is delivered that has no     *)
(* receipt, and settled when runtime.json lets go of it.                     *)
LEMMA StepImplements ==
  ASSUME TypeOK, Apart, Sent, [Next]_vars
  PROVE  [Promise!Next]_(Promise!vars)
<1> USE DEF Promise!vars
<1>1. CASE UNCHANGED <<filePending, applied, credited>>
  BY <1>1
<1>2. ASSUME filePending' = {}, UNCHANGED <<applied, credited>>,
             \A p \in filePending : p.time \in receipts
      PROVE  [Promise!Next]_(Promise!vars)
  <2>1. CASE filePending = {}
    BY <1>2, <2>1
  <2>2. CASE filePending # {}
    <3>1. \E p \in filePending, q \in applied : q.time = p.time
      BY <1>2, <2>2 DEF Sent
    <3>2. Promise!Settle
      BY <1>2, <3>1 DEF Promise!Settle
    <3>3. QED
      BY <3>2 DEF Promise!Next
  <2>3. QED
    BY <2>1, <2>2
<1>3. ASSUME filePending' = pending, UNCHANGED <<applied, credited>>,
             pc \notin {"off", "dead", "savePending"}
      PROVE  [Promise!Next]_(Promise!vars)
  <2>1. CASE pending = filePending
    BY <1>3, <2>1
  <2>2. CASE pending # filePending
    <3>1. \A p \in filePending : p.time \in receipts
      BY <1>3, <2>2 DEF Sent
    <3>2. pending = {}
      BY <1>3, <2>2 DEF Apart, TypeOK
    <3>3. QED
      BY <1>2, <1>3, <3>1, <3>2
  <2>3. QED
    BY <2>1, <2>2
<1>4. CASE SaveCarry \/ PushAnswered
  <2>1. /\ filePending' = pending /\ UNCHANGED <<applied, credited>>
        /\ pc \in {"saveCarry", "await"}
    BY <1>4 DEF SaveCarry, PushAnswered, SaveRuntime, monitorVars
  <2>2. QED
    BY <1>3, <2>1
<1>5. CASE GracefulStop
  <2>1. filePending' = pending /\ UNCHANGED <<applied, credited>> /\ pc = "idle"
    BY <1>5 DEF GracefulStop, monitorVars
  <2>2. QED
    BY <1>3, <2>1
<1>6. CASE ClearPending
  <2>1. filePending' = {} /\ UNCHANGED <<applied, credited>> /\ pc = "clear"
    BY <1>6 DEF ClearPending, monitorVars
  <2>2. \A p \in filePending : p.time \in receipts
    BY <2>1 DEF Sent
  <2>3. QED
    BY <1>2, <2>1, <2>2
<1>7. CASE SavePending
  <2>1. filePending' = pending /\ UNCHANGED <<applied, credited>> /\ pc = "savePending"
    BY <1>7 DEF SavePending, SaveRuntime, monitorVars
  <2>2. filePending = {}
    BY <2>1 DEF Sent
  <2>3. CASE pending = {}
    BY <1>1, <2>1, <2>2, <2>3
  <2>4. CASE pending # {}
    <3>1. PICK p \in pending : pending = {p}
      BY <2>4 DEF TypeOK
    <3>2. p \notin applied
      BY <2>1 DEF Sent
    <3>3. p \in filePending' /\ filePending' = {p}
      BY <2>1, <3>1
    <3>4. Promise!Prepare
      BY <2>1, <2>2, <3>2, <3>3 DEF Promise!Prepare
    <3>5. QED
      BY <3>4 DEF Promise!Next
  <2>5. QED
    BY <2>3, <2>4
<1>8. CASE \E r \in requests : Deliver(r)
  <2>1. PICK r \in requests : Deliver(r)
    BY <1>8
  <2>2. filePending' = filePending
    BY <2>1 DEF Deliver, fileVars
  <2>3. CASE Settled(r.payload)
    BY <1>1, <2>1, <2>2, <2>3 DEF Deliver, monitorVars
  <2>4. CASE ~Settled(r.payload)
    <3>1. applied' = applied \cup {r.payload} /\ credited' = credited + r.payload.delta
      BY <2>1, <2>4 DEF Deliver
    <3>2. r.payload \in Copies /\ r.payload.time \notin receipts
      BY <2>4 DEF Copies, Settled
    <3>3. r.payload \in filePending \ applied
      BY <3>2 DEF Sent
    <3>4. Promise!Credit
      BY <2>2, <3>1, <3>3 DEF Promise!Credit
    <3>5. QED
      BY <3>4 DEF Promise!Next
  <2>5. QED
    BY <2>3, <2>4
<1>9. QED
  BY <1>1, <1>4, <1>5, <1>6, <1>7, <1>8, Unseen DEF Next, AgentStep

(* The push path implements its promise as long as receipts outlive their    *)
(* payloads: across crashes, lost, late and repeated requests, and also when *)
(* the write that clears the payload fails, each payload is added once, and  *)
(* none is let go of before it, or one of the same second, was added.        *)
THEOREM PushKeepsPromise ==
  ASSUME OutageBounded
  PROVE  Spec => ImplementsExactlyOnce
<1>1. Init => Promise!Init
  BY DEF Init, Promise!Init
<1>2. TypeOK /\ Apart /\ Sent /\ [Next]_vars => [Promise!Next]_(Promise!vars)
  BY StepImplements
<1>3. QED
  BY <1>1, <1>2, TypeCorrect, InitApart, StepApart, InitSent, StepSent, PTL
     DEF Spec, ImplementsExactlyOnce, Promise!Spec

-----------------------------------------------------------------------------
(* As long as nothing happened that may lose bytes, a payload at hand whose  *)
(* time has a receipt was added itself, and what the file has in its carry   *)
(* is in memory's, or in a payload at hand or added.                         *)
Kept ==
  ~lossy =>
    /\ \A p \in pending \cup filePending : p.time \in receipts => p \in applied
    /\ pc \notin {"off", "dead"} =>
         \A w \in fileCarry : w \in carry \/ \E p \in pending \cup applied : w \in p.windows

LEMMA InitKept == Init => Kept
BY DEF Init, Kept

(* A step that adds and collects nothing. *)
LEMMA KeptKept ==
  ASSUME Kept, lossy => lossy', receipts' \subseteq receipts, applied' = applied,
         pending' \cup filePending' \subseteq pending \cup filePending,
         ~lossy /\ pc' \notin {"off", "dead"} =>
           \A w \in fileCarry' : w \in carry' \/ \E p \in pending' \cup applied : w \in p.windows
  PROVE  Kept'
BY DEF Kept

LEMMA StepKept == TypeOK /\ Apart /\ Sent /\ Kept /\ [Next]_vars => Kept'
<1> SUFFICES ASSUME TypeOK, Apart, Sent, Kept, [Next]_vars
             PROVE  Kept'
  OBVIOUS
<1>1. CASE \/ Tick \/ Flow \/ TapRecreated \/ ClockStepsBack \/ Post \/ PushFails \/ SaveState
           \/ SaveStateFails \/ (\E t \in receipts : PruneReceipt(t)) \/ UNCHANGED vars
  <2>1. /\ UNCHANGED <<pending, filePending, carry, fileCarry, applied>>
        /\ receipts' \subseteq receipts /\ (lossy => lossy')
        /\ pc' \notin {"off", "dead"} => pc \notin {"off", "dead"}
    BY <1>1 DEF Tick, Flow, TapRecreated, ClockStepsBack, Post, PushFails, SaveState,
                SaveStateFails, PruneReceipt, EndCycle, vars, agentVars, fileVars, netVars,
                monitorVars, historyVars
  <2>2. QED
    BY <2>1 DEF Kept
<1>2. CASE Start
  <2>1. /\ pending' = filePending /\ carry' = fileCarry
        /\ UNCHANGED <<filePending, fileCarry, receipts, applied, lossy>>
    BY <1>2 DEF Start, fileVars, monitorVars, historyVars
  <2>2. QED
    BY <2>1, KeptKept
<1>3. CASE Rotate
  <2>1. /\ pc \in {"boot", "idle"} /\ carry \subseteq carry'
        /\ UNCHANGED <<pending, filePending, fileCarry, receipts, applied, lossy>>
    BY <1>3 DEF Rotate, monitorVars
  <2>2. QED
    BY <2>1 DEF Kept
<1>4. CASE SaveCarry \/ SavePending \/ PushAnswered
  <2>1. /\ filePending' = pending /\ fileCarry' = carry
        /\ UNCHANGED <<pending, carry, receipts, applied, lossy>>
    BY <1>4 DEF SaveCarry, SavePending, PushAnswered, SaveRuntime, monitorVars, historyVars
  <2>2. QED
    BY <2>1, KeptKept
<1>5. ASSUME NEW seen \in BOOLEAN, NEW complete \in BOOLEAN, Collect(seen, complete)
      PROVE  Kept'
  <2>1. PICK p : /\ pc = "collect" /\ pc' = "savePending" /\ carry' = {}
                 /\ pending' = {p} /\ p.windows = carry /\ p.time = clock
    BY <1>5, CollectApart
  <2>2. UNCHANGED <<filePending, fileCarry, receipts, applied>>
    BY <1>5 DEF Collect, fileVars, monitorVars
  <2>3. ~lossy' => ~lossy /\ clock \notin receipts
    BY <1>5 DEF Collect
  <2>4. filePending = {} /\ pending = {}
    BY <2>1 DEF Sent, Apart
  <2>5. ASSUME ~lossy', NEW w \in fileCarry
        PROVE  \E q \in {p} \cup applied : w \in q.windows
    BY <2>1, <2>3, <2>4, <2>5 DEF Kept
  <2>6. QED
    BY <2>1, <2>2, <2>3, <2>4, <2>5 DEF Kept
<1>6. CASE ClearPending \/ ClearFails
  <2>1. /\ pc = "clear" /\ pending' = {} /\ filePending' \subseteq filePending
        /\ fileCarry' \in {carry, fileCarry}
        /\ UNCHANGED <<carry, receipts, applied, lossy>>
    BY <1>6 DEF ClearPending, ClearFails, fileVars, monitorVars, historyVars
  <2>2. \A p \in pending : p.time \in receipts
    BY <2>1 DEF Sent
  <2>3. ~lossy => \A w \in fileCarry' : w \in carry \/ \E p \in applied : w \in p.windows
    BY <2>1, <2>2 DEF Kept
  <2>4. QED
    BY <2>1, <2>3, KeptKept
<1>7. CASE GracefulStop \/ Crash \/ PowerLoss
  <2>1. /\ pc' \in {"off", "dead"} /\ pending' = {} /\ UNCHANGED <<receipts, applied>>
        /\ filePending' = filePending \/ (filePending' = pending /\ pc = "idle")
        /\ lossy => lossy'
    BY <1>7 DEF GracefulStop, Crash, PowerLoss, Stopped, fileVars, monitorVars
  <2>2. QED
    BY <2>1, KeptKept
<1>8. ASSUME NEW r \in requests, Deliver(r)
      PROVE  Kept'
  <2>1. UNCHANGED <<pc, pending, filePending, carry, fileCarry, lossy>>
    BY <1>8 DEF Deliver, agentVars, fileVars, historyVars
  <2>2. CASE Settled(r.payload)
    <3>1. UNCHANGED <<receipts, applied>>
      BY <1>8, <2>2 DEF Deliver, monitorVars
    <3>2. QED
      BY <2>1, <3>1 DEF Kept
  <2>3. CASE ~Settled(r.payload)
    <3>1. /\ receipts' = receipts \cup {r.payload.time}
          /\ applied' = applied \cup {r.payload}
      BY <1>8, <2>3 DEF Deliver
    <3>2. r.payload \in filePending
      <4>1. r.payload \in Copies
        BY DEF Copies
      <4>2. QED
        BY <2>3, <4>1 DEF Sent, Settled
    <3>3. pc # "savePending"
      BY <3>2 DEF Sent
    <3>4. \A p \in pending \cup filePending : p = r.payload
      BY <3>2, <3>3 DEF Apart, TypeOK
    <3>5. QED
      BY <2>1, <3>1, <3>4 DEF Kept
  <2>4. QED
    BY <2>2, <2>3
<1>9. QED
  BY <1>1, <1>2, <1>3, <1>4, <1>5, <1>6, <1>7, <1>8 DEF Next, AgentStep

LEMMA SafekeptStep ==
  ASSUME TypeOK, Apart, Sent, Kept, [Next]_vars, ~lossy'
  PROVE  Safekept \subseteq Safekept'
<1>1. ~lossy /\ applied \subseteq applied'
  <2>1. ASSUME NEW seen \in BOOLEAN, NEW complete \in BOOLEAN, Collect(seen, complete)
        PROVE  (lossy => lossy') /\ applied' = applied
    BY <2>1 DEF Collect, monitorVars
  <2>2. ASSUME NEW r \in requests, Deliver(r)
        PROVE  lossy' = lossy /\ applied \subseteq applied'
    BY <2>2 DEF Deliver, monitorVars, historyVars
  <2>3. ASSUME TapRecreated \/ PowerLoss
        PROVE  FALSE
    BY <2>3, Zenon DEF TapRecreated, PowerLoss
  <2>4. ASSUME \/ Tick \/ Flow \/ ClockStepsBack \/ UNCHANGED vars
               \/ Start \/ Rotate \/ SaveCarry \/ SavePending \/ Post
               \/ PushFails \/ PushAnswered \/ SaveState \/ SaveStateFails
        PROVE  lossy' = lossy /\ applied' = applied
    BY <2>4 DEF Tick, Flow, ClockStepsBack, Start, Rotate, SaveCarry,
                SavePending, Post, PushFails, PushAnswered, SaveState, SaveStateFails, vars,
                monitorVars, historyVars
  <2>5. ASSUME \/ ClearPending \/ ClearFails \/ GracefulStop \/ Crash
               \/ \E t \in receipts : PruneReceipt(t)
        PROVE  lossy' = lossy /\ applied' = applied
    BY <2>5 DEF ClearPending, ClearFails, GracefulStop, Crash, PruneReceipt,
                monitorVars, historyVars
  <2>6. QED
    BY <2>1, <2>2, <2>3, <2>4, <2>5 DEF Next, AgentStep
<1>2. ASSUME fileCarry \subseteq fileCarry', filePending' = filePending
      PROVE  Safekept \subseteq Safekept'
  BY <1>1, <1>2 DEF Safekept
<1>3. ASSUME filePending' \in {pending, {}}, fileCarry' = carry \/ fileCarry' = carry \cup {window + 1},
             pc \notin {"off", "dead"},
             filePending' = {} => \A p \in pending : p.time \in receipts
      PROVE  Safekept \subseteq Safekept'
  <2>1. \A p \in pending : p \in filePending' \/ p \in applied'
    BY <1>1, <1>3 DEF Kept
  <2>2. \A w \in fileCarry : w \in carry \/ \E p \in pending \cup applied : w \in p.windows
    BY <1>1, <1>3 DEF Kept
  <2>3. \A w \in fileCarry : w \in fileCarry' \/ \E p \in filePending' \cup applied' : w \in p.windows
    BY <1>1, <1>3, <2>1, <2>2
  <2>4. \A p \in filePending : p \in filePending' \/ p \in applied'
    <3>1. CASE pending = filePending
      BY <2>1, <3>1
    <3>2. CASE pc = "savePending"
      BY <3>2 DEF Sent
    <3>3. CASE pending # filePending /\ pc # "savePending"
      <4>1. \A p \in filePending : p.time \in receipts
        BY <1>3, <3>3 DEF Sent
      <4>2. QED
        BY <1>1, <4>1 DEF Kept
    <3>4. QED
      BY <3>1, <3>2, <3>3
  <2>5. QED
    BY <1>1, <2>3, <2>4 DEF Safekept
<1>4. CASE SaveCarry \/ SavePending \/ PushAnswered
  <2>1. /\ filePending' = pending /\ fileCarry' = carry
        /\ pc \in {"saveCarry", "savePending", "await"}
    BY <1>4 DEF SaveCarry, SavePending, PushAnswered, SaveRuntime
  <2>2. QED
    BY <1>3, <2>1
<1>5. CASE ClearPending
  <2>1. filePending' = {} /\ fileCarry' = carry /\ pc = "clear"
    BY <1>5 DEF ClearPending
  <2>2. \A p \in pending : p.time \in receipts
    BY <2>1 DEF Sent
  <2>3. QED
    BY <1>3, <2>1, <2>2
<1>6. CASE GracefulStop
  <2>1. filePending' = pending /\ fileCarry' = carry \cup {window + 1} /\ pc = "idle"
    BY <1>6 DEF GracefulStop
  <2>2. QED
    BY <1>3, <2>1
<1>7. CASE ~(\/ SaveCarry \/ SavePending \/ PushAnswered \/ ClearPending \/ GracefulStop)
  <2>1. UNCHANGED <<fileCarry, filePending>>
    BY <1>7 DEF Next, AgentStep, Tick, Flow, TapRecreated, ClockStepsBack, Start, Rotate, Post,
                PushFails, SaveState, SaveStateFails, ClearFails, Collect, Crash, PowerLoss,
                Deliver, PruneReceipt, vars, fileVars
  <2>2. QED
    BY <1>2, <2>1
<1>8. QED
  BY <1>4, <1>5, <1>6, <1>7

(* A window that runtime.json holds stays on disk until the Monitor has it.  *)
THEOREM WindowsStay ==
  ASSUME OutageBounded
  PROVE  Spec => WindowsKept
<1>1. TypeOK /\ Apart /\ Sent /\ Kept /\ [Next]_vars
        => (~lossy' => Safekept \subseteq Safekept')
  BY SafekeptStep
<1>2. QED
  BY <1>1, TypeCorrect, InitApart, StepApart, InitSent, StepSent, InitKept, StepKept, PTL
     DEF Spec, WindowsKept
=============================================================================
