----------------------------- MODULE AgentPush -----------------------------
(***************************************************************************)
(* The five-minute push of one node: the Agent's run_push_cycle, the two   *)
(* files it recovers from (runtime.json and state.json), the HTTP exchange *)
(* and the Monitor's push transaction with its receipts.                   *)
(*                                                                         *)
(* The data is one interface's byte counter.  A payload carries the bytes  *)
(* since the committed baseline (its delta) and the sampler windows merged *)
(* into the carry; a window is a number, so that two payloads carrying the *)
(* same samples can be told apart from two payloads that merely look alike.*)
(***************************************************************************)
EXTENDS Naturals

CONSTANTS
  PushSeconds,    \* PUSH_SECONDS and STATUS_PUSH_SECONDS, in clock ticks
  OutageBounded,  \* TRUE: no receipt is pruned while its payload can be resent
  MaxClock,       \* bound: last second of the wall clock
  MaxTraffic,     \* bound: bytes that cross the interface
  MaxFaults       \* bound: crashes, power losses, clock steps, failed writes

ASSUME PushAssumption == PushSeconds \in Nat \ {0} /\ OutageBounded \in BOOLEAN
ASSUME BoundsAssumption == {MaxClock, MaxTraffic, MaxFaults} \subseteq Nat

VARIABLES
  clock,        \* the node's wall clock
  traffic,      \* bytes that really crossed the interface
  counter,      \* the kernel's counter for it, 0 again when the tap is recreated
  pc,           \* where run_push_cycle is
  boundary,     \* main()'s boundary: the clock value the next cycle is due at
  wait,         \* what is left of the wait for it, which steps of the clock leave alone
  retry,        \* TRUE while the pending payload of an earlier cycle is resent
  pending,      \* runtime["pending"] in memory: no or one payload
  carry,        \* runtime["carry"] in memory
  committed,    \* committed_state in memory
  filePending,  \* runtime["pending"] in runtime.json
  fileCarry,    \* runtime["carry"] in runtime.json
  stateFile,    \* state.json
  stateDirty,   \* state.json was replaced and the kernel may not have written it
  requests,     \* POSTs that may still reach the Monitor
  reply,        \* the answer to the connection the Agent waits on
  receipts,     \* push_receipts of the node: payload times
  credited,     \* bytes added to bandwidth_hourly and bandwidth_daily
  applied,      \* history: the payloads whose transaction committed
  window,       \* history: the windows rotated so far
  faults,       \* history: faults so far
  saveLost,     \* history: the write that clears pending failed
  lossy         \* history: an event happened that may leave bytes uncounted

agentVars   == <<pc, boundary, wait, retry, pending, carry, committed>>
fileVars    == <<filePending, fileCarry, stateFile, stateDirty>>
netVars     == <<requests, reply>>
monitorVars == <<receipts, credited, applied>>
worldVars   == <<clock, traffic, counter>>
historyVars == <<window, faults, saveLost, lossy>>
vars == <<agentVars, fileVars, netVars, monitorVars, worldVars, historyVars>>

-----------------------------------------------------------------------------
(* What state.json says of the interface; known is FALSE when it has no     *)
(* "net:" entry, or the file does not parse.                                *)
State   == [known : BOOLEAN, base : Nat]
NoState == [known |-> FALSE, base |-> 0]

Payload == [time : Nat, delta : Nat, windows : SUBSET Nat, after : State]
Request == [payload : Payload, live : BOOLEAN]

NextBoundary(now) == (now \div PushSeconds + 1) * PushSeconds

(* Mutant: the subtraction without the test for a reset. *)
UncheckedDelta(new, state) == IF state.known THEN new - state.base ELSE 0

(* A counter below the baseline was reset: the delta is 0, not an overflow. *)
DeltaCounter(new, state) ==
  IF state.known /\ new >= state.base THEN new - state.base ELSE 0

(* Mutant: the lookup of the receipt never finds one. *)
NeverSettled(p) == FALSE /\ p.time \in receipts

Settled(p) == p.time \in receipts

(* Some copy of a payload of time t may still be sent or still be on its way. *)
Resendable(t) ==
  \/ \E p \in pending \cup filePending : p.time = t
  \/ \E r \in requests : r.payload.time = t

-----------------------------------------------------------------------------
(* An installed Agent at rest: its first baseline is on disk. *)
Init ==
  /\ clock = 1 /\ traffic = 0 /\ counter = 0
  /\ pc = "off" /\ boundary = 0 /\ wait = 0 /\ retry = FALSE
  /\ pending = {} /\ carry = {} /\ committed = NoState
  /\ filePending = {} /\ fileCarry = {}
  /\ stateFile = [known |-> TRUE, base |-> 0] /\ stateDirty = FALSE
  /\ requests = {} /\ reply = FALSE
  /\ receipts = {} /\ credited = 0 /\ applied = {}
  /\ window = 0 /\ faults = 0 /\ saveLost = FALSE /\ lossy = FALSE

-----------------------------------------------------------------------------
(* The world. *)
Tick ==
  /\ clock < MaxClock
  /\ clock' = clock + 1
  /\ wait' = IF wait > 0 THEN wait - 1 ELSE 0
  /\ UNCHANGED <<pc, boundary, retry, pending, carry, committed, fileVars, netVars,
                 monitorVars, traffic, counter, historyVars>>

Flow ==
  /\ traffic < MaxTraffic
  /\ traffic' = traffic + 1 /\ counter' = counter + 1
  /\ UNCHANGED <<agentVars, fileVars, netVars, monitorVars, clock, historyVars>>

(* The VM restarts and its tap device is created anew. *)
TapRecreated ==
  /\ counter > 0
  /\ counter' = 0 /\ lossy' = TRUE
  /\ UNCHANGED <<agentVars, fileVars, netVars, monitorVars, clock, traffic,
                 window, faults, saveLost>>

Fault == faults < MaxFaults /\ faults' = faults + 1

(* NTP sets the clock back.  A wait that has begun is not prolonged, the    *)
(* following ones are: boundary is compared with the wall clock.            *)
ClockStepsBack ==
  /\ Fault /\ clock > 1
  /\ clock' = clock - 1
  /\ UNCHANGED <<agentVars, fileVars, netVars, monitorVars, traffic, counter, window,
                 saveLost, lossy>>

-----------------------------------------------------------------------------
(* The Agent process. *)
(* main() loads both files.  After a crash systemd waits RestartSec, so the *)
(* clock has moved on.                                                      *)
Start ==
  /\ pc \in {"off", "dead"}
  /\ pc' = "boot"
  /\ clock' = IF pc = "dead" /\ clock < MaxClock THEN clock + 1 ELSE clock
  /\ pending' = filePending /\ carry' = fileCarry /\ committed' = stateFile
  /\ UNCHANGED <<boundary, wait, retry, fileVars, netVars, monitorVars, traffic, counter,
                 historyVars>>

(* Mutant: the new window replaces the carry instead of being merged into it. *)
ForgetfulRotate ==
  /\ pc = "boot" \/ (pc = "idle" /\ wait = 0)
  /\ clock < MaxClock
  /\ pc' = "saveCarry"
  /\ stateDirty' = IF pc = "boot" THEN stateDirty ELSE FALSE
  /\ window' = window + 1 /\ carry' = {window + 1}
  /\ UNCHANGED <<boundary, wait, retry, pending, committed, filePending, fileCarry,
                 stateFile, netVars, monitorVars, worldVars, faults, saveLost, lossy>>

(* The first cycle follows the start at once, the others a wall boundary,   *)
(* minutes after the last save_state: the kernel has written state.json.    *)
(* Bound: at the last tick of the clock the model goes on resending, with   *)
(* no new window, hence (see Collect) no new payload.                       *)
Rotate ==
  /\ \/ pc = "boot"
     \/ pc = "idle" /\ wait = 0 /\ clock < MaxClock
     \/ pc = "idle" /\ clock = MaxClock /\ pending \cup filePending # {}
  /\ pc' = "saveCarry"
  /\ stateDirty' = IF pc = "boot" THEN stateDirty ELSE FALSE
  /\ IF clock = MaxClock
     THEN UNCHANGED <<window, carry>>
     ELSE /\ window' = window + 1
          /\ carry' = carry \cup {window + 1}
  /\ UNCHANGED <<boundary, wait, retry, pending, committed, filePending, fileCarry,
                 stateFile, netVars, monitorVars, worldVars, faults, saveLost, lossy>>

(* Mutant: the carry in runtime.json is left as it is. *)
SavesPendingOnly == filePending' = pending /\ UNCHANGED fileCarry

SaveRuntime == filePending' = pending /\ fileCarry' = carry

(* Mutant: an old payload is resent in one cycle only. *)
RetriesOnce ==
  /\ pc = "saveCarry"
  /\ SaveRuntime
  /\ retry' = (pending # {})
  /\ IF pending # {} /\ retry
     THEN pc' = "idle" /\ boundary' = NextBoundary(clock) /\ wait' = 0
     ELSE pc' = (IF pending # {} THEN "post" ELSE "collect") /\ UNCHANGED <<boundary, wait>>
  /\ UNCHANGED <<pending, carry, committed, stateFile, stateDirty, netVars,
                 monitorVars, worldVars, historyVars>>

(* save_runtime, then the old payload first if there is one. *)
SaveCarry ==
  /\ pc = "saveCarry"
  /\ SaveRuntime
  /\ retry' = (pending # {})
  /\ pc' = IF pending # {} THEN "post" ELSE "collect"
  /\ UNCHANGED <<boundary, wait, pending, carry, committed, stateFile, stateDirty, netVars,
                 monitorVars, worldVars, historyVars>>

(* Mutants: state_after keeps the old baseline; state_after takes the       *)
(* baseline of an interface that was not read.                              *)
NeverAdvances(seen, complete) == committed
AdvancesUnread(seen, complete) ==
  [known |-> seen \/ (committed.known /\ ~complete), base |-> counter]

(* collect_cycle_payload.  seen: the interface was listed and read.         *)
(* complete: virsh list worked, so prune_metric_state forgets the baseline  *)
(* of an interface that was not seen.  Every cycle has a window to report,  *)
(* but for those past the bound on the clock, which end here.               *)
AfterCollect(seen, complete) ==
  [known |-> seen \/ (committed.known /\ ~complete),
   base  |-> IF seen THEN counter
             ELSE IF complete THEN 0 ELSE committed.base]

Collect(seen, complete) ==
  /\ pc = "collect" /\ carry # {}
  /\ pending' = {[time    |-> clock,
                  delta   |-> IF seen THEN DeltaCounter(counter, committed) ELSE 0,
                  windows |-> carry,
                  after   |-> AfterCollect(seen, complete)]}
  /\ carry' = {}
  /\ pc' = "savePending"
  /\ lossy' = (\/ lossy
               \/ ~committed.known
               \/ ~seen /\ complete
               \/ clock \in receipts)
  /\ UNCHANGED <<boundary, wait, retry, committed, fileVars, netVars, monitorVars, worldVars,
                 window, faults, saveLost>>

SavePending ==
  /\ pc = "savePending"
  /\ SaveRuntime
  /\ retry' = FALSE /\ pc' = "post"
  /\ UNCHANGED <<boundary, wait, pending, carry, committed, stateFile, stateDirty, netVars,
                 monitorVars, worldVars, historyVars>>

Post ==
  /\ pc = "post"
  /\ requests' = requests \cup {[payload |-> p, live |-> TRUE] : p \in pending}
  /\ reply' = FALSE
  /\ pc' = "await"
  /\ UNCHANGED <<boundary, wait, retry, pending, carry, committed, fileVars, monitorVars,
                 worldVars, historyVars>>

(* The boundary after the one that was waited for, unless it has passed     *)
(* already (or there was none: the first cycle follows the start at once).  *)
(* Bound: at the last tick there is no next boundary.                       *)
FollowingBoundary ==
  IF clock = MaxClock THEN boundary
  ELSE IF boundary > 0 /\ boundary + PushSeconds > clock
       THEN boundary + PushSeconds
       ELSE NextBoundary(clock)

EndCycle ==
  /\ pc' = "idle"
  /\ boundary' = FollowingBoundary
  /\ wait' = IF boundary' > clock THEN boundary' - clock ELSE 0

Abandoned == {[r EXCEPT !.live = FALSE] : r \in requests}

(* A refused connection, a timeout, an error status: the copy that was sent *)
(* may still arrive.                                                        *)
PushFails ==
  /\ pc = "await"
  /\ requests' = Abandoned /\ reply' = FALSE
  /\ EndCycle
  /\ UNCHANGED <<retry, pending, carry, committed, fileVars, monitorVars, worldVars,
                 historyVars>>

(* The answer arrives; apply_monitor_config saves runtime.json. *)
PushAnswered ==
  /\ pc = "await" /\ reply
  /\ reply' = FALSE
  /\ SaveRuntime
  /\ pc' = "saveState"
  /\ UNCHANGED <<boundary, wait, retry, pending, carry, committed, stateFile, stateDirty,
                 requests, monitorVars, worldVars, historyVars>>

SaveState ==
  /\ pc = "saveState"
  /\ \E p \in pending : stateFile' = p.after
  /\ stateDirty' = TRUE
  /\ pc' = "clear"
  /\ UNCHANGED <<boundary, wait, retry, pending, carry, committed, filePending, fileCarry,
                 netVars, monitorVars, worldVars, historyVars>>

(* The write of state.json fails: run_push_cycle swallows the error. *)
SaveStateFails ==
  /\ pc = "saveState" /\ Fault
  /\ EndCycle
  /\ UNCHANGED <<retry, pending, carry, committed, fileVars, netVars, monitorVars,
                 worldVars, window, saveLost, lossy>>

ClearPending ==
  /\ pc = "clear"
  /\ pending' = {} /\ filePending' = {} /\ fileCarry' = carry
  /\ \E p \in pending : committed' = p.after
  /\ IF retry THEN pc' = "collect" /\ UNCHANGED <<boundary, wait>> ELSE EndCycle
  /\ UNCHANGED <<retry, carry, stateFile, stateDirty, netVars, monitorVars, worldVars,
                 historyVars>>

(* pending is None in memory when save_runtime fails; the error is          *)
(* swallowed and committed_state keeps its old value.                       *)
ClearFails ==
  /\ pc = "clear" /\ Fault
  /\ pending' = {} /\ saveLost' = TRUE
  /\ EndCycle
  /\ UNCHANGED <<retry, carry, committed, fileVars, netVars, monitorVars, worldVars,
                 window, lossy>>

Stopped(how) ==
  /\ pc' = how /\ boundary' = 0 /\ wait' = 0 /\ retry' = FALSE
  /\ pending' = {} /\ carry' = {} /\ committed' = NoState
  /\ requests' = Abandoned /\ reply' = FALSE

(* SIGTERM between two cycles: the open window is merged and saved.  Bounded *)
(* together with the faults.                                                *)
GracefulStop ==
  /\ pc = "idle" /\ Fault
  /\ Stopped("off")
  /\ window' = window + 1
  /\ filePending' = pending /\ fileCarry' = carry \cup {window + 1}
  /\ UNCHANGED <<stateFile, stateDirty, monitorVars, worldVars, saveLost, lossy>>

(* The process dies anywhere; systemd starts it again RestartSec later. *)
Crash ==
  /\ pc \notin {"off", "dead"} /\ Fault
  /\ Stopped("dead")
  /\ UNCHANGED <<fileVars, monitorVars, worldVars, window, saveLost, lossy>>

(* The node loses power.  runtime.json is flushed before it replaces the    *)
(* old file; state.json is not, and may be left empty for a while.          *)
PowerLoss ==
  /\ pc \notin {"off", "dead"} /\ Fault /\ stateDirty
  /\ Stopped("dead")
  /\ stateFile' = NoState /\ stateDirty' = FALSE
  /\ lossy' = TRUE
  /\ UNCHANGED <<filePending, fileCarry, monitorVars, worldVars, window, saveLost>>

-----------------------------------------------------------------------------
(* The Monitor: one transaction per delivered request.  A request that is   *)
(* lost, or whose transaction rolls back, is one that is never delivered.   *)
Deliver(r) ==
  LET p == r.payload IN
  /\ requests' = requests \ {r}
  /\ reply' = IF r.live THEN TRUE ELSE reply
  /\ IF Settled(p)
     THEN UNCHANGED monitorVars
     ELSE /\ receipts' = receipts \cup {p.time}
          /\ credited' = credited + p.delta
          /\ applied' = applied \cup {p}
  /\ UNCHANGED <<agentVars, fileVars, worldVars, historyVars>>

(* run_retention and delete_history_older_than drop old receipts. *)
PruneReceipt(t) ==
  /\ OutageBounded => ~Resendable(t)
  /\ receipts' = receipts \ {t}
  /\ UNCHANGED <<agentVars, fileVars, netVars, credited, applied,
                 worldVars, historyVars>>

-----------------------------------------------------------------------------
AgentStep ==
  \/ Start \/ Rotate \/ SaveCarry \/ SavePending \/ Post
  \/ SaveState \/ ClearPending
  \/ \E seen, complete \in BOOLEAN : Collect(seen, complete)

Next ==
  \/ Tick \/ Flow \/ TapRecreated \/ ClockStepsBack
  \/ AgentStep
  \/ PushFails \/ PushAnswered \/ SaveStateFails \/ ClearFails
  \/ GracefulStop \/ Crash \/ PowerLoss
  \/ \E r \in requests : Deliver(r)
  \/ \E t \in receipts : PruneReceipt(t)

Spec == Init /\ [][Next]_vars

-----------------------------------------------------------------------------
PcValues == {"off", "dead", "boot", "idle", "saveCarry", "collect", "savePending",
             "post", "await", "saveState", "clear"}

(* Every variable holds a value of its type, and no payload is held beside  *)
(* another: runtime["pending"] of the Agent is one dictionary or None.      *)
TypeOK ==
  /\ clock \in Nat /\ traffic \in Nat /\ counter \in Nat
  /\ pc \in PcValues /\ boundary \in Nat /\ wait \in Nat /\ retry \in BOOLEAN
  /\ pending \in SUBSET Payload /\ carry \in SUBSET Nat /\ committed \in State
  /\ filePending \in SUBSET Payload /\ fileCarry \in SUBSET Nat
  /\ stateFile \in State /\ stateDirty \in BOOLEAN
  /\ requests \in SUBSET Request /\ reply \in BOOLEAN
  /\ receipts \in SUBSET Nat /\ credited \in Nat /\ applied \in SUBSET Payload
  /\ window \in Nat /\ faults \in Nat
  /\ saveLost \in BOOLEAN /\ lossy \in BOOLEAN
  /\ \A p, q \in pending : p = q
  /\ \A p, q \in filePending : p = q

(* No byte is added twice: across crashes, power losses, lost and repeated  *)
(* requests and answers and a clock that steps back, the Monitor's totals   *)
(* never exceed what crossed the interface, unless the write that clears    *)
(* the pending payload has failed (see NoDoubleCount).                      *)
CreditedOnce == ~saveLost => credited <= traffic

(* The same without the exception, as the message of the failed push says   *)
(* it: "push failed, payload kept for retry".                               *)
NoDoubleCount == credited <= traffic

(* What the next payload will count from, and what a payload on disk that   *)
(* the Monitor has not added yet will add.                                  *)
Baseline == IF filePending = {} THEN stateFile
            ELSE (CHOOSE p \in filePending : TRUE).after
Outstanding == IF \E p \in filePending : ~Settled(p)
               THEN (CHOOSE p \in filePending : TRUE).delta
               ELSE 0

(* No byte is lost either: as long as the tap is not recreated, the         *)
(* interface is seen by every collection, state.json survives and no two    *)
(* payloads bear the same second, each byte that crossed the interface is   *)
(* in the Monitor's totals, in the payload on disk, or past the baseline.   *)
ExactWhenUndisturbed ==
  ~lossy /\ ~saveLost =>
     /\ Baseline.known /\ Baseline.base <= counter
     /\ credited + Outstanding + (counter - Baseline.base) = traffic

(* No sampler window is reported by two payloads. *)
WindowOnce ==
  \A p, q \in applied \cup filePending : p # q => p.windows \cap q.windows = {}

(* A window that runtime.json holds stays on disk until the Monitor has it. *)
Safekept == fileCarry \cup UNION {p.windows : p \in filePending \cup applied}
WindowsKept ==
  [][~lossy' => Safekept \subseteq Safekept']_vars

(* The push path implements its promise. *)
Promise == INSTANCE ExactlyOnce WITH
             outbox <- filePending, ledger <- applied, total <- credited
ImplementsExactlyOnce == Promise!Spec

-----------------------------------------------------------------------------
(* Why the totals are right.  c bytes in the Monitor and a baseline s agree  *)
(* when counting from s can add no byte that c holds and, as long as nothing *)
(* was lost, adds exactly the bytes that c lacks.                            *)
Accounts(c, s) ==
  /\ c <= traffic
  /\ s.known => c + counter <= traffic + s.base
  /\ ~lossy => s.known /\ s.base <= counter /\ c + counter = traffic + s.base

(* The total once the payload has been added. *)
Owed(p) == IF Settled(p) THEN credited ELSE credited + p.delta

FilesAgree ==
  /\ pc \in {"off", "dead"} => pending = {}
  /\ pc \notin {"off", "dead", "savePending"} => pending = filePending
  /\ pc \in {"collect", "savePending"} => filePending = {}
  /\ pc = "clear" => \A p \in pending : stateFile = p.after

RequestsKnown ==
  /\ \A r \in requests : Settled(r.payload) \/ r.payload \in filePending
  /\ \A r \in requests : r.live => pc = "await" /\ r.payload \in pending
  /\ reply => pc = "await" /\ \A r \in requests : ~r.live
  /\ reply \/ pc \in {"saveState", "clear"} => \A p \in pending : Settled(p)

Balanced ==
  /\ filePending = {} => Accounts(credited, stateFile)
  /\ pc \notin {"off", "dead"} /\ pending = {} => Accounts(credited, committed)
  /\ \A p \in pending \cup filePending : Accounts(Owed(p), p.after)

(* Each baseline that can be counted from next agrees with the totals, as    *)
(* they are or as they will be once the payload at hand is added: a copy on  *)
(* its way is either settled or the payload on disk, and neither baseline    *)
(* moves before the payload is settled.                                      *)
BooksBalance == ~saveLost => FilesAgree /\ RequestsKnown /\ Balanced

-----------------------------------------------------------------------------
(* The Agent's own steps are taken (a running process, Restart=always), and *)
(* a Monitor that keeps being tried answers sometime: neither the delivery  *)
(* of the live request nor its answer loses to the timeout for ever.        *)
Fairness ==
  /\ WF_vars(Tick)
  /\ WF_vars(AgentStep)
  /\ WF_vars(PushFails)
  /\ SF_vars(PushAnswered)
  /\ SF_vars(\E r \in requests : r.live /\ Deliver(r))

FairSpec == Spec /\ Fairness

(* A payload on disk does not stay there for ever: it is resent until the   *)
(* Monitor acknowledges it.                                                 *)
PendingDrains == filePending # {} ~> filePending = {}
=============================================================================
