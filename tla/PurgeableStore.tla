--------------------------- MODULE PurgeableStore ---------------------------
(***************************************************************************)
(* What the Enterprise plane promises, without stream, retries, crashes or *)
(* receipts.  A message that has been accepted waits until its work is done*)
(* or it is given up.  Each time it is worked on is one step: a push is    *)
(* stored, unless its rows are there or a purge covers it; a purge removes *)
(* rows and keeps older pushes out for ever.                               *)
(***************************************************************************)
EXTENDS Naturals

CONSTANTS
  Ids, Times, Scopes,
  ScopeOf   \* per kind of a purge: its scope

VARIABLES
  message,   \* per id: the message
  known,     \* the messages accepted so far
  waiting,   \* those that have not been let go of
  applied,   \* those whose work is done
  dead,      \* those that were given up
  barrier,   \* per scope: pushes up to this time are covered by a purge
  nodeRows,  \* per push time: how often the rows of the node are stored
  vmRows     \* per push time: how often the rows of its VM are stored

queueVars == <<message, known, waiting>>
storeVars == <<barrier, nodeRows, vmRows>>
vars == <<queueVars, applied, dead, storeVars>>

Init ==
  /\ known = {} /\ waiting = {} /\ applied = {} /\ dead = {}
  /\ barrier = [s \in Scopes |-> 0]
  /\ nodeRows = [t \in Times |-> 0] /\ vmRows = [t \in Times |-> 0]

Accept ==
  \E i \in Ids \ known :
    /\ known' = known \cup {i} /\ waiting' = waiting \cup {i}
    /\ \A j \in known : message'[j] = message[j]
    /\ UNCHANGED <<applied, dead, storeVars>>

Covered(scopes, t) == \E s \in scopes : barrier[s] >= t

Store(kind, t) ==
  /\ ~Covered({"node"}, t) /\ nodeRows[t] = 0 /\ vmRows[t] = 0
  /\ nodeRows' = [nodeRows EXCEPT ![t] = 1]
  /\ vmRows' = IF kind = "listed" /\ ~Covered({"vm", "node_vms"}, t)
               THEN [vmRows EXCEPT ![t] = 1] ELSE vmRows
  /\ UNCHANGED barrier

(* The rows of the node are there, or a purge of the node covers them. *)
Needless(t) == (nodeRows[t] = 1 \/ Covered({"node"}, t)) /\ UNCHANGED storeVars

Push(i) ==
  /\ i \in known /\ message[i].kind \in {"listed", "absent"}
  /\ Store(message[i].kind, message[i].time) \/ Needless(message[i].time)
  /\ applied' = applied \cup {i} /\ UNCHANGED <<queueVars, dead>>

IsPurge(i) == i \in known /\ message[i].kind \in DOMAIN ScopeOf

Purge(i) ==
  LET scope == ScopeOf[message[i].kind]
      time  == message[i].time
  IN /\ IsPurge(i)
     /\ barrier' = [barrier EXCEPT ![scope] = IF @ > time THEN @ ELSE time]
     /\ vmRows' = [t \in Times |-> 0]
     /\ IF scope = "node" THEN nodeRows' = [t \in Times |-> 0] ELSE UNCHANGED nodeRows
     /\ UNCHANGED <<queueVars, applied, dead>>

(* A purge is done once it is in force. *)
Purged(i) ==
  /\ IsPurge(i) /\ Covered({ScopeOf[message[i].kind]}, message[i].time)
  /\ applied' = applied \cup {i} /\ UNCHANGED <<queueVars, dead, storeVars>>

GiveUp(i) ==
  /\ i \in known /\ dead' = dead \cup {i}
  /\ UNCHANGED <<queueVars, applied, storeVars>>

LetGo(i) ==
  /\ i \in applied \cup dead /\ waiting' = waiting \ {i}
  /\ UNCHANGED <<message, known, applied, dead, storeVars>>

Next ==
  \/ Accept
  \/ \E i \in Ids : Push(i) \/ Purge(i) \/ Purged(i) \/ GiveUp(i) \/ LetGo(i)

Spec == Init /\ [][Next]_vars
=============================================================================
