----------------------------- MODULE VmPresence -----------------------------
(***************************************************************************)
(* Where the Monitor believes a VM to be.  Each node reports the VMs it    *)
(* lists; a push that comes late still bears the time it was collected at. *)
(* The push transaction refreshes the presence of the VM on the node, marks*)
(* it missing, and moves the VM's location once the old node has missed it *)
(* long enough.  Pages and administrators change the same rows.            *)
(*                                                                         *)
(* The pushes of one node wait for each other, those of different nodes do *)
(* not: under READ COMMITTED a statement reads what is committed by then,  *)
(* and waits only for rows that another transaction has written.  What a   *)
(* transaction has read is kept in its record, with the rows it holds; its *)
(* writes appear when it commits, on rows that nobody else could change    *)
(* since it wrote them.                                                    *)
(*                                                                         *)
(* One VM: the code treats every VM of a report by itself.                 *)
(***************************************************************************)
EXTENDS Naturals, FiniteSets

CONSTANTS
  Nodes,           \* the nodes of the cluster
  None,            \* no node
  ConfirmPushes,   \* VM_MIGRATION_CONFIRM_PUSHES
  ConfirmSeconds,  \* VM_MIGRATION_CONFIRM_SECONDS
  StaleSeconds,    \* VM_STALE_SECONDS
  DeleteSeconds,   \* VM_AUTO_DELETE_SECONDS
  PurgeSeconds,    \* VM_MIGRATION_PURGE_SECONDS
  MaxClock,        \* bound: last tick
  MaxMoves,        \* bound: changes of the set of nodes that run the VM
  MaxAdmin         \* bound: hides, restores and purges

ASSUME NodesAssumption == Nodes # {} /\ None \notin Nodes /\ IsFiniteSet(Nodes)
ASSUME DelaysAssumption ==
  /\ {ConfirmPushes, ConfirmSeconds, PurgeSeconds} \subseteq Nat \ {0}
  /\ StaleSeconds \in Nat /\ DeleteSeconds \in Nat
  /\ {MaxClock, MaxMoves, MaxAdmin} \subseteq Nat

VARIABLES
  clock,
  host,       \* the nodes that list the VM: two during a live migration
  outbox,     \* per node: the report that waits for the Monitor, none or one
  presence,   \* vm_node_presence: one row per node
  inventory,  \* vm_inventory: one row per node
  location,   \* vm_location_latest: its node, None without a row
  push,       \* per node: the transaction of its push
  page,       \* the rows that the node page has found due for the purge
  job,        \* the purge transaction of the maintenance runner
  misses,     \* history, per node: reports that it is absent since it was
              \* seen there, counted up to ConfirmPushes
  firstMiss,  \* history, per node: time of the first of them
  overtaken,  \* history: the nodes whose open push had found the VM located
              \* elsewhere when a purge, or the push of another node that
              \* lists the VM, ended
  moves, admins

worldVars   == <<clock, host, outbox>>
tables      == <<presence, inventory, location>>
openVars    == <<push, page, job>>
historyVars == <<misses, firstMiss, overtaken>>
vars == <<worldVars, tables, openVars, historyVars, moves, admins>>

-----------------------------------------------------------------------------
PresenceStatus == {"none", "active", "missing", "pending", "migrated", "purged"}
(* "shown": active, missing, pending_migration or stale; "deleted": deleted   *)
(* or purged, the rows with deleted_at.                                      *)
InventoryStatus == {"none", "shown", "migrated", "hidden", "deleted"}

(* What a report says of the VM.  One that lacks it because its inventory is *)
(* not complete marks nothing and is left out: PageReads and PageEnds are    *)
(* all it would do.                                                          *)
Says == {"listed", "absent"}

(* since and movedAt are 0 where the column is NULL; "none": there is no row. *)
(* last_seen is that of the inventory row, which is written with it; that of *)
(* the location, and its previous node, are only shown.                      *)
PresenceRow  == [status : PresenceStatus, since : Nat, count : Nat,
                 movedAt : Nat, purged : BOOLEAN]
InventoryRow == [status : InventoryStatus, seen : Nat]

NoPresence  == [status |-> "none", since |-> 0, count |-> 0, movedAt |-> 0, purged |-> FALSE]
NoInventory == [status |-> "none", seen |-> 0]

(* old: the location it has read; enough: what its check of the old node     *)
(* said; since, count: what it has read in its own row; held: the nodes whose*)
(* rows it holds; places: it holds the location; due: the rows it has found  *)
(* due for the purge.                                                        *)
NoPush == [pc |-> "idle", old |-> None, enough |-> FALSE, since |-> 0, count |-> 0,
           held |-> {}, places |-> FALSE, due |-> {}]

(* rows: the nodes whose rows it has deleted; writes, to: the location to set.*)
NoJob == [kind |-> "none", rows |-> {}, writes |-> FALSE, to |-> None]

(* No other transaction than the push of n (the push of no node, None) holds *)
(* the rows of m, or the location.                                           *)
Free(m, n) == m \notin job.rows /\ \A k \in Nodes \ {n} : m \notin push[k].held
LocationFree(n) == \A k \in Nodes \ {n} : ~push[k].places

(* The nodes whose push has found the VM located elsewhere. *)
Underway == {n \in Nodes : push[n].old \notin {None, n}}

Later(s, t) == IF s > t THEN s ELSE t

(* The tables, as the statements of a transaction pass them on. *)
Tables == [presence |-> presence, inventory |-> inventory, location |-> location]

(* Mutant: the update of the status without its condition on hidden rows. *)
RestatedAll(inv, S, status) ==
  [n \in Nodes |->
     IF n \in S /\ inv[n].status # "none"
     THEN [inv[n] EXCEPT !.status = status]
     ELSE inv[n]]

(* UPDATE vm_inventory ... WHERE status != 'hidden', on the rows of S. *)
Restated(inv, S, status) ==
  [n \in Nodes |->
     IF n \in S /\ inv[n].status \notin {"none", "hidden"}
     THEN [inv[n] EXCEPT !.status = status]
     ELSE inv[n]]

(* The inventory row of a VM that is seen: inserted, or made active. *)
Seen(row, ts) ==
  [row EXCEPT !.status = IF @ = "hidden" THEN @ ELSE "shown", !.seen = Later(@, ts)]

(* Mutant: presence is hidden with the inventory row. *)
SeenAsListed(d, n, ts) ==
  [presence |-> [d.presence EXCEPT
                   ![n] = [NoPresence EXCEPT
                             !.status = IF d.inventory[n].status = "hidden" THEN "hidden"
                                        ELSE "active"]],
   inventory |-> [d.inventory EXCEPT ![n] = Seen(@, ts)],
   location |-> d.location]

(* _presence_upsert_seen *)
MarkSeen(d, n, ts) ==
  [presence |-> [d.presence EXCEPT ![n] = [NoPresence EXCEPT !.status = "active"]],
   inventory |-> [d.inventory EXCEPT ![n] = Seen(@, ts)],
   location |-> d.location]

(* Mutant: only active rows are counted. *)
CountedIfActive(row) == row.status = "active"

(* A row that is missing already is not counted. *)
Counted(row) == row.status \in {"active", "pending"}

(* Bound: nothing tells apart counts from ConfirmPushes on. *)
OneMore(count) == IF count < ConfirmPushes THEN count + 1 ELSE count

(* _mark_missing_on_node: the row it has read, with one more miss, written   *)
(* over the row that is there.                                               *)
MarkMissing(d, p, n, ts) ==
  IF n \in p.held
  THEN [presence |-> [d.presence EXCEPT
                        ![n] = [@ EXCEPT
                                  !.status = "missing",
                                  !.since = IF p.since = 0 THEN ts ELSE p.since,
                                  !.count = OneMore(p.count)]],
        inventory |-> Restated(d.inventory, {n}, "shown"),
        location |-> d.location]
  ELSE d

(* Mutant: one report early. *)
AlmostMissingEnough(row, ts) ==
  /\ row.status \in {"missing", "migrated", "purged"}
  /\ \/ row.count + 1 >= ConfirmPushes
     \/ row.since > 0 /\ ts >= row.since + ConfirmSeconds

(* _old_node_missing_enough *)
MissingEnough(row, ts) ==
  /\ row.status \in {"missing", "migrated", "purged"}
  /\ \/ row.count >= ConfirmPushes
     \/ row.since > 0 /\ ts >= row.since + ConfirmSeconds

(* A VM seen elsewhere that the old node has not missed long enough. *)
Suspend(d, S) ==
  [presence |-> [m \in Nodes |-> IF m \in S THEN [d.presence[m] EXCEPT !.status = "pending"]
                                 ELSE d.presence[m]],
   inventory |-> Restated(d.inventory, S, "shown"),
   location |-> d.location]

Move(d, p, n, ts) ==
  LET left == p.held \ {n}
  IN [presence |-> [m \in Nodes |->
                      IF m \in left
                      THEN [d.presence[m] EXCEPT !.status = "migrated", !.movedAt = ts]
                      ELSE d.presence[m]],
      inventory |-> Restated(d.inventory, left, "migrated"),
      location |-> IF p.places THEN n ELSE d.location]

(* _create_or_update_location *)
Locate(d, p, n, ts) ==
  CASE p.old = None -> [d EXCEPT !.location = IF p.places THEN n ELSE @]
    [] p.old = n -> d
    [] p.old \notin {None, n} /\ p.enough -> Move(d, p, n, ts)
    [] p.old \notin {None, n} /\ ~p.enough -> Suspend(d, p.held)

(* process_node_vm_presence: the tables as the push p of n writes them. *)
Processed(p, n, r) ==
  CASE r.says = "listed"  -> Locate(MarkSeen(Tables, n, r.time), p, n, r.time)
    [] r.says = "absent"  -> MarkMissing(Tables, p, n, r.time)

(* auto_purge_migrated_vms: the rows it finds, and what it writes on them. *)
Due(P) ==
  {n \in Nodes : P[n].status = "migrated" /\ ~P[n].purged /\ P[n].movedAt + PurgeSeconds <= clock}

PurgeMigrated(d, due) ==
  [presence |-> [n \in Nodes |->
                   IF n \in due /\ d.presence[n].status # "none"
                   THEN [d.presence[n] EXCEPT !.status = "purged", !.purged = TRUE]
                   ELSE d.presence[n]],
   inventory |-> Restated(d.inventory, due, "deleted"),
   location |-> d.location]

Commit(d) ==
  presence' = d.presence /\ inventory' = d.inventory /\ location' = d.location

-----------------------------------------------------------------------------
(* The VM runs on one of the nodes; they are alike. *)
Init ==
  /\ clock = 1 /\ host = {CHOOSE n \in Nodes : TRUE}
  /\ outbox = [n \in Nodes |-> {}]
  /\ presence = [n \in Nodes |-> NoPresence]
  /\ inventory = [n \in Nodes |-> NoInventory]
  /\ location = None
  /\ push = [n \in Nodes |-> NoPush] /\ page = {} /\ job = NoJob
  /\ misses = [n \in Nodes |-> 0] /\ firstMiss = [n \in Nodes |-> 0] /\ overtaken = {}
  /\ moves = 0 /\ admins = 0

Tick ==
  /\ clock < MaxClock
  /\ clock' = clock + 1
  /\ UNCHANGED <<host, outbox, tables, openVars, historyVars, moves, admins>>

(* The VM appears on a node (a live migration begins, a VM starts) or        *)
(* disappears from one (the migration ends, the VM is shut down).            *)
Rehost(n) ==
  /\ moves < MaxMoves /\ moves' = moves + 1
  /\ host' = IF n \in host THEN host \ {n} ELSE host \cup {n}
  /\ Cardinality(host') <= 2
  /\ UNCHANGED <<clock, outbox, tables, openVars, historyVars, admins>>

(* collect_cycle_payload: virsh lists the VM or not.  The next report waits   *)
(* until this one is acknowledged (AgentPush).  Several may fall in one tick. *)
Collect(n, says) ==
  /\ outbox[n] = {}
  /\ says = "listed" => n \in host
  /\ says = "absent" => n \notin host
  /\ outbox' = [outbox EXCEPT ![n] = {[time |-> clock, says |-> says]}]
  /\ UNCHANGED <<clock, host, tables, openVars, historyVars, moves, admins>>

-----------------------------------------------------------------------------
(* The push of a report, whenever it gets through, under the lock of the node.*)

(* _presence_upsert_seen on the rows of the node, and the look for the        *)
(* location.                                                                  *)
ReadLocation(n) ==
  /\ push[n].pc = "idle" /\ \E r \in outbox[n] : r.says = "listed"
  /\ Free(n, n)
  /\ push' = [push EXCEPT ![n] =
       [NoPush EXCEPT !.pc = IF location \in {None, n} THEN "checked" ELSE "located",
                      !.old = location, !.held = {n}]]
  /\ UNCHANGED <<worldVars, tables, page, job, historyVars, moves, admins>>

(* The check of the old node. *)
ReadOld(n) ==
  /\ push[n].pc = "located"
  /\ \E r \in outbox[n] :
       push' = [push EXCEPT ![n].pc = "checked",
                            ![n].enough = MissingEnough(presence[push[n].old], r.time)]
  /\ UNCHANGED <<worldVars, tables, page, job, historyVars, moves, admins>>

(* A complete report without the VM: the row _mark_missing_on_node finds, if  *)
(* it finds one.                                                             *)
ReadOwn(n) ==
  /\ push[n].pc = "idle" /\ \E r \in outbox[n] : r.says = "absent"
  /\ Counted(presence[n])
  /\ push' = [push EXCEPT ![n] = [NoPush EXCEPT !.pc = "checked",
                                                !.since = presence[n].since,
                                                !.count = presence[n].count]]
  /\ UNCHANGED <<worldVars, tables, page, job, historyVars, moves, admins>>

(* The rows a push writes: an update of no row holds nothing. *)
Touched(n, r) ==
  CASE r.says = "listed" -> {n} \cup {m \in Nodes \cap {push[n].old} :
                                        presence[m].status # "none"}
    [] r.says = "absent" -> {m \in {n} : push[n].pc = "checked" /\ presence[m].status # "none"}

(* The push after its updates, and after the look for rows to purge. *)
Written(n, r) ==
  LET p == [push[n] EXCEPT
              !.held = Touched(n, r),
              !.places = (r.says = "listed" /\ (push[n].old = None \/ location # None))]
  IN [p EXCEPT !.pc = "written", !.due = Due(Processed(p, n, r).presence)]

(* It waits for the rows.  A location that another push has inserted since    *)
(* breaks the primary key.  A push without the VM that finds no row to mark   *)
(* has nothing to write.                                                      *)
MayWrite(n, r, p) ==
  /\ \/ push[n].pc = "checked"
     \/ push[n].pc = "idle" /\ r.says = "absent" /\ ~Counted(presence[n])
  /\ \A m \in p.held : Free(m, n)
  /\ p.places => LocationFree(n) /\ (p.old = None => location = None)

(* Others can tell its updates from its commit only by the rows to purge. *)
Write(n) ==
  /\ \E r \in outbox[n] :
       LET p == Written(n, r)
       IN /\ MayWrite(n, r, p) /\ p.due # {}
          /\ push' = [push EXCEPT ![n] = p]
  /\ UNCHANGED <<worldVars, tables, page, job, historyVars, moves, admins>>

(* The updates of the purge, and the commit. *)
EndPush(n) ==
  /\ \E r \in outbox[n] :
       LET p == IF push[n].pc = "written" THEN push[n] ELSE Written(n, r)
       IN /\ push[n].pc = "written" \/ MayWrite(n, r, p)
          /\ \A m \in p.due : Free(m, n)
          /\ Commit(PurgeMigrated(Processed(p, n, r), p.due))
          /\ misses' = [misses EXCEPT ![n] = IF r.says = "listed" THEN 0 ELSE OneMore(@)]
          /\ firstMiss' = [firstMiss EXCEPT
                             ![n] = CASE r.says = "listed" -> 0
                                      [] r.says = "absent" /\ @ = 0 -> r.time
                                      [] r.says = "absent" /\ @ > 0 -> @]
          /\ overtaken' = IF r.says = "listed" THEN Underway \ {n} ELSE overtaken \ {n}
  /\ push' = [push EXCEPT ![n] = NoPush]
  /\ outbox' = [outbox EXCEPT ![n] = {}]
  /\ UNCHANGED <<clock, host, page, job, moves, admins>>

(* A lock times out, PostgreSQL breaks a deadlock, an insert fails, the web  *)
(* worker dies: the agent sends the report again.                            *)
PushAborts(n) ==
  /\ push[n].pc # "idle"
  /\ push' = [push EXCEPT ![n] = NoPush] /\ overtaken' = overtaken \ {n}
  /\ UNCHANGED <<worldVars, tables, page, job, misses, firstMiss, moves, admins>>

Push(n) == ReadLocation(n) \/ ReadOld(n) \/ ReadOwn(n) \/ Write(n) \/ EndPush(n)

-----------------------------------------------------------------------------
(* The pages. *)

(* A row that was seen lately is active; an older one stale, unless it is     *)
(* deleted already; the oldest are deleted.                                   *)
Cleaned(row) ==
  IF row.status \in {"none", "hidden"} THEN row
  ELSE IF \/ row.seen + StaleSeconds >= clock
          \/ row.status # "deleted" /\ row.seen + DeleteSeconds >= clock
       THEN [row EXCEPT !.status = "shown"]
  ELSE [row EXCEPT !.status = "deleted"]

(* auto_cleanup_inventory: at every start of a worker and on most pages. *)
AutoCleanup ==
  /\ \A n \in Nodes : Cleaned(inventory[n]) # inventory[n] => Free(n, None)
  /\ inventory' = [n \in Nodes |-> Cleaned(inventory[n])]
  /\ UNCHANGED <<worldVars, presence, location, openVars, historyVars, moves, admins>>

(* auto_purge_migrated_vms, as the node page calls it. *)
PageReads ==
  /\ page = {} /\ Due(presence) # {} /\ page' = Due(presence)
  /\ UNCHANGED <<worldVars, tables, push, job, historyVars, moves, admins>>

PageEnds ==
  /\ page # {} /\ \A n \in page : Free(n, None)
  /\ Commit(PurgeMigrated(Tables, page)) /\ page' = {}
  /\ UNCHANGED <<worldVars, push, job, historyVars, moves, admins>>

-----------------------------------------------------------------------------
(* The administrators. *)

Admin == admins < MaxAdmin /\ admins' = admins + 1

Hide(n) ==
  /\ Admin /\ inventory[n].status # "none" /\ Free(n, None)
  /\ inventory' = [inventory EXCEPT ![n].status = "hidden"]
  /\ UNCHANGED <<worldVars, presence, location, openVars, historyVars, moves>>

Restore(n) ==
  /\ Admin /\ inventory[n].status # "none" /\ Free(n, None)
  /\ inventory' = [inventory EXCEPT ![n].status = "shown"]
  /\ UNCHANGED <<worldVars, presence, location, openVars, historyVars, moves>>

(* purge_vm_data: the VM is forgotten on every node: first the rows of       *)
(* presence that are there, then those of the inventory, and the location.   *)
PurgeVm ==
  /\ Admin /\ job.kind = "none"
  /\ job' = [NoJob EXCEPT !.kind = "vm", !.writes = TRUE,
                          !.rows = {n \in Nodes : presence[n].status # "none"}]
  /\ \A n \in job'.rows : Free(n, None)
  /\ UNCHANGED <<worldVars, tables, push, page, historyVars, moves>>

(* _repair_vm_location_after_purge: the nodes whose rows were seen last. *)
Remaining(n) ==
  {m \in Nodes \ {n} :
     \/ presence[m].status \notin {"none", "purged"}
     \/ inventory[m].status \in {"shown", "migrated"}}

(* purge_all_vms_for_node and purge_node_data: the deletions, and the choice *)
(* of the location by what is committed then.                                *)
PurgeNode(n) ==
  /\ Admin /\ job.kind = "none"
  /\ presence[n].status # "none" => Free(n, None)
  /\ \E to \in IF location # n
               THEN {location}
               ELSE IF Remaining(n) = {} THEN {None}
               ELSE {m \in Remaining(n) :
                       \A k \in Remaining(n) : inventory[k].seen <= inventory[m].seen} :
       job' = [kind |-> "node", rows |-> {m \in {n} : presence[m].status # "none"},
               writes |-> location # to, to |-> to]
  /\ UNCHANGED <<worldVars, tables, push, page, historyVars, moves>>

(* The deletions from the inventory and the location, and the commit.        *)
EndJob ==
  LET gone == IF job.kind = "vm" THEN {n \in Nodes : inventory[n].status # "none"} ELSE job.rows
  IN /\ job.kind # "none"
     /\ \A n \in gone, k \in Nodes : n \notin push[k].held
     /\ job.writes => LocationFree(None)
     /\ presence' = [n \in Nodes |-> IF n \in job.rows THEN NoPresence ELSE presence[n]]
     /\ inventory' = [n \in Nodes |-> IF n \in gone THEN NoInventory ELSE inventory[n]]
     /\ location' = IF job.writes /\ location # None THEN job.to ELSE location
     /\ overtaken' = Underway
     /\ job' = NoJob
     /\ UNCHANGED <<worldVars, push, page, misses, firstMiss, moves, admins>>

JobAborts ==
  /\ job.kind # "none" /\ job' = NoJob
  /\ UNCHANGED <<worldVars, tables, push, page, historyVars, moves, admins>>

-----------------------------------------------------------------------------
Next ==
  \/ Tick
  \/ \E n \in Nodes :
       \/ Rehost(n) \/ Push(n) \/ PushAborts(n)
       \/ Hide(n) \/ Restore(n) \/ PurgeNode(n)
       \/ \E says \in Says : Collect(n, says)
  \/ AutoCleanup \/ PageReads \/ PageEnds \/ PurgeVm \/ EndJob \/ JobAborts

Spec == Init /\ [][Next]_vars

-----------------------------------------------------------------------------
(* Every variable holds a value of its type. *)
TypeOK ==
  /\ clock \in Nat /\ host \subseteq Nodes
  /\ \A n \in Nodes : \A r \in outbox[n] :
       r.time \in 1 .. clock /\ r.says \in Says
  /\ presence \in [Nodes -> PresenceRow] /\ inventory \in [Nodes -> InventoryRow]
  /\ location \in Nodes \cup {None}
  /\ push \in [Nodes -> [pc : {"idle", "located", "checked", "written"},
                         old : Nodes \cup {None}, enough : BOOLEAN,
                         since : Nat, count : Nat,
                         held : SUBSET Nodes, places : BOOLEAN, due : SUBSET Nodes]]
  /\ page \subseteq Nodes
  /\ job \in [kind : {"none", "vm", "node"}, rows : SUBSET Nodes, writes : BOOLEAN,
              to : Nodes \cup {None}]
  /\ misses \in [Nodes -> Nat] /\ firstMiss \in [Nodes -> Nat] /\ overtaken \subseteq Nodes

(* "The old node must first miss it for a few pushes": a push moves the VM   *)
(* from one node to another only when the old node has missed it since it    *)
(* was last seen there, often enough or for long enough; unless, between its *)
(* look for the location and its commit, the push of another node that lists *)
(* the VM, or a purge, has committed.                                        *)
MissedFirst(old, ts) ==
  \/ misses[old] >= ConfirmPushes
  \/ firstMiss[old] > 0 /\ ts >= firstMiss[old] + ConfirmSeconds
MigrationConfirmed ==
  [][\A n \in Nodes \ overtaken :
       location \notin {None, location'} /\ EndPush(n) =>
         \A r \in outbox[n] : MissedFirst(location, r.time)]_vars

(* "Only the Restore button" brings back a row that was hidden, whatever is  *)
(* pushed, marked, cleaned up or purged, in transactions that overlap.       *)
HiddenStays ==
  [][\A n \in Nodes : inventory[n].status = "hidden" =>
       \/ inventory'[n].status \in {"hidden", "none"}
       \/ Restore(n)]_vars


-----------------------------------------------------------------------------
(* The nodes go on reporting, virsh works time and again, reports get through *)
(* (only EndPush empties an outbox).                                         *)
Fairness ==
  /\ WF_vars(Tick)
  /\ \A n \in Nodes :
       /\ WF_outbox(outbox[n] # {} /\ outbox' = [outbox EXCEPT ![n] = {}])
       /\ SF_vars(\E says \in Says : Collect(n, says))

FairSpec == Spec /\ Fairness

(* The location follows the VM: once it runs on one node for good, it is     *)
(* located there for good, whatever late reports, overlapping pushes, hides  *)
(* and purges have left; provided that, time and again, the push of a node   *)
(* that lacks the VM ends when no other push is between its look for the     *)
(* location and its own end.                                                 *)
LocationFollows ==
  /\ <>[](Cardinality(host) = 1)
  /\ \A n \in Nodes : []<><<n \notin host => EndPush(n) /\ Underway = {}>>_vars
  => <>[](location \in host)
=============================================================================
