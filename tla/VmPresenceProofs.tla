-------------------------- MODULE VmPresenceProofs --------------------------
(***************************************************************************)
(* Theorems about VmPresence, for any number of nodes, any delays and any  *)
(* number of moves and interventions.                                      *)
(***************************************************************************)
EXTENDS VmPresence, TLAPS

(* The tables, as the statements of a transaction pass them on, and pushes. *)
Database == [presence : [Nodes -> PresenceRow], inventory : [Nodes -> InventoryRow],
             location : Nodes \cup {None}]
Transaction == [pc : {"idle", "located", "checked", "written"},
                old : Nodes \cup {None}, enough : BOOLEAN, since : Nat, count : Nat,
                held : SUBSET Nodes, places : BOOLEAN, due : SUBSET Nodes]

LEMMA Delays == /\ ConfirmPushes \in Nat /\ ConfirmPushes >= 1
                /\ ConfirmSeconds \in Nat /\ PurgeSeconds \in Nat
BY DelaysAssumption

LEMMA LaterType ==
  ASSUME NEW s \in Nat, NEW t \in Nat
  PROVE  Later(s, t) \in Nat
BY DEF Later

(* A count that is not above another stays so when both are raised. *)
LEMMA OneMoreMonotone ==
  ASSUME NEW s \in Nat, NEW t \in Nat
  PROVE  /\ OneMore(s) \in Nat /\ s <= OneMore(s)
         /\ s <= t => OneMore(s) <= OneMore(t)
BY Delays DEF OneMore

(* The rows and records at rest. *)
LEMMA Blank ==
  /\ NoPresence \in PresenceRow /\ NoPresence.count = 0 /\ NoPresence.since = 0
  /\ NoInventory \in InventoryRow /\ NoInventory.status = "none"
  /\ NoPush \in Transaction /\ NoPush.count = 0 /\ NoPush.since = 0
  /\ NoPush.old = None /\ NoPush.enough = FALSE /\ NoPush.places = FALSE /\ NoPush.held = {}
  /\ NoPush.due = {} /\ NoPush.pc = "idle"
BY DEF NoPresence, PresenceRow, PresenceStatus, NoInventory, InventoryRow, InventoryStatus,
       NoPush, Transaction

(* The rows that a report rewrites. *)
LEMMA SeenRow ==
  ASSUME NEW row \in InventoryRow, NEW ts \in Nat
  PROVE  /\ Seen(row, ts) \in InventoryRow
         /\ row.status = "hidden" => Seen(row, ts).status = "hidden"
<1>1. Later(row.seen, ts) \in Nat
  BY LaterType DEF InventoryRow
<1>2. QED
  BY <1>1 DEF Seen, InventoryRow, InventoryStatus

(* Hidden rows stay so; Restated, the conditional update, keeps them. *)
HiddenKept(inv, next) ==
  \A m \in Nodes : inv[m].status = "hidden" => next[m].status = "hidden"

LEMMA RestatedKeeps ==
  ASSUME NEW inv \in [Nodes -> InventoryRow], NEW S, NEW status \in InventoryStatus
  PROVE  /\ Restated(inv, S, status) \in [Nodes -> InventoryRow]
         /\ HiddenKept(inv, Restated(inv, S, status))
<1>1. ASSUME NEW n \in Nodes
      PROVE  [inv[n] EXCEPT !.status = status] \in InventoryRow
  BY DEF InventoryRow
<1>2. QED
  BY <1>1 DEF Restated, HiddenKept

(* The reports missed that a row counts, and since when. *)
SameMisses(P, next, S) ==
  \A m \in S : next[m].count = P[m].count /\ next[m].since = P[m].since

(* The statements of a push keep the types of the tables, and hidden rows. *)
LEMMA MarkSeenEffect ==
  ASSUME NEW d \in Database, NEW n \in Nodes, NEW ts \in Nat
  PROVE  /\ MarkSeen(d, n, ts) \in Database
         /\ MarkSeen(d, n, ts).location = d.location
         /\ \A m \in Nodes \ {n} : MarkSeen(d, n, ts).presence[m] = d.presence[m]
         /\ MarkSeen(d, n, ts).presence[n].count = 0 /\ MarkSeen(d, n, ts).presence[n].since = 0
         /\ HiddenKept(d.inventory, MarkSeen(d, n, ts).inventory)
<1> DEFINE row    == [NoPresence EXCEPT !.status = "active"]
           seen   == [d.presence EXCEPT ![n] = row]
           listed == [d.inventory EXCEPT ![n] = Seen(@, ts)]
<1>1. /\ MarkSeen(d, n, ts).presence = seen /\ MarkSeen(d, n, ts).inventory = listed
      /\ MarkSeen(d, n, ts).location = d.location
      /\ MarkSeen(d, n, ts) = [presence |-> seen, inventory |-> listed, location |-> d.location]
  BY DEF MarkSeen
<1>2. row \in PresenceRow /\ row.count = 0 /\ row.since = 0
  BY DEF NoPresence, PresenceRow, PresenceStatus
<1> HIDE DEF row
<1>3. /\ seen \in [Nodes -> PresenceRow] /\ seen[n] = row
      /\ \A m \in Nodes \ {n} : seen[m] = d.presence[m]
  BY <1>2 DEF Database
<1>4. listed \in [Nodes -> InventoryRow] /\ HiddenKept(d.inventory, listed)
  BY SeenRow DEF Database, HiddenKept
<1> HIDE DEF seen, listed
<1>5. QED
  BY <1>1, <1>2, <1>3, <1>4 DEF Database

(* Since when a row is missing that a push marks so. *)
Since(p, ts) == IF p.since = 0 THEN ts ELSE p.since

LEMMA MarkMissingEffect ==
  ASSUME NEW d \in Database, NEW p \in Transaction, NEW n \in Nodes, NEW ts \in Nat
  PROVE  /\ MarkMissing(d, p, n, ts) \in Database
         /\ MarkMissing(d, p, n, ts).location = d.location
         /\ \A m \in Nodes \ {n} : MarkMissing(d, p, n, ts).presence[m] = d.presence[m]
         /\ \/ MarkMissing(d, p, n, ts).presence[n] = d.presence[n]
            \/ /\ MarkMissing(d, p, n, ts).presence[n].count = OneMore(p.count)
               /\ MarkMissing(d, p, n, ts).presence[n].since = Since(p, ts)
         /\ HiddenKept(d.inventory, MarkMissing(d, p, n, ts).inventory)
<1> DEFINE row     == [d.presence[n] EXCEPT !.status = "missing", !.since = Since(p, ts),
                                            !.count = OneMore(p.count)]
           counted == [d.presence EXCEPT ![n] = row]
           listed  == Restated(d.inventory, {n}, "shown")
           e       == [presence |-> counted, inventory |-> listed, location |-> d.location]
<1>1. MarkMissing(d, p, n, ts) \in {d, e}
  BY DEF MarkMissing, Since, Database
<1>2. /\ row \in PresenceRow /\ row.count = OneMore(p.count) /\ row.since = Since(p, ts)
  <2>1. p.since \in Nat /\ p.count \in Nat
    BY DEF Transaction
  <2>2. Since(p, ts) \in Nat /\ OneMore(p.count) \in Nat /\ "missing" \in PresenceStatus
    BY <2>1, OneMoreMonotone DEF Since, PresenceStatus
  <2>3. d.presence[n] \in PresenceRow
    BY DEF Database
  <2>4. QED
    BY <2>2, <2>3 DEF PresenceRow
<1> HIDE DEF row
<1>3. /\ counted \in [Nodes -> PresenceRow] /\ counted[n] = row
      /\ \A m \in Nodes \ {n} : counted[m] = d.presence[m]
  BY <1>2 DEF Database
<1>4. listed \in [Nodes -> InventoryRow] /\ HiddenKept(d.inventory, listed)
  <2>1. d.inventory \in [Nodes -> InventoryRow] /\ "shown" \in InventoryStatus
    BY DEF Database, InventoryStatus
  <2>2. QED
    BY <2>1, RestatedKeeps, Zenon
<1> HIDE DEF counted, listed
<1>5. /\ e \in Database /\ e.location = d.location /\ e.presence = counted
      /\ e.inventory = listed
  BY <1>3, <1>4 DEF Database
<1> HIDE DEF e
<1>6. HiddenKept(d.inventory, d.inventory)
  BY DEF HiddenKept
<1>7. QED
  BY <1>1, <1>2, <1>3, <1>4, <1>5, <1>6

LEMMA SuspendEffect ==
  ASSUME NEW d \in Database, NEW S \in SUBSET Nodes
  PROVE  /\ Suspend(d, S) \in Database
         /\ Suspend(d, S).location = d.location
         /\ SameMisses(d.presence, Suspend(d, S).presence, Nodes)
         /\ HiddenKept(d.inventory, Suspend(d, S).inventory)
<1> DEFINE paused == [m \in Nodes |-> IF m \in S THEN [d.presence[m] EXCEPT !.status = "pending"]
                                      ELSE d.presence[m]]
           listed == Restated(d.inventory, S, "shown")
<1>1. Suspend(d, S) = [presence |-> paused, inventory |-> listed, location |-> d.location]
  BY DEF Suspend
<1>2. paused \in [Nodes -> PresenceRow] /\ SameMisses(d.presence, paused, Nodes)
  <2>1. \A row \in PresenceRow : /\ [row EXCEPT !.status = "pending"] \in PresenceRow
                                 /\ [row EXCEPT !.status = "pending"].count = row.count
                                 /\ [row EXCEPT !.status = "pending"].since = row.since
    BY DEF PresenceRow, PresenceStatus
  <2>2. QED
    BY <2>1 DEF Database, SameMisses
<1>3. listed \in [Nodes -> InventoryRow] /\ HiddenKept(d.inventory, listed)
  <2>1. d.inventory \in [Nodes -> InventoryRow] /\ "shown" \in InventoryStatus
    BY DEF Database, InventoryStatus
  <2>2. QED
    BY <2>1, RestatedKeeps, Zenon
<1> HIDE DEF paused, listed
<1>4. QED
  BY <1>1, <1>2, <1>3 DEF Database

LEMMA MoveEffect ==
  ASSUME NEW d \in Database, NEW p \in Transaction, NEW n \in Nodes, NEW ts \in Nat
  PROVE  /\ Move(d, p, n, ts) \in Database
         /\ Move(d, p, n, ts).location = IF p.places THEN n ELSE d.location
         /\ SameMisses(d.presence, Move(d, p, n, ts).presence, Nodes)
         /\ HiddenKept(d.inventory, Move(d, p, n, ts).inventory)
<1> DEFINE left   == p.held \ {n}
           gone   == [m \in Nodes |->
                        IF m \in left
                        THEN [d.presence[m] EXCEPT !.status = "migrated", !.movedAt = ts]
                        ELSE d.presence[m]]
           listed == Restated(d.inventory, left, "migrated")
           where  == IF p.places THEN n ELSE d.location
<1>1. Move(d, p, n, ts) = [presence |-> gone, inventory |-> listed, location |-> where]
  BY DEF Move
<1>2. gone \in [Nodes -> PresenceRow] /\ SameMisses(d.presence, gone, Nodes)
  <2>1. \A row \in PresenceRow :
          /\ [row EXCEPT !.status = "migrated", !.movedAt = ts] \in PresenceRow
          /\ [row EXCEPT !.status = "migrated", !.movedAt = ts].count = row.count
          /\ [row EXCEPT !.status = "migrated", !.movedAt = ts].since = row.since
    BY DEF PresenceRow, PresenceStatus
  <2> HIDE DEF left
  <2>2. QED
    BY <2>1 DEF Database, SameMisses
<1>3. listed \in [Nodes -> InventoryRow] /\ HiddenKept(d.inventory, listed)
  <2>1. d.inventory \in [Nodes -> InventoryRow] /\ "migrated" \in InventoryStatus
    BY DEF Database, InventoryStatus
  <2>2. QED
    BY <2>1, RestatedKeeps, Zenon
<1>4. where \in Nodes \cup {None}
  BY DEF Database
<1> HIDE DEF gone, listed, where
<1>5. where = IF p.places THEN n ELSE d.location
  BY DEF where
<1>6. QED
  BY <1>1, <1>2, <1>3, <1>4, <1>5 DEF Database

(* The location changes only to the node of a push that found none, or that  *)
(* found the old node to have missed the VM long enough.                     *)
LEMMA LocateEffect ==
  ASSUME NEW d \in Database, NEW p \in Transaction, NEW n \in Nodes, NEW ts \in Nat
  PROVE  /\ Locate(d, p, n, ts) \in Database
         /\ SameMisses(d.presence, Locate(d, p, n, ts).presence, Nodes)
         /\ HiddenKept(d.inventory, Locate(d, p, n, ts).inventory)
         /\ Locate(d, p, n, ts).location # d.location
              => p.places /\ (p.old \in {None, n} => p.old = None) /\ (p.old # None => p.enough)
<1> DEFINE e     == Locate(d, p, n, ts)
           where == IF p.places THEN n ELSE d.location
<1>1. /\ d.location \in Nodes \cup {None} /\ p.old \in Nodes \cup {None}
      /\ p.places \in BOOLEAN /\ p.enough \in BOOLEAN /\ p.held \in SUBSET Nodes
  BY DEF Database, Transaction
<1>2. SameMisses(d.presence, d.presence, Nodes) /\ HiddenKept(d.inventory, d.inventory)
  BY DEF SameMisses, HiddenKept
<1>3. CASE p.old = None
  <2>1. e = [d EXCEPT !.location = where]
    <3>1. p.old # n
      BY <1>3, NodesAssumption
    <3>2. e = [d EXCEPT !.location = IF p.places THEN n ELSE @]
      BY <1>3, <3>1 DEF Locate
    <3>3. QED
      BY <3>2 DEF Database
  <2>2. where \in Nodes \cup {None} /\ (where # d.location => p.places)
    BY <1>1
  <2> HIDE DEF e, where
  <2>3. /\ [d EXCEPT !.location = where] \in Database
        /\ [d EXCEPT !.location = where].presence = d.presence
        /\ [d EXCEPT !.location = where].inventory = d.inventory
        /\ [d EXCEPT !.location = where].location = where
    BY <2>2 DEF Database
  <2>4. QED
    BY <1>2, <1>3, <2>1, <2>2, <2>3 DEF e
<1>4. CASE p.old # None /\ p.old = n
  <2>1. e = d
    BY <1>4 DEF Locate
  <2> HIDE DEF e
  <2>2. QED
    BY <1>2, <1>4, <2>1 DEF e
<1>5. CASE p.old # None /\ p.old # n /\ p.enough
  <2>1. e = Move(d, p, n, ts)
    BY <1>5 DEF Locate
  <2>2. QED
    BY <1>5, <2>1, MoveEffect
<1>6. CASE p.old # None /\ p.old # n /\ ~p.enough
  <2>1. e = Suspend(d, p.held)
    BY <1>6 DEF Locate
  <2>2. QED
    BY <1>1, <2>1, SuspendEffect
<1>7. QED
  BY <1>3, <1>4, <1>5, <1>6

LEMMA PurgeMigratedEffect ==
  ASSUME NEW d \in Database, NEW due \in SUBSET Nodes
  PROVE  /\ PurgeMigrated(d, due) \in Database
         /\ PurgeMigrated(d, due).location = d.location
         /\ SameMisses(d.presence, PurgeMigrated(d, due).presence, Nodes)
         /\ HiddenKept(d.inventory, PurgeMigrated(d, due).inventory)
<1> DEFINE gone   == [n \in Nodes |-> IF n \in due /\ d.presence[n].status # "none"
                                      THEN [d.presence[n] EXCEPT !.status = "purged", !.purged = TRUE]
                                      ELSE d.presence[n]]
           listed == Restated(d.inventory, due, "deleted")
<1>1. PurgeMigrated(d, due) = [presence |-> gone, inventory |-> listed, location |-> d.location]
  BY DEF PurgeMigrated
<1>2. gone \in [Nodes -> PresenceRow] /\ SameMisses(d.presence, gone, Nodes)
  <2>1. \A row \in PresenceRow :
          /\ [row EXCEPT !.status = "purged", !.purged = TRUE] \in PresenceRow
          /\ [row EXCEPT !.status = "purged", !.purged = TRUE].count = row.count
          /\ [row EXCEPT !.status = "purged", !.purged = TRUE].since = row.since
    BY DEF PresenceRow, PresenceStatus
  <2>2. QED
    BY <2>1 DEF Database, SameMisses
<1>3. listed \in [Nodes -> InventoryRow] /\ HiddenKept(d.inventory, listed)
  <2>1. d.inventory \in [Nodes -> InventoryRow] /\ "deleted" \in InventoryStatus
    BY DEF Database, InventoryStatus
  <2>2. QED
    BY <2>1, RestatedKeeps, Zenon
<1> HIDE DEF gone, listed
<1>4. QED
  BY <1>1, <1>2, <1>3 DEF Database

(* What a push makes of the counts of a node. *)
Counts(P, next, p, n, r) ==
  /\ SameMisses(P, next, Nodes \ {n})
  /\ \/ r.says = "listed" /\ next[n].count = 0 /\ next[n].since = 0
     \/ r.says = "absent" /\ SameMisses(P, next, {n})
     \/ /\ r.says = "absent" /\ next[n].count = OneMore(p.count)
        /\ next[n].since = Since(p, r.time)

LEMMA ProcessedEffect ==
  ASSUME Tables \in Database, NEW p \in Transaction, NEW n \in Nodes,
         NEW r, r.time \in Nat, r.says \in Says
  PROVE  /\ Processed(p, n, r) \in Database
         /\ Counts(presence, Processed(p, n, r).presence, p, n, r)
         /\ HiddenKept(inventory, Processed(p, n, r).inventory)
         /\ Processed(p, n, r).location # location
              => /\ r.says = "listed" /\ p.places
                 /\ (p.old \in {None, n} => p.old = None) /\ (p.old # None => p.enough)
<1>1. Tables.presence = presence /\ Tables.inventory = inventory /\ Tables.location = location
  BY DEF Tables
<1>2. CASE r.says = "listed"
  <2> DEFINE s == MarkSeen(Tables, n, r.time)
             e == Locate(s, p, n, r.time)
  <2>1. Processed(p, n, r) = e
    BY <1>2 DEF Processed
  <2>2. /\ s \in Database /\ s.location = location
        /\ \A m \in Nodes \ {n} : s.presence[m] = presence[m]
        /\ s.presence[n].count = 0 /\ s.presence[n].since = 0
        /\ HiddenKept(inventory, s.inventory)
    BY <1>1, MarkSeenEffect
  <2> HIDE DEF s
  <2>3. /\ e \in Database /\ SameMisses(s.presence, e.presence, Nodes)
        /\ HiddenKept(s.inventory, e.inventory)
        /\ e.location # s.location
             => p.places /\ (p.old \in {None, n} => p.old = None) /\ (p.old # None => p.enough)
    BY <2>2, LocateEffect
  <2> HIDE DEF e
  <2>4. HiddenKept(inventory, e.inventory)
    BY <2>2, <2>3 DEF HiddenKept
  <2>5. Counts(presence, e.presence, p, n, r)
    BY <1>2, <2>2, <2>3 DEF SameMisses, Counts
  <2>6. QED
    BY <1>2, <2>1, <2>2, <2>3, <2>4, <2>5
<1>3. CASE r.says = "absent"
  <2> DEFINE e == MarkMissing(Tables, p, n, r.time)
  <2>1. Processed(p, n, r) = e
    BY <1>3 DEF Processed
  <2>2. /\ e \in Database /\ e.location = location
        /\ \A m \in Nodes \ {n} : e.presence[m] = presence[m]
        /\ \/ e.presence[n] = presence[n]
           \/ e.presence[n].count = OneMore(p.count) /\ e.presence[n].since = Since(p, r.time)
        /\ HiddenKept(inventory, e.inventory)
    BY <1>1, MarkMissingEffect
  <2> HIDE DEF e
  <2>3. Counts(presence, e.presence, p, n, r)
    BY <1>3, <2>2 DEF SameMisses, Counts
  <2>4. QED
    BY <2>1, <2>2, <2>3
<1>4. QED
  BY <1>2, <1>3 DEF Says

-----------------------------------------------------------------------------
(* The reports that wait: one per node, no younger than the clock and no     *)
(* older than the first that missed the VM.                                  *)
Reports ==
  /\ clock >= 1 /\ outbox \in [Nodes -> SUBSET [time : Nat, says : Says]]
  /\ \A n \in Nodes :
       /\ firstMiss[n] <= clock
       /\ \A r \in outbox[n] : firstMiss[n] <= r.time /\ \A s \in outbox[n] : s = r

(* The history knows of every report that a row counts, and of the first;   *)
(* also of those a push has read in a row.                                   *)
Known(row, n) ==
  /\ row.count <= misses[n]
  /\ row.since > 0 => firstMiss[n] > 0 /\ firstMiss[n] <= row.since
HistoryKnows == \A n \in Nodes : Known(presence[n], n) /\ Known(push[n], n)

(* A push is open only while its report waits. *)
Open == \A n \in Nodes : outbox[n] = {} => push[n] = NoPush

(* One push holds the location; the one that inserts it finds none there.    *)
Locks ==
  \A n \in Nodes : push[n].places =>
    /\ \A k \in Nodes \ {n} : ~push[k].places
    /\ push[n].old = None => location = None

(* What a push that is not overtaken has read of another node holds still.   *)
Abreast ==
  \A n \in Nodes \ overtaken : push[n].old \notin {None, n} =>
    /\ location = push[n].old
    /\ push[n].enough => \A r \in outbox[n] : MissedFirst(push[n].old, r.time)

IInv == TypeOK /\ Reports /\ HistoryKnows /\ Open /\ Locks /\ Abreast

LEMMA TablesTyped ==
  ASSUME TypeOK
  PROVE  /\ Tables \in Database
         /\ Tables.presence = presence /\ Tables.inventory = inventory
         /\ Tables.location = location
         /\ push \in [Nodes -> Transaction]
BY DEF TypeOK, Tables, Database, Transaction

LEMMA InitHolds == Init => IInv
<1> SUFFICES ASSUME Init PROVE IInv
  OBVIOUS
<1>1. host \subseteq Nodes
  BY NodesAssumption DEF Init
<1>2. push = [n \in Nodes |-> NoPush] /\ NoPush \in Transaction
  BY Blank DEF Init
<1>3. TypeOK
  BY <1>1, <1>2, Blank DEF Init, TypeOK, NoJob, Transaction
<1>4. Reports
  BY DEF Init, Reports
<1>5. HistoryKnows
  BY <1>2, Blank DEF Init, HistoryKnows, Known
<1>6. Open /\ Locks /\ Abreast
  BY <1>2, Blank DEF Open, Locks, Abreast
<1>7. QED
  BY <1>3, <1>4, <1>5, <1>6 DEF IInv

(* The world: the clock, the VM's hosts, the reports. *)
LEMMA TickKeeps ==
  ASSUME IInv, Tick
  PROVE  IInv'
<1>1. /\ clock \in Nat /\ clock' = clock + 1
      /\ UNCHANGED <<host, outbox, tables, openVars, historyVars>>
  BY DEF Tick, IInv, TypeOK
<1>2. TypeOK'
  BY <1>1 DEF IInv, TypeOK, tables, openVars, historyVars
<1>3. Reports'
  BY <1>1 DEF IInv, TypeOK, Reports, historyVars
<1>4. HistoryKnows' /\ Open' /\ Locks' /\ Abreast'
  BY <1>1 DEF IInv, HistoryKnows, Known, Open, Locks, Abreast, MissedFirst,
              tables, openVars, historyVars
<1>5. QED
  BY <1>2, <1>3, <1>4 DEF IInv

LEMMA RehostKeeps ==
  ASSUME IInv, NEW n \in Nodes, Rehost(n)
  PROVE  IInv'
<1>1. host' \subseteq Nodes /\ UNCHANGED <<clock, outbox, tables, openVars, historyVars>>
  BY DEF IInv, TypeOK, Rehost
<1>2. TypeOK'
  BY <1>1 DEF IInv, TypeOK, tables, openVars, historyVars
<1>3. Reports' /\ HistoryKnows' /\ Open' /\ Locks' /\ Abreast'
  BY <1>1 DEF IInv, Reports, HistoryKnows, Known, Open, Locks, Abreast, MissedFirst,
              tables, openVars, historyVars
<1>4. QED
  BY <1>2, <1>3 DEF IInv

LEMMA CollectKeeps ==
  ASSUME IInv, NEW n \in Nodes, NEW says \in Says, Collect(n, says)
  PROVE  IInv'
<1> DEFINE report == [time |-> clock, says |-> says]
<1>1. /\ report \in [time : Nat, says : Says] /\ report.time = clock
      /\ report.time \in 1 .. clock /\ report.says \in Says
  BY DEF IInv, TypeOK, Reports
<1>2. /\ outbox[n] = {} /\ outbox' = [outbox EXCEPT ![n] = {report}]
      /\ UNCHANGED <<clock, host, tables, openVars, historyVars>>
  BY DEF Collect
<1> HIDE DEF report
<1>3. outbox'[n] = {report} /\ \A m \in Nodes \ {n} : outbox'[m] = outbox[m]
  BY <1>2 DEF IInv, Reports
<1>4. TypeOK'
  BY <1>1, <1>2, <1>3 DEF IInv, TypeOK, tables, openVars, historyVars
<1>5. Reports'
  <2>1. outbox' \in [Nodes -> SUBSET [time : Nat, says : Says]]
    BY <1>1, <1>2 DEF IInv, Reports
  <2>2. \A m \in Nodes : firstMiss'[m] <= clock' /\ clock' >= 1
    BY <1>2 DEF IInv, Reports, historyVars
  <2>3. \A m \in Nodes : \A r \in outbox'[m] :
          firstMiss'[m] <= r.time /\ \A s \in outbox'[m] : s = r
    BY <1>1, <1>2, <1>3 DEF IInv, Reports, historyVars
  <2>4. QED
    BY <1>2, <2>1, <2>2, <2>3 DEF IInv, Reports
<1>6. HistoryKnows' /\ Locks'
  BY <1>2 DEF IInv, HistoryKnows, Known, Locks, tables, openVars, historyVars
<1>7. Open'
  BY <1>2, <1>3 DEF IInv, Open, openVars
<1>8. Abreast'
  <2>1. push[n].old = None
    BY <1>2, Blank DEF IInv, Open
  <2>2. ASSUME NEW m \in Nodes \ overtaken, push[m].old \notin {None, m}
        PROVE  /\ location = push[m].old
               /\ push[m].enough => \A r \in outbox'[m] : MissedFirst(push[m].old, r.time)
    <3>1. m # n /\ outbox'[m] = outbox[m]
      BY <1>3, <2>1, <2>2
    <3>2. QED
      BY <2>2, <3>1 DEF IInv, Abreast
  <2>3. QED
    BY <1>2, <2>2 DEF Abreast, MissedFirst, tables, openVars, historyVars
<1>9. QED
  BY <1>4, <1>5, <1>6, <1>7, <1>8 DEF IInv

-----------------------------------------------------------------------------
(* A step of a push that reads, waits or aborts: its record alone changes.   *)
LEMMA RecordKeeps ==
  ASSUME IInv, NEW n \in Nodes, NEW p \in Transaction,
         push' = [push EXCEPT ![n] = p], overtaken' \in {overtaken, overtaken \ {n}},
         UNCHANGED <<worldVars, tables, page, job, misses, firstMiss>>,
         Known(p, n),
         outbox[n] = {} => p = NoPush,
         p.places => /\ \A k \in Nodes \ {n} : ~push[k].places
                     /\ p.old = None => location = None,
         n \notin overtaken' /\ p.old \notin {None, n} =>
           /\ location = p.old
           /\ p.enough => \A r \in outbox[n] : MissedFirst(p.old, r.time)
  PROVE  IInv'
<1>1. /\ push'[n] = p /\ push' \in [Nodes -> Transaction]
      /\ \A m \in Nodes \ {n} : push'[m] = push[m]
  BY TablesTyped DEF IInv
<1>2. UNCHANGED <<clock, host, outbox, presence, inventory, location, page, job,
                  misses, firstMiss>>
  BY DEF worldVars, tables
<1>3. TypeOK'
  BY <1>1, <1>2 DEF IInv, TypeOK, Transaction
<1>4. Reports'
  BY <1>2 DEF IInv, Reports
<1>5. HistoryKnows'
  BY <1>1, <1>2 DEF IInv, HistoryKnows, Known
<1>6. Open'
  BY <1>1, <1>2 DEF IInv, Open
<1>7. Locks'
  BY <1>1, <1>2 DEF IInv, Locks
<1>8. Abreast'
  <2>1. ASSUME NEW m \in Nodes \ overtaken', push'[m].old \notin {None, m}
        PROVE  /\ location = push'[m].old
               /\ push'[m].enough => \A r \in outbox[m] : MissedFirst(push'[m].old, r.time)
    <3>1. CASE m = n
      BY <1>1, <2>1, <3>1
    <3>2. CASE m # n
      BY <1>1, <2>1, <3>2 DEF IInv, Abreast
    <3>3. QED
      BY <3>1, <3>2
  <2>2. QED
    BY <1>2, <2>1 DEF Abreast, MissedFirst
<1>9. QED
  BY <1>3, <1>4, <1>5, <1>6, <1>7, <1>8 DEF IInv

LEMMA ReadLocationKeeps ==
  ASSUME IInv, NEW n \in Nodes, ReadLocation(n)
  PROVE  IInv'
<1> DEFINE p == [NoPush EXCEPT !.pc = IF location \in {None, n} THEN "checked" ELSE "located",
                               !.old = location, !.held = {n}]
<1>1. /\ p \in Transaction /\ p.old = location /\ p.enough = FALSE /\ p.places = FALSE
      /\ p.count = 0 /\ p.since = 0
  <2>1. location \in Nodes \cup {None}
    BY DEF IInv, TypeOK
  <2>2. QED
    BY <2>1 DEF NoPush, Transaction
<1>2. /\ push' = [push EXCEPT ![n] = p] /\ outbox[n] # {} /\ overtaken' = overtaken
      /\ UNCHANGED <<worldVars, tables, page, job, misses, firstMiss>>
  BY DEF ReadLocation, historyVars
<1> HIDE DEF p
<1>3. misses[n] \in Nat
  BY DEF IInv, TypeOK
<1>4. Known(p, n)
  BY <1>1, <1>3 DEF Known
<1>5. QED
  BY <1>1, <1>2, <1>4, RecordKeeps

LEMMA ReadOldKeeps ==
  ASSUME IInv, NEW n \in Nodes, ReadOld(n)
  PROVE  IInv'
<1>1. PICK r \in outbox[n] :
        push' = [push EXCEPT ![n].pc = "checked",
                             ![n].enough = MissingEnough(presence[push[n].old], r.time)]
  BY DEF ReadOld
<1> DEFINE enough == MissingEnough(presence[push[n].old], r.time)
           p      == [push[n] EXCEPT !.pc = "checked", !.enough = enough]
<1>2. push[n] \in Transaction /\ enough \in BOOLEAN
  BY TablesTyped DEF IInv, MissingEnough
<1>3. p \in Transaction /\ p.enough = enough
      /\ p.old = push[n].old /\ p.places = push[n].places
      /\ p.count = push[n].count /\ p.since = push[n].since
  BY <1>2 DEF Transaction
<1>4. push' = [push EXCEPT ![n] = p]
  BY <1>1, TablesTyped DEF IInv, Transaction
<1>5. ASSUME n \notin overtaken, p.old \notin {None, n}
      PROVE  /\ location = p.old
             /\ p.enough => \A s \in outbox[n] : MissedFirst(p.old, s.time)
  <2>1. location = p.old /\ p.old \in Nodes
    BY <1>2, <1>3, <1>5 DEF IInv, Abreast, Transaction
  <2>2. ASSUME enough, NEW s \in outbox[n]
        PROVE  MissedFirst(p.old, s.time)
    <3>1. s = r /\ r.time \in Nat
      BY DEF IInv, Reports
    <3>2. /\ presence[p.old].count \in Nat /\ presence[p.old].since \in Nat
          /\ misses[p.old] \in Nat /\ firstMiss[p.old] \in Nat
      BY <2>1 DEF IInv, TypeOK, PresenceRow
    <3>3. Known(presence[p.old], p.old) /\ MissingEnough(presence[p.old], r.time)
      BY <1>3, <2>1, <2>2 DEF IInv, HistoryKnows
    <3> HIDE DEF p, enough
    <3>4. MissedFirst(p.old, r.time)
      BY <3>1, <3>2, <3>3, Delays DEF Known, MissingEnough, MissedFirst
    <3>5. QED
      BY <3>1, <3>4
  <2>3. QED
    BY <1>3, <2>1, <2>2
<1> HIDE DEF p, enough
<1>6. Known(p, n)
  BY <1>3 DEF IInv, HistoryKnows, Known
<1>7. p.places => /\ \A k \in Nodes \ {n} : ~push[k].places
                  /\ p.old = None => location = None
  BY <1>3 DEF IInv, Locks
<1>8. UNCHANGED <<worldVars, tables, page, job, misses, firstMiss>> /\ overtaken' = overtaken
  BY DEF ReadOld, historyVars
<1>9. QED
  BY <1>3, <1>4, <1>5, <1>6, <1>7, <1>8, RecordKeeps

LEMMA ReadOwnKeeps ==
  ASSUME IInv, NEW n \in Nodes, ReadOwn(n)
  PROVE  IInv'
<1> DEFINE p == [NoPush EXCEPT !.pc = "checked", !.since = presence[n].since,
                               !.count = presence[n].count]
<1>1. /\ p \in Transaction /\ p.old = None /\ p.places = FALSE
      /\ p.count = presence[n].count /\ p.since = presence[n].since
  <2>1. presence[n].count \in Nat /\ presence[n].since \in Nat
    BY DEF IInv, TypeOK, PresenceRow
  <2>2. QED
    BY <2>1 DEF NoPush, Transaction
<1>2. /\ push' = [push EXCEPT ![n] = p] /\ outbox[n] # {} /\ overtaken' = overtaken
      /\ UNCHANGED <<worldVars, tables, page, job, misses, firstMiss>>
  BY DEF ReadOwn, historyVars
<1> HIDE DEF p
<1>3. Known(p, n)
  BY <1>1 DEF IInv, HistoryKnows, Known
<1>4. QED
  BY <1>1, <1>2, <1>3, RecordKeeps

(* The record of a push after its updates. *)
LEMMA WrittenRecord ==
  ASSUME IInv, NEW n \in Nodes, NEW r, r.says \in Says
  PROVE  /\ Written(n, r) \in Transaction
         /\ Written(n, r).old = push[n].old /\ Written(n, r).enough = push[n].enough
         /\ Written(n, r).count = push[n].count /\ Written(n, r).since = push[n].since
<1> DEFINE places == (r.says = "listed" /\ (push[n].old = None \/ location # None))
           p      == [push[n] EXCEPT !.held = Touched(n, r), !.places = places]
           due    == Due(Processed(p, n, r).presence)
<1>1. Written(n, r) = [p EXCEPT !.pc = "written", !.due = due]
  BY DEF Written
<1>2. due \subseteq Nodes /\ places \in BOOLEAN
  BY DEF Due
<1>3. Touched(n, r) \subseteq Nodes
  BY DEF Touched, Says
<1>4. push[n] \in Transaction
  BY TablesTyped DEF IInv
<1> HIDE DEF due, places
<1>5. QED
  BY <1>1, <1>2, <1>3, <1>4 DEF Transaction

LEMMA WriteKeeps ==
  ASSUME IInv, NEW n \in Nodes, Write(n)
  PROVE  IInv'
<1>1. PICK r \in outbox[n] :
        MayWrite(n, r, Written(n, r)) /\ push' = [push EXCEPT ![n] = Written(n, r)]
  BY DEF Write
<1>2. r.says \in Says
  BY DEF IInv, TypeOK
<1> DEFINE p == Written(n, r)
<1>3. /\ p \in Transaction /\ p.old = push[n].old /\ p.enough = push[n].enough
      /\ p.count = push[n].count /\ p.since = push[n].since
  BY <1>2, WrittenRecord
<1>4. p.places => /\ \A k \in Nodes \ {n} : ~push[k].places
                  /\ p.old = None => location = None
  BY <1>1 DEF MayWrite, LocationFree
<1>5. push' = [push EXCEPT ![n] = p]
  BY <1>1
<1> HIDE DEF p
<1>6. Known(p, n)
  BY <1>3 DEF IInv, HistoryKnows, Known
<1>7. n \notin overtaken /\ p.old \notin {None, n} =>
        /\ location = p.old
        /\ p.enough => \A s \in outbox[n] : MissedFirst(p.old, s.time)
  BY <1>3 DEF IInv, Abreast
<1>8. /\ UNCHANGED <<worldVars, tables, page, job, misses, firstMiss>> /\ overtaken' = overtaken
      /\ outbox[n] # {}
  BY <1>1 DEF Write, historyVars
<1>9. QED
  BY <1>3, <1>4, <1>5, <1>6, <1>7, <1>8, RecordKeeps

LEMMA PushAbortsKeeps ==
  ASSUME IInv, NEW n \in Nodes, PushAborts(n)
  PROVE  IInv'
<1>1. /\ push' = [push EXCEPT ![n] = NoPush] /\ overtaken' = overtaken \ {n}
      /\ UNCHANGED <<worldVars, tables, page, job, misses, firstMiss>>
  BY DEF PushAborts
<1>2. misses[n] \in Nat
  BY DEF IInv, TypeOK
<1>3. Known(NoPush, n)
  BY <1>2, Blank DEF Known
<1>4. QED
  BY <1>1, <1>3, Blank, RecordKeeps

-----------------------------------------------------------------------------
(* What the end of a push does: the report it stores, the tables, the        *)
(* history.  Who moves the location holds it alone.                          *)
LEMMA EndPushEffect ==
  ASSUME IInv, NEW n \in Nodes, EndPush(n)
  PROVE  \E r \in outbox[n], p \in Transaction :
           /\ p.old = push[n].old /\ p.enough = push[n].enough
           /\ p.count = push[n].count /\ p.since = push[n].since
           /\ p.places => /\ \A k \in Nodes \ {n} : ~push[k].places
                          /\ p.old = None => location = None
           /\ presence' \in [Nodes -> PresenceRow] /\ inventory' \in [Nodes -> InventoryRow]
           /\ location' \in Nodes \cup {None}
           /\ Counts(presence, presence', p, n, r) /\ HiddenKept(inventory, inventory')
           /\ location' # location
                => /\ r.says = "listed" /\ p.places
                   /\ (p.old \in {None, n} => p.old = None) /\ (p.old # None => p.enough)
           /\ misses' = [misses EXCEPT ![n] = IF r.says = "listed" THEN 0 ELSE OneMore(@)]
           /\ firstMiss' = [firstMiss EXCEPT
                              ![n] = CASE r.says = "listed" -> 0
                                       [] r.says = "absent" /\ @ = 0 -> r.time
                                       [] r.says = "absent" /\ @ > 0 -> @]
           /\ overtaken' = IF r.says = "listed" THEN Underway \ {n} ELSE overtaken \ {n}
<1> DEFINE rec(r) == IF push[n].pc = "written" THEN push[n] ELSE Written(n, r)
<1>1. PICK r \in outbox[n] :
        /\ push[n].pc = "written" \/ MayWrite(n, r, rec(r))
        /\ Commit(PurgeMigrated(Processed(rec(r), n, r), rec(r).due))
        /\ misses' = [misses EXCEPT ![n] = IF r.says = "listed" THEN 0 ELSE OneMore(@)]
        /\ firstMiss' = [firstMiss EXCEPT
                           ![n] = CASE r.says = "listed" -> 0
                                    [] r.says = "absent" /\ @ = 0 -> r.time
                                    [] r.says = "absent" /\ @ > 0 -> @]
        /\ overtaken' = IF r.says = "listed" THEN Underway \ {n} ELSE overtaken \ {n}
  BY DEF EndPush
<1> DEFINE p == rec(r)
           d == Processed(p, n, r)
           e == PurgeMigrated(d, p.due)
<1>2. r.says \in Says /\ r.time \in Nat
  BY DEF IInv, TypeOK, Reports
<1>3. /\ p \in Transaction /\ p.old = push[n].old /\ p.enough = push[n].enough
      /\ p.count = push[n].count /\ p.since = push[n].since
  BY <1>2, WrittenRecord, TablesTyped DEF IInv
<1>4. p.places => /\ \A k \in Nodes \ {n} : ~push[k].places
                  /\ p.old = None => location = None
  <2>1. CASE push[n].pc = "written"
    BY <2>1 DEF IInv, Locks
  <2>2. CASE push[n].pc # "written"
    BY <1>1, <2>2 DEF MayWrite, LocationFree
  <2>3. QED
    BY <2>1, <2>2
<1>5. presence' = e.presence /\ inventory' = e.inventory /\ location' = e.location
  BY <1>1 DEF Commit
<1> HIDE DEF p
<1>6. /\ d \in Database /\ Counts(presence, d.presence, p, n, r)
      /\ HiddenKept(inventory, d.inventory)
      /\ d.location # location
           => /\ r.says = "listed" /\ p.places
              /\ (p.old \in {None, n} => p.old = None) /\ (p.old # None => p.enough)
  BY <1>2, <1>3, TablesTyped, ProcessedEffect DEF IInv
<1> HIDE DEF d
<1>7. p.due \in SUBSET Nodes
  BY <1>3 DEF Transaction
<1>8. /\ e \in Database /\ e.location = d.location
      /\ SameMisses(d.presence, e.presence, Nodes) /\ HiddenKept(d.inventory, e.inventory)
  BY <1>6, <1>7, PurgeMigratedEffect
<1> HIDE DEF e
<1>9. Counts(presence, e.presence, p, n, r)
  BY <1>6, <1>8 DEF Counts, SameMisses
<1>10. HiddenKept(inventory, e.inventory)
  BY <1>6, <1>8 DEF HiddenKept
<1>11. /\ e.presence \in [Nodes -> PresenceRow] /\ e.inventory \in [Nodes -> InventoryRow]
       /\ e.location \in Nodes \cup {None}
  BY <1>8 DEF Database
<1>12. e.location # location
           => /\ r.says = "listed" /\ p.places
              /\ (p.old \in {None, n} => p.old = None) /\ (p.old # None => p.enough)
  BY <1>6, <1>8
<1>13. QED
  BY <1>1, <1>3, <1>4, <1>5, <1>9, <1>10, <1>11, <1>12

LEMMA EndPushKeeps ==
  ASSUME IInv, NEW n \in Nodes, EndPush(n)
  PROVE  IInv'
<1>1. PICK r \in outbox[n], p \in Transaction :
        /\ p.count = push[n].count /\ p.since = push[n].since
        /\ p.places => \A k \in Nodes \ {n} : ~push[k].places
        /\ presence' \in [Nodes -> PresenceRow] /\ inventory' \in [Nodes -> InventoryRow]
        /\ location' \in Nodes \cup {None}
        /\ Counts(presence, presence', p, n, r)
        /\ location' # location => r.says = "listed" /\ p.places
        /\ misses' = [misses EXCEPT ![n] = IF r.says = "listed" THEN 0 ELSE OneMore(@)]
        /\ firstMiss' = [firstMiss EXCEPT
                           ![n] = CASE r.says = "listed" -> 0
                                    [] r.says = "absent" /\ @ = 0 -> r.time
                                    [] r.says = "absent" /\ @ > 0 -> @]
        /\ overtaken' = IF r.says = "listed" THEN Underway \ {n} ELSE overtaken \ {n}
  BY EndPushEffect
<1>2. /\ outbox' = [outbox EXCEPT ![n] = {}] /\ push' = [push EXCEPT ![n] = NoPush]
      /\ UNCHANGED <<clock, host, page, job>>
  BY DEF EndPush
<1>3. /\ misses[n] \in Nat /\ firstMiss[n] \in Nat /\ r.time \in Nat /\ clock \in Nat
      /\ r.time <= clock /\ r.says \in Says
      /\ presence[n].count \in Nat /\ presence[n].since \in Nat
      /\ p.count \in Nat /\ p.since \in Nat
  BY <1>1 DEF IInv, TypeOK, Reports, PresenceRow, Transaction
<1>4. /\ \A m \in Nodes \ {n} : misses'[m] = misses[m] /\ firstMiss'[m] = firstMiss[m]
      /\ \A m \in Nodes \ {n} : push'[m] = push[m] /\ outbox'[m] = outbox[m]
      /\ push'[n] = NoPush /\ outbox'[n] = {}
  BY <1>1, <1>2 DEF IInv, TypeOK, Reports
<1>5. /\ r.says = "listed" => misses'[n] = 0 /\ firstMiss'[n] = 0
      /\ r.says = "absent" =>
           /\ misses'[n] = OneMore(misses[n])
           /\ firstMiss'[n] = IF firstMiss[n] = 0 THEN r.time ELSE firstMiss[n]
  <2>1. /\ misses'[n] = IF r.says = "listed" THEN 0 ELSE OneMore(misses[n])
        /\ firstMiss'[n] = CASE r.says = "listed" -> 0
                             [] r.says = "absent" /\ firstMiss[n] = 0 -> r.time
                             [] r.says = "absent" /\ firstMiss[n] > 0 -> firstMiss[n]
    BY <1>1 DEF IInv, TypeOK
  <2>2. CASE r.says = "listed"
    BY <2>1, <2>2
  <2>3. CASE r.says = "absent"
    BY <1>3, <2>1, <2>3
  <2>4. QED
    BY <1>3, <2>2, <2>3 DEF Says
<1>6. /\ misses'[n] \in Nat /\ firstMiss'[n] \in Nat
      /\ misses' \in [Nodes -> Nat] /\ firstMiss' \in [Nodes -> Nat]
  <2>1. misses'[n] \in Nat /\ firstMiss'[n] \in Nat
    BY <1>3, <1>5, OneMoreMonotone DEF Says
  <2>2. QED
    BY <1>1, <1>4, <2>1 DEF IInv, TypeOK
<1>7. TypeOK'
  <2>1. push' \in [Nodes -> Transaction]
    BY <1>2, TablesTyped, Blank DEF IInv
  <2>2. overtaken' \subseteq Nodes
    BY <1>1 DEF IInv, TypeOK, Underway
  <2>3. QED
    BY <1>1, <1>2, <1>4, <1>6, <2>1, <2>2 DEF IInv, TypeOK, Transaction
<1>8. Reports'
  <2>1. firstMiss'[n] <= clock
    BY <1>3, <1>5 DEF IInv, Reports, Says
  <2>2. QED
    BY <1>2, <1>4, <2>1 DEF IInv, Reports
<1>9. HistoryKnows'
  <2>1. ASSUME NEW m \in Nodes \ {n}
        PROVE  Known(presence[m], m)' /\ Known(push[m], m)'
    BY <1>1, <1>4 DEF IInv, HistoryKnows, Known, Counts, SameMisses
  <2>2. Known(push[n], n)'
    BY <1>4, <1>6, Blank DEF Known
  <2>3. Known(presence[n], n) /\ Known(p, n) /\ firstMiss[n] <= r.time
    BY <1>1 DEF IInv, HistoryKnows, Known, Reports
  <2>4. Known(presence[n], n)'
    <3>1. CASE r.says = "listed"
      <4>1. presence'[n].count = 0 /\ presence'[n].since = 0
        BY <1>1, <3>1 DEF Counts
      <4>2. QED
        BY <1>5, <3>1, <4>1 DEF Known
    <3>2. CASE r.says = "absent"
      <4>1. \/ presence'[n].count = presence[n].count /\ presence'[n].since = presence[n].since
            \/ presence'[n].count = OneMore(p.count) /\ presence'[n].since = Since(p, r.time)
        BY <1>1, <3>2 DEF Counts, SameMisses
      <4>2. presence'[n].count <= misses'[n]
        <5>1. /\ misses[n] <= OneMore(misses[n]) /\ OneMore(p.count) <= OneMore(misses[n])
              /\ OneMore(misses[n]) \in Nat
          BY <1>3, <2>3, OneMoreMonotone DEF Known
        <5>2. QED
          BY <1>3, <1>5, <2>3, <3>2, <4>1, <5>1 DEF Known
      <4>3. presence'[n].since > 0 => firstMiss'[n] > 0 /\ firstMiss'[n] <= presence'[n].since
        <5>1. r.time > 0
          BY <1>1 DEF IInv, TypeOK
        <5>2. firstMiss'[n] > 0 /\ (firstMiss[n] > 0 => firstMiss'[n] = firstMiss[n])
          BY <1>3, <1>5, <3>2, <5>1
        <5>3. CASE presence'[n].since = presence[n].since
          BY <1>3, <2>3, <5>2, <5>3 DEF Known
        <5>4. CASE presence'[n].since = Since(p, r.time)
          BY <1>3, <1>5, <2>3, <3>2, <5>2, <5>4 DEF Known, Since
        <5>5. QED
          BY <4>1, <5>3, <5>4
      <4>4. QED
        BY <4>2, <4>3 DEF Known
    <3>3. QED
      BY <1>3, <3>1, <3>2 DEF Says
  <2>5. QED
    BY <2>1, <2>2, <2>4 DEF HistoryKnows
<1>10. Open'
  BY <1>4 DEF IInv, Open
<1>11. Locks'
  BY <1>1, <1>4, Blank DEF IInv, Locks
<1>12. Abreast'
  <2>1. ASSUME NEW m \in Nodes \ overtaken', push'[m].old \notin {None, m}
        PROVE  /\ m # n /\ r.says = "absent" /\ m \notin overtaken
               /\ push'[m] = push[m] /\ outbox'[m] = outbox[m] /\ location' = location
    BY <1>1, <1>3, <1>4, <2>1, Blank DEF Underway, Says
  <2>2. ASSUME r.says = "absent", NEW old \in Nodes, NEW s, MissedFirst(old, s)
        PROVE  MissedFirst(old, s)'
    <3>1. CASE old # n
      BY <1>4, <2>2, <3>1 DEF MissedFirst
    <3>2. CASE old = n
      <4>1. misses'[n] >= misses[n] /\ (firstMiss[n] > 0 => firstMiss'[n] = firstMiss[n])
        BY <1>3, <1>5, <2>2, OneMoreMonotone
      <4>2. QED
        BY <1>3, <1>6, <2>2, <3>2, <4>1, Delays DEF MissedFirst
    <3>3. QED
      BY <3>1, <3>2
  <2>3. \A m \in Nodes : push[m].old \in Nodes \cup {None}
    BY TablesTyped DEF IInv, Transaction
  <2>4. QED
    BY <2>1, <2>2, <2>3 DEF IInv, Abreast, MissedFirst
<1>13. QED
  BY <1>7, <1>8, <1>9, <1>10, <1>11, <1>12 DEF IInv

-----------------------------------------------------------------------------
(* The pages, the administrators and the runner: no push and no location.    *)
Purge == [kind : {"none", "vm", "node"}, rows : SUBSET Nodes, writes : BOOLEAN,
          to : Nodes \cup {None}]

LEMMA NoJobTyped == NoJob \in Purge
BY DEF NoJob, Purge

LEMMA OthersKeep ==
  ASSUME IInv, UNCHANGED <<worldVars, location, push, historyVars>>,
         presence' \in [Nodes -> PresenceRow], inventory' \in [Nodes -> InventoryRow],
         page' \subseteq Nodes, job' \in Purge,
         SameMisses(presence, presence', Nodes)
  PROVE  IInv'
<1>1. UNCHANGED <<clock, host, outbox, location, push, misses, firstMiss, overtaken>>
  BY DEF worldVars, historyVars
<1>2. TypeOK'
  BY <1>1 DEF IInv, TypeOK, Purge
<1>3. HistoryKnows'
  BY <1>1 DEF IInv, HistoryKnows, Known, SameMisses
<1>4. Reports' /\ Open' /\ Locks' /\ Abreast'
  BY <1>1 DEF IInv, Reports, Open, Locks, Abreast, MissedFirst
<1>5. QED
  BY <1>2, <1>3, <1>4 DEF IInv

LEMMA CleanupEffect ==
  ASSUME TypeOK, AutoCleanup
  PROVE  inventory' \in [Nodes -> InventoryRow] /\ HiddenKept(inventory, inventory')
<1>1. ASSUME NEW n \in Nodes
      PROVE  Cleaned(inventory[n]) \in InventoryRow
  BY DEF TypeOK, Cleaned, InventoryRow, InventoryStatus
<1>2. inventory' = [n \in Nodes |-> Cleaned(inventory[n])]
  BY DEF AutoCleanup
<1>3. ASSUME NEW n \in Nodes, inventory[n].status = "hidden"
      PROVE  Cleaned(inventory[n]) = inventory[n]
  BY <1>3 DEF Cleaned
<1>4. QED
  BY <1>1, <1>2, <1>3 DEF HiddenKept

LEMMA PageEndsEffect ==
  ASSUME TypeOK, PageEnds
  PROVE  /\ presence' \in [Nodes -> PresenceRow] /\ inventory' \in [Nodes -> InventoryRow]
         /\ location' = location
         /\ SameMisses(presence, presence', Nodes) /\ HiddenKept(inventory, inventory')
<1> DEFINE e == PurgeMigrated(Tables, page)
<1>1. /\ e \in Database /\ e.location = location
      /\ SameMisses(presence, e.presence, Nodes) /\ HiddenKept(inventory, e.inventory)
  BY TablesTyped, PurgeMigratedEffect DEF TypeOK
<1>2. presence' = e.presence /\ inventory' = e.inventory /\ location' = e.location
  BY DEF PageEnds, Commit
<1>3. QED
  BY <1>1, <1>2 DEF Database

LEMMA HideEffect ==
  ASSUME TypeOK, NEW n \in Nodes, Hide(n)
  PROVE  inventory' \in [Nodes -> InventoryRow] /\ HiddenKept(inventory, inventory')
<1> DEFINE row == [inventory[n] EXCEPT !.status = "hidden"]
<1>1. row \in InventoryRow /\ row.status = "hidden"
  BY DEF TypeOK, InventoryRow, InventoryStatus
<1>2. inventory' = [inventory EXCEPT ![n] = row]
  BY DEF Hide, TypeOK
<1>3. QED
  BY <1>1, <1>2 DEF TypeOK, HiddenKept

LEMMA RestoreEffect ==
  ASSUME TypeOK, NEW n \in Nodes, Restore(n)
  PROVE  /\ inventory' \in [Nodes -> InventoryRow]
         /\ \A m \in Nodes \ {n} : inventory'[m] = inventory[m]
<1> DEFINE row == [inventory[n] EXCEPT !.status = "shown"]
<1>1. row \in InventoryRow
  BY DEF TypeOK, InventoryRow, InventoryStatus
<1>2. inventory' = [inventory EXCEPT ![n] = row]
  BY DEF Restore, TypeOK
<1>3. QED
  BY <1>1, <1>2 DEF TypeOK

LEMMA PagesKeep ==
  ASSUME IInv, AutoCleanup \/ PageReads \/ PageEnds \/ \E n \in Nodes : Hide(n) \/ Restore(n)
  PROVE  IInv'
<1>1. /\ TypeOK /\ SameMisses(presence, presence, Nodes)
      /\ presence \in [Nodes -> PresenceRow] /\ inventory \in [Nodes -> InventoryRow]
      /\ page \subseteq Nodes /\ job \in Purge
  BY DEF IInv, TypeOK, Purge, SameMisses
<1>2. CASE AutoCleanup
  BY <1>1, <1>2, CleanupEffect, OthersKeep DEF AutoCleanup, openVars
<1>3. CASE PageReads
  BY <1>1, <1>3, OthersKeep DEF PageReads, tables, Due
<1>4. CASE PageEnds
  BY <1>1, <1>4, PageEndsEffect, OthersKeep DEF PageEnds
<1>5. ASSUME NEW n \in Nodes, Hide(n)
      PROVE  IInv'
  BY <1>1, <1>5, HideEffect, OthersKeep DEF Hide, openVars
<1>6. ASSUME NEW n \in Nodes, Restore(n)
      PROVE  IInv'
  BY <1>1, <1>6, RestoreEffect, OthersKeep DEF Restore, openVars
<1>7. QED
  BY <1>2, <1>3, <1>4, <1>5, <1>6

(* The purge that the runner begins or gives up. *)
LEMMA JobKeeps ==
  ASSUME IInv, PurgeVm \/ JobAborts \/ \E n \in Nodes : PurgeNode(n)
  PROVE  IInv'
<1>1. /\ SameMisses(presence, presence, Nodes)
      /\ presence \in [Nodes -> PresenceRow] /\ inventory \in [Nodes -> InventoryRow]
      /\ page \subseteq Nodes /\ location \in Nodes \cup {None}
  BY DEF IInv, TypeOK, SameMisses
<1>2. CASE PurgeVm
  <2>1. job' \in Purge
    BY <1>2 DEF PurgeVm, NoJob, Purge
  <2>2. QED
    BY <1>1, <1>2, <2>1, OthersKeep DEF PurgeVm, tables
<1>3. CASE JobAborts
  BY <1>1, <1>3, NoJobTyped, OthersKeep DEF JobAborts, tables
<1>4. ASSUME NEW n \in Nodes, PurgeNode(n)
      PROVE  IInv'
  <2>1. PICK to \in IF location # n
               THEN {location}
               ELSE IF Remaining(n) = {} THEN {None}
               ELSE {m \in Remaining(n) :
                       \A k \in Remaining(n) : inventory[k].seen <= inventory[m].seen} :
          job' = [kind |-> "node", rows |-> {m \in {n} : presence[m].status # "none"},
                  writes |-> location # to, to |-> to]
    BY <1>4 DEF PurgeNode
  <2>2. to \in Nodes \cup {None}
    BY <1>1 DEF Remaining
  <2>3. job' \in Purge
    BY <2>1, <2>2 DEF Purge
  <2>4. QED
    BY <1>1, <1>4, <2>3, OthersKeep DEF PurgeNode, tables
<1>5. QED
  BY <1>2, <1>3, <1>4

(* The end of a purge: every push that had found the VM is overtaken; if it  *)
(* moves the location, no push holds that.                                   *)
LEMMA EndJobEffect ==
  ASSUME TypeOK, EndJob
  PROVE  /\ presence' \in [Nodes -> PresenceRow] /\ inventory' \in [Nodes -> InventoryRow]
         /\ location' \in Nodes \cup {None}
         /\ location' # location => \A k \in Nodes : ~push[k].places
         /\ \A n \in Nodes : presence'[n] \in {presence[n], NoPresence}
         /\ \A n \in Nodes : inventory'[n] \in {inventory[n], NoInventory}
<1> DEFINE gone == IF job.kind = "vm" THEN {n \in Nodes : inventory[n].status # "none"} ELSE job.rows
<1>1. /\ presence' = [n \in Nodes |-> IF n \in job.rows THEN NoPresence ELSE presence[n]]
      /\ inventory' = [n \in Nodes |-> IF n \in gone THEN NoInventory ELSE inventory[n]]
      /\ location' = IF job.writes /\ location # None THEN job.to ELSE location
      /\ job.writes => LocationFree(None)
  BY DEF EndJob
<1> HIDE DEF gone
<1>2. location \in Nodes \cup {None} /\ job.to \in Nodes \cup {None}
  BY DEF TypeOK
<1>3. LocationFree(None) => \A k \in Nodes : ~push[k].places
  BY NodesAssumption DEF LocationFree
<1>4. QED
  BY <1>1, <1>2, <1>3, Blank DEF TypeOK

LEMMA EndJobKeeps ==
  ASSUME IInv, EndJob
  PROVE  IInv'
<1>1. /\ presence' \in [Nodes -> PresenceRow] /\ inventory' \in [Nodes -> InventoryRow]
      /\ location' \in Nodes \cup {None}
      /\ location' # location => \A k \in Nodes : ~push[k].places
      /\ \A n \in Nodes : presence'[n] \in {presence[n], NoPresence}
  BY EndJobEffect DEF IInv
<1>2. /\ UNCHANGED <<clock, host, outbox, push, page, misses, firstMiss>>
      /\ overtaken' = Underway /\ job' = NoJob
  BY DEF EndJob, worldVars
<1>3. TypeOK'
  BY <1>1, <1>2, NoJobTyped DEF IInv, TypeOK, Underway, Purge
<1>4. HistoryKnows'
  <2>1. ASSUME NEW n \in Nodes
        PROVE  Known(presence[n], n)' /\ Known(push[n], n)'
    <3>1. misses[n] \in Nat
      BY DEF IInv, TypeOK
    <3>2. Known(presence[n], n) /\ Known(push[n], n)
      BY DEF IInv, HistoryKnows
    <3>3. presence'[n] \in {presence[n], NoPresence}
      BY <1>1
    <3>4. QED
      BY <1>2, <3>1, <3>2, <3>3, Blank DEF Known
  <2>2. QED
    BY <2>1 DEF HistoryKnows
<1>5. Locks'
  <2>1. CASE location' = location
    BY <1>2, <2>1 DEF IInv, Locks
  <2>2. CASE \A k \in Nodes : ~push[k].places
    BY <1>2, <2>2 DEF Locks
  <2>3. QED
    BY <1>1, <2>1, <2>2
<1>6. Abreast'
  BY <1>2 DEF Abreast, Underway
<1>7. Reports' /\ Open'
  BY <1>2 DEF IInv, Reports, Open
<1>8. QED
  BY <1>3, <1>4, <1>5, <1>6, <1>7 DEF IInv

-----------------------------------------------------------------------------
LEMMA NextKeeps == IInv /\ [Next]_vars => IInv'
<1> SUFFICES ASSUME IInv, [Next]_vars PROVE IInv'
  OBVIOUS
<1>1. CASE UNCHANGED vars
  <2>1. UNCHANGED <<worldVars, location, push, historyVars, presence, inventory, page, job>>
    BY <1>1 DEF vars, tables, openVars
  <2>2. SameMisses(presence, presence, Nodes)
    BY DEF SameMisses
  <2>3. QED
    BY <2>1, <2>2, OthersKeep DEF IInv, TypeOK, Purge
<1>2. CASE Tick
  BY <1>2, TickKeeps
<1>3. ASSUME NEW n \in Nodes, Rehost(n)
      PROVE  IInv'
  BY <1>3, RehostKeeps
<1>4. ASSUME NEW n \in Nodes, NEW says \in Says, Collect(n, says)
      PROVE  IInv'
  BY <1>4, CollectKeeps
<1>5. ASSUME NEW n \in Nodes, Push(n)
      PROVE  IInv'
  BY <1>5, ReadLocationKeeps, ReadOldKeeps, ReadOwnKeeps, WriteKeeps, EndPushKeeps DEF Push
<1>6. ASSUME NEW n \in Nodes, PushAborts(n)
      PROVE  IInv'
  BY <1>6, PushAbortsKeeps
<1>7. CASE AutoCleanup \/ PageReads \/ PageEnds \/ \E n \in Nodes : Hide(n) \/ Restore(n)
  BY <1>7, PagesKeep
<1>8. CASE PurgeVm \/ JobAborts \/ \E n \in Nodes : PurgeNode(n)
  BY <1>8, JobKeeps
<1>9. CASE EndJob
  BY <1>9, EndJobKeeps
<1>10. QED
  BY <1>1, <1>2, <1>3, <1>4, <1>5, <1>6, <1>7, <1>8, <1>9, Zenon DEF Next

LEMMA Inductive == Spec => []IInv
BY InitHolds, NextKeeps, PTL DEF Spec

(* Every variable holds a value of its type, whatever is reported, in        *)
(* whatever order, however transactions overlap, and whatever the pages and  *)
(* the administrators do.                                                    *)
THEOREM TypeCorrect == Spec => []TypeOK
<1>1. IInv => TypeOK
  BY DEF IInv
<1>2. QED
  BY <1>1, Inductive, PTL

-----------------------------------------------------------------------------
(* One step and a hidden row: only Restore and the purges by an              *)
(* administrator write it otherwise than the conditional updates do.         *)
LEMMA HiddenStep ==
  ASSUME IInv, [Next]_vars, NEW n \in Nodes, inventory[n].status = "hidden"
  PROVE  inventory'[n].status \in {"hidden", "none"} \/ Restore(n)
<1> DEFINE Stays == inventory'[n].status \in {"hidden", "none"}
<1>1. TypeOK
  BY DEF IInv
<1>2. UNCHANGED inventory \/ HiddenKept(inventory, inventory') => Stays
  BY DEF HiddenKept
<1>3. CASE UNCHANGED vars \/ Tick \/ PageReads \/ PurgeVm \/ JobAborts
  BY <1>2, <1>3 DEF vars, tables, Tick, PageReads, PurgeVm, JobAborts
<1>4. ASSUME NEW m \in Nodes, Rehost(m) \/ PushAborts(m) \/ PurgeNode(m)
                               \/ \E says \in Says : Collect(m, says)
      PROVE  Stays
  BY <1>2, <1>4 DEF tables, Rehost, PushAborts, PurgeNode, Collect
<1>5. ASSUME NEW m \in Nodes, Push(m)
      PROVE  Stays
  <2>1. CASE ReadLocation(m) \/ ReadOld(m) \/ ReadOwn(m) \/ Write(m)
    BY <1>2, <2>1 DEF ReadLocation, ReadOld, ReadOwn, Write, tables
  <2>2. CASE EndPush(m)
    BY <1>2, <2>2, EndPushEffect
  <2>3. QED
    BY <1>5, <2>1, <2>2 DEF Push
<1>6. CASE AutoCleanup
  BY <1>1, <1>2, <1>6, CleanupEffect
<1>7. CASE PageEnds
  BY <1>1, <1>2, <1>7, PageEndsEffect
<1>8. ASSUME NEW m \in Nodes, Hide(m)
      PROVE  Stays
  BY <1>1, <1>2, <1>8, HideEffect
<1>9. ASSUME NEW m \in Nodes, Restore(m)
      PROVE  Stays \/ Restore(n)
  <2>1. CASE m = n
    BY <1>9, <2>1
  <2>2. CASE m # n
    BY <1>1, <1>9, <2>2, RestoreEffect
  <2>3. QED
    BY <2>1, <2>2
<1>10. CASE EndJob
  BY <1>1, <1>10, EndJobEffect, Blank
<1>11. QED
  BY <1>3, <1>4, <1>5, <1>6, <1>7, <1>8, <1>9, <1>10, Zenon DEF Next

(* "Only the Restore button" brings back a row that was hidden: no push, no  *)
(* clean-up and no purge of a migrated VM does, however their transactions   *)
(* overlap.                                                                  *)
THEOREM HiddenRowsStay == Spec => HiddenStays
<1>1. IInv /\ [Next]_vars
        => \A n \in Nodes : inventory[n].status = "hidden" =>
             \/ inventory'[n].status \in {"hidden", "none"}
             \/ Restore(n)
  BY HiddenStep
<1>2. QED
  BY <1>1, Inductive, PTL DEF Spec, HiddenStays

-----------------------------------------------------------------------------
(* A push that is not overtaken and moves the VM found it on the old node,   *)
(* which had missed it by then, and has missed it since.                     *)
LEMMA MoveStep ==
  ASSUME IInv, NEW n \in Nodes \ overtaken, EndPush(n),
         location \notin {None, location'}, NEW r \in outbox[n]
  PROVE  MissedFirst(location, r.time)
<1>1. PICK p \in Transaction :
        /\ p.old = push[n].old /\ p.enough = push[n].enough
        /\ p.places /\ (p.old = None => location = None)
        /\ (p.old \in {None, n} => p.old = None) /\ (p.old # None => p.enough)
  BY EndPushEffect
<1>2. push[n].old \notin {None, n} /\ push[n].enough
  BY <1>1
<1>3. QED
  BY <1>2 DEF IInv, Abreast

(* A push moves the VM from one node to another only when the old node has   *)
(* missed it, since it was last seen there, often or long enough; however    *)
(* late the reports of the two nodes come and however their pushes overlap,  *)
(* unless a push of another node that lists the VM, or a purge, has ended    *)
(* between the look for the location and the commit.                         *)
THEOREM MovesAreConfirmed == Spec => MigrationConfirmed
<1>1. IInv => \A n \in Nodes \ overtaken :
                location \notin {None, location'} /\ EndPush(n) =>
                  \A r \in outbox[n] : MissedFirst(location, r.time)
  BY MoveStep
<1>2. QED
  BY <1>1, Inductive, PTL DEF MigrationConfirmed

=============================================================================
