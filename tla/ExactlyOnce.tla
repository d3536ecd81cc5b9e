---------------------------- MODULE ExactlyOnce ----------------------------
(***************************************************************************)
(* What the push path promises, without files, crashes or a network: the   *)
(* node prepares one payload at a time; the Monitor adds it to the ledger  *)
(* in one step; the node lets go of it only after that, or after the       *)
(* ledger holds another payload with the same time stamp.                  *)
(***************************************************************************)
EXTENDS Naturals

VARIABLES
  outbox,   \* the payload prepared and not let go of: none or one
  ledger,   \* the payloads added so far
  total     \* the bytes added so far

vars == <<outbox, ledger, total>>

Init == outbox = {} /\ ledger = {} /\ total = 0

Prepare ==
  /\ outbox = {}
  /\ \E p \in outbox' : outbox' = {p} /\ p \notin ledger
  /\ UNCHANGED <<ledger, total>>

Credit ==
  \E p \in outbox \ ledger :
    /\ ledger' = ledger \cup {p}
    /\ total' = total + p.delta
    /\ UNCHANGED outbox

Settle ==
  /\ \E p \in outbox, q \in ledger : q.time = p.time
  /\ outbox' = {}
  /\ UNCHANGED <<ledger, total>>

Next == Prepare \/ Credit \/ Settle

Spec == Init /\ [][Next]_vars
=============================================================================
