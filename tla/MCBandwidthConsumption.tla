---------------------- MODULE MCBandwidthConsumption ----------------------
(* BandwidthConsumption for TLC. *)
EXTENDS BandwidthConsumption

(* A handler, a clear and what follows a cycle take no time: a tick passes   *)
(* while the Agent waits for its next cycle, for the jitter or for an        *)
(* answer, and while no transaction is halfway.  A request that read the     *)
(* epoch is either overtaken by an administrator or stores its row.          *)
Prompt ==
  /\ clock' > clock =>
       /\ ~clearing
       /\ \A r \in requests : r.stage # "checked"
       /\ pc = "accounted" => queue # Empty /\ clock < EndOf(Head) + Jitter
  /\ (\E r \in requests : r.stage = "checked") => pc' = pc \/ pc = "await"
  /\ Cardinality({r \in requests' : ~r.live}) <= 1
  /\ clearing => pc' = pc
=============================================================================
