---------------------------- MODULE MCAgentPush ----------------------------
(***************************************************************************)
(* AgentPush for TLC.  ReadSoon leaves out interleavings that differ only  *)
(* in when something happens that no step has read yet.  The byte counter  *)
(* is read by Collect alone, so bytes flow, and taps are recreated, just   *)
(* before it; the clock is read by Start, Rotate, Collect and the end of a *)
(* cycle, so it does not move between two other steps; the receipts are    *)
(* read by Collect's history and by the next request to be delivered, so   *)
(* they are pruned, and copies left behind are delivered, while the Agent  *)
(* collects or waits for an answer.                                        *)
(***************************************************************************)
EXTENDS AgentPush

ReadSoon ==
  /\ <<traffic, counter>>' # <<traffic, counter>> => pc = "collect"
  /\ pc \in {"saveCarry", "savePending", "post", "saveState"} => clock' = clock
  /\ receipts' # receipts => pc \in {"collect", "await"}
=============================================================================
