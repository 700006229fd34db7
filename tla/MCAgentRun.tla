----------------------------- MODULE MCAgentRun -----------------------------
(* Bounds for AgentRun: what control hosts may send.                       *)
EXTENDS AgentRun, TLC

CONSTANTS r1, r2, p1, p2

Sub(r, p, re) == [run |-> r, plan |-> p, resume |-> re]

(* One plan under two run_ids, and a run_id used again for another plan.   *)
MixedSubmissions == {Sub(r1, p1, FALSE), Sub(r2, p1, FALSE), Sub(r1, p2, TRUE)}

(* The agent only ever receives one plan.                                  *)
OnePlan == {Sub(r1, p1, FALSE), Sub(r1, p1, TRUE)}

Symmetry == Permutations(Clients)
=============================================================================
