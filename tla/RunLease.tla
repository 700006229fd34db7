------------------------------ MODULE RunLease ------------------------------
(***************************************************************************)
(* What an agent promises about autonomous runs, with no request, disk or  *)
(* goroutine in sight: runs begin one at a time and once, a run that ends  *)
(* as "done" was executed without failure, and nothing but the end of the  *)
(* process takes an end back.  AgentRun implements it.                     *)
(***************************************************************************)
CONSTANT Runs

VARIABLES state,      \* state of each run since the process started
          finished    \* runs ever executed without failure

vars == <<state, finished>>

Ends == {"done", "failed", "cancelled"}

Init == state = [r \in Runs |-> "none"] /\ finished = {}

Begin(r) ==
  /\ state[r] = "none"
  /\ \A s \in Runs : state[s] # "running"
  /\ state' = [state EXCEPT ![r] = "running"]
  /\ UNCHANGED finished

Achieve(r) ==
  /\ state[r] = "running"
  /\ finished' = finished \cup {r}
  /\ UNCHANGED state

End(r, verdict) ==
  /\ state[r] = "running"
  /\ verdict = "done" => r \in finished
  /\ state' = [state EXCEPT ![r] = verdict]
  /\ UNCHANGED finished

Forget ==
  /\ state' = [r \in Runs |-> "none"]
  /\ UNCHANGED finished

Next ==
  \/ \E r \in Runs : Begin(r) \/ Achieve(r) \/ \E verdict \in Ends : End(r, verdict)
  \/ Forget

Spec == Init /\ [][Next]_vars
=============================================================================
