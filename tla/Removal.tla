------------------------------- MODULE Removal -------------------------------
(***************************************************************************)
(* What EngineClient.RemoveContainer promises its callers (`down` and      *)
(* `up --remove-existing-container`): a call that returns nil leaves no    *)
(* container.  A call that returns an error promises nothing.              *)
(***************************************************************************)
CONSTANT Removers

VARIABLES state, outcome

Init == state = "present" /\ outcome = [p \in Removers |-> "none"]

(* The daemon starts to remove the container, and ends with success or not. *)
Begin == state = "present" /\ state' = "removing" /\ UNCHANGED outcome
End   == state = "removing" /\ state' \in {"gone", "present"}
         /\ outcome' \in [Removers -> {"none", "ok", "error"}]
         /\ \A p \in Removers : outcome'[p] # outcome[p] => outcome[p] = "none" /\ outcome'[p] = "error"

Return(p) ==
  /\ outcome[p] = "none"
  /\ \/ state = "gone" /\ outcome' = [outcome EXCEPT ![p] = "ok"]
     \/ outcome' = [outcome EXCEPT ![p] = "error"]
  /\ UNCHANGED state

Next == Begin \/ End \/ \E p \in Removers : Return(p)

Spec == Init /\ [][Next]_<<state, outcome>>
=============================================================================
