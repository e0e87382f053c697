---------------------------- MODULE JobLifecycle ----------------------------
(***************************************************************************)
(* What dj_queue promises about one job: the states it may be in and the   *)
(* only ways between them.  In particular a job that has been claimed is   *)
(* never handed out again on its own: it finishes, fails or disappears,    *)
(* and only an explicit retry of the failure brings it back.               *)
(***************************************************************************)
VARIABLE state

States == {"none", "scheduled", "ready", "blocked", "claimed", "failed", "finished"}

Init == state \in {"none", "scheduled", "failed"}

Submit ==
  state = "none" /\ state' \in {"scheduled", "ready", "blocked", "finished"}

Dispatch ==
  state = "scheduled" /\ state' \in {"ready", "blocked", "finished", "failed"}

Unblock == state = "blocked" /\ state' \in {"ready", "failed"}

Claim == state = "ready" /\ state' = "claimed"

Settle == state = "claimed" /\ state' \in {"finished", "failed", "none"}

Retry ==
  state = "failed" /\ state' \in {"scheduled", "ready", "blocked", "finished"}

Delete ==
  state \in {"scheduled", "ready", "blocked", "failed", "finished"} /\ state' = "none"

Next == Submit \/ Dispatch \/ Unblock \/ Claim \/ Settle \/ Retry \/ Delete

Spec == Init /\ [][Next]_state
=============================================================================
