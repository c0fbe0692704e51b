------------------------------ MODULE RunStatus ------------------------------
(***************************************************************************)
(* What the rest of the system may rely on about one collection_runs row,  *)
(* whatever the dispatcher, the completion checker, the cancel endpoint    *)
(* and the stale-run cleanup do to it.  settle_pending_credits selects     *)
(* runs by completed_at alone, so the promise that matters is about that   *)
(* column: a run that ended as completed or cancelled carries it, and      *)
(* nothing ever clears it.                                                 *)
(*                                                                         *)
(* The status itself is promised much less: no writer but the cancel       *)
(* endpoint looks at the status it overwrites, so Begin and End are        *)
(* enabled from every status.                                              *)
(***************************************************************************)

VARIABLES status, completedAt

Terminal == {"completed", "failed", "cancelled"}

Init == status = "pending" /\ completedAt = FALSE

\* set_run_status(..., "running", started_at=True)
Begin == status' = "running" /\ UNCHANGED completedAt

\* A terminal status written together with completed_at.
End == status' \in Terminal /\ completedAt' = TRUE

\* mark_runs_failed writes the status and leaves completed_at alone.
Abandon == status' = "failed" /\ UNCHANGED completedAt

Next == Begin \/ End \/ Abandon

Spec == Init /\ [][Next]_<<status, completedAt>>

\* A run the user sees as completed or cancelled is visible to the
\* settlement task (fetch_unsettled_reservations, completed_at IS NOT NULL).
EndedIsStamped == status \in {"completed", "cancelled"} => completedAt

=============================================================================
