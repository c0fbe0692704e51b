----------------------------- MODULE MCBatchRun ------------------------------
(***************************************************************************)
(* Values for the constants of BatchRun.  The arenas are named after arenas *)
(* of the registry that have the role: gdelt collects by search terms, the  *)
(* collector of facebook supports no term search, and bluesky does both     *)
(* when the project has a source list for it.                               *)
(***************************************************************************)
EXTENDS BatchRun

TermOnly  == {"gdelt"}
ActorOnly == {"facebook"}
DualMode  == {"bluesky"}
NoArenas  == {}

\* Bound: a cancel request or a failure, not both.
OneMishapSpec == Init /\ [][Next /\ cancels' + faults' <= 1]_vars /\ Fairness

=============================================================================
