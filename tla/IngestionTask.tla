---------------------------- MODULE IngestionTask ----------------------------
(***************************************************************************)
(* What the service promises about the status of one ingestion task        *)
(* (internal/service/ingestion_task_service.go): it is created once, moves *)
(* only along the transitions of validateTransition, goes back to the      *)
(* status it was retried from if it could not be enqueued, and a removed   *)
(* task never comes back.  Ingestor implements it.                         *)
(***************************************************************************)

VARIABLE status   \* the status column of the task's row

Terminal == {"COMPLETED", "STOPPED", "FAILED"}
TaskStatus == {"none", "CREATED", "RUNNING", "STOPPING", "removed"}
                  \cup Terminal

\* validateTransition.
ValidTransition(from, to) ==
    \/ from = "CREATED"  /\ to \in {"RUNNING", "STOPPED"}
    \/ from = "RUNNING"  /\ to \in {"STOPPING", "COMPLETED", "FAILED"}
    \/ from = "STOPPING" /\ to = "STOPPED"
    \/ from \in {"FAILED", "STOPPED"} /\ to = "CREATED"

Init == status = "none"

Create == status = "none" /\ status' = "CREATED"

Transition == \E to \in TaskStatus :
    ValidTransition(status, to) /\ status' = to

\* rollbackRetriedTask.
Rollback == status = "CREATED" /\ status' \in {"FAILED", "STOPPED"}

Remove == status # "none" /\ status' = "removed"

Next == Create \/ Transition \/ Rollback \/ Remove

Spec == Init /\ [][Next]_status

=============================================================================
