------------------------------ MODULE JobStore ------------------------------
(***************************************************************************)
(* The jobs table of internal/db/jobs.go, the only state of the service    *)
(* that outlives its process.  Every method is one SQL statement, atomic   *)
(* in SQLite.  A write that fails changes nothing: its callers add that.   *)
(*                                                                         *)
(* A row is reduced to its status, its error column and whether the        *)
(* compose_path and service columns are filled.                            *)
(***************************************************************************)
CONSTANT Jobs

VARIABLES status,     \* each row's status, "none" when there is no row
          errorCol,   \* where its error came from: "none", "deploy", "interrupted"
          discovered  \* whether compose_path and service are set

Terminal == {"success", "failed"}

Statuses == {"none", "queued", "running"} \cup Terminal

StoreInit ==
  /\ status = [j \in Jobs |-> "none"]
  /\ errorCol = [j \in Jobs |-> "none"]
  /\ discovered = [j \in Jobs |-> FALSE]

Insert(j) ==
  /\ status' = [status EXCEPT ![j] = "queued"]
  /\ UNCHANGED <<errorCol, discovered>>

\* Both columns are overwritten: a nil errMsg clears the error.
UpdateStatus(j, new, errMsg) ==
  /\ status' = [status EXCEPT ![j] = new]
  /\ errorCol' = [errorCol EXCEPT ![j] = errMsg]
  /\ UNCHANGED discovered

UpdateDiscovery(j) ==
  /\ discovered' = [discovered EXCEPT ![j] = TRUE]
  /\ UNCHANGED <<status, errorCol>>

\* Mistake: another status in the WHERE clause.
MarkQueuedJobsFailed ==
  /\ status' = [j \in Jobs |-> IF status[j] = "queued" THEN "failed" ELSE status[j]]
  /\ errorCol' = [j \in Jobs |-> IF status[j] = "queued" THEN "interrupted"
                                 ELSE errorCol[j]]
  /\ UNCHANGED discovered

\* Mistake: no WHERE clause.
MarkAllJobsFailed ==
  /\ status' = [j \in Jobs |-> IF status[j] = "none" THEN "none" ELSE "failed"]
  /\ errorCol' = [j \in Jobs |-> IF status[j] = "none" THEN "none" ELSE "interrupted"]
  /\ UNCHANGED discovered

\* WHERE status = 'running'
MarkInterruptedJobsFailed ==
  /\ status' = [j \in Jobs |-> IF status[j] = "running" THEN "failed" ELSE status[j]]
  /\ errorCol' = [j \in Jobs |-> IF status[j] = "running" THEN "interrupted"
                                 ELSE errorCol[j]]
  /\ UNCHANGED discovered

=============================================================================
