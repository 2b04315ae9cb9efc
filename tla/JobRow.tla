------------------------------- MODULE JobRow -------------------------------
(***************************************************************************)
(* One row of the job_attempts table (models.JobAttempt) and the writes    *)
(* that app/services/jobs.py makes to it.  Every writer of the table uses  *)
(* these operators; the modules that extend this one say who calls them,   *)
(* when, and with which locally remembered values.                         *)
(*                                                                         *)
(* Time is abstracted to what the code compares it with: `due` is          *)
(* next_run_at being NULL or not in the future, `stale` is updated_at      *)
(* being at least job_stale_after_minutes old.  Every status a handler may *)
(* return other than "failed" ("completed", "skipped", "needs_review",     *)
(* "not_found", "retry_pending", ...) is stored as it is and never picked  *)
(* up again: the model calls all of them "done".                           *)
(***************************************************************************)
EXTENDS Integers

CONSTANT MaxAttempts            \* job.max_attempts, 3 by default

ASSUME MaxAttemptsAssumption == MaxAttempts \in Nat \ {0}

Terminal == {"done", "dead_letter"}
Waiting  == {"queued", "failed"}
Status   == {"absent", "running"} \cup Waiting \cup Terminal
Outcome  == {"ok", "failed", "unregistered"}

Row == [status : Status, attempts : Nat, due : BOOLEAN, stale : BOOLEAN]

(* Before it is inserted; the other fields are the column defaults. *)
Absent == [status |-> "absent", attempts |-> 0, due |-> TRUE, stale |-> FALSE]

(* Faults for Claimable: failed rows forgotten; new rows left to somebody *)
(* else; given-up rows taken up again.                                    *)
ClaimableQueuedOnly(row) == row.status = "queued" /\ row.due
ClaimableFailedOnly(row) == row.status = "failed" /\ row.due
ClaimableDeadToo(row) == row.status \in Waiting \cup {"dead_letter"} /\ row.due

(* The WHERE clause shared by claim_due_jobs and run_due_jobs. *)
Claimable(row) == row.status \in Waiting /\ row.due

(* Fault for Abandoned: the age of the row is not looked at. *)
AbandonedAtOnce(row) == row.status = "running"

(* The rows recover_stale_jobs reads. *)
Abandoned(row) == row.status = "running" /\ row.stale

(* The UPDATE of claim_due_jobs, where n is the attempts column itself, and *)
(* the assignments of execute_job, where n is the value its session loaded. *)
Begun(row, n) ==
  [row EXCEPT !.status = "running", !.attempts = n + 1, !.stale = FALSE]

(* Faults for Recovered: one attempt too many, and one too few. *)
RecoveredOnceMore(row, n) ==
  [row EXCEPT !.status = IF n <= MaxAttempts THEN "failed" ELSE "dead_letter",
              !.due = TRUE, !.stale = FALSE]
RecoveredOnceLess(row, n) ==
  [row EXCEPT !.status = IF n + 1 < MaxAttempts THEN "failed" ELSE "dead_letter",
              !.due = TRUE, !.stale = FALSE]

(* recover_stale_jobs on a row whose attempts column was n when it was read. *)
Recovered(row, n) ==
  [row EXCEPT !.status = IF n < MaxAttempts THEN "failed" ELSE "dead_letter",
              !.due    = TRUE,
              !.stale  = FALSE]

(* Fault for FinalStatus: the outcome of the handler is stored unmapped. *)
FinalStatusUnmapped(n, outcome) == outcome

(* The end of _execute_running_job: the status depends on the outcome of   *)
(* the handler and on n, the attempts value loaded before the handler ran. *)
FinalStatus(n, outcome) ==
  CASE outcome = "ok"           -> "done"
    [] outcome = "unregistered" -> "dead_letter"
    [] outcome = "failed"       -> IF n >= MaxAttempts THEN "dead_letter" ELSE "failed"

(* Backoff of min(5 n, 30) minutes: a failed row is not due when written. *)
Finished(row, n, outcome) ==
  [row EXCEPT !.status = FinalStatus(n, outcome),
              !.due    = FinalStatus(n, outcome) # "failed",
              !.stale  = FALSE]
=============================================================================
