------------------------------ MODULE JobQueue ------------------------------
(***************************************************************************)
(* The database-backed job queue of the backend in its default ("inline")  *)
(* mode: app/services/jobs.py, the EmbeddedWorker threads of               *)
(* app/services/scheduler/runtime.py, and the two other ways a job is      *)
(* started, run_due_jobs (scripts/run_worker.py, scripts/run_scheduler.py, *)
(* the scheduler/tick and collect routes) and the admin retry route.       *)
(*                                                                         *)
(* An actor is one thread of control with a database session of its own.   *)
(* An action is one transaction, or one statement where another session's  *)
(* commit may come between two statements: a SELECT takes no lock, so what *)
(* recover_stale_jobs and claim_due_jobs read may be out of date when they *)
(* write.                                                                  *)
(***************************************************************************)
EXTENDS JobRow, FiniteSets, FiniteSetsExt

CONSTANTS Jobs,          \* ids of the rows
          Rank,          \* Rank[j]: place of j in the claim order
          Unregistered,  \* jobs whose job_type has no handler
          Threads,       \* EmbeddedWorker threads of the API process
          Sweepers,      \* sessions that call run_due_jobs
          Callers,       \* sessions that execute one row: retry requests, RQ workers
          BatchLimit,    \* batch_size // concurrency, at least 1
          SweepLimit,    \* the limit of run_due_jobs, 20 or 50
          SlowHandlers,  \* may a claim outlive job_stale_after_minutes?
          MaxExits,      \* bound: exits of the API process, and of sweepers
          AttemptCap,    \* bound: tries at which sweeps and retries stop
          None

Actors == Threads \cup Sweepers \cup Callers

ASSUME JobQueueAssumption ==
  /\ None \notin Jobs
  /\ Unregistered \subseteq Jobs
  /\ Rank \in [Jobs -> Nat] /\ \A j, k \in Jobs : Rank[j] = Rank[k] => j = k
  /\ BatchLimit \in Nat \ {0} /\ SweepLimit \in Nat \ {0}
  /\ SlowHandlers \in BOOLEAN
  /\ MaxExits \in Nat
  /\ AttemptCap \in Nat
  /\ Threads \cap Sweepers = {} /\ Threads \cap Callers = {} /\ Sweepers \cap Callers = {}
  /\ IsFiniteSet(Threads)

VARIABLES job,     \* job[j]: the row of j
          phase,   \* phase[a]: where actor a is in its loop
          seen,    \* seen[a][j]: attempts of j when a read it as stale, 0 if it did not
          held,    \* held[a]: candidate ids, then the claimed (or selected) batch
          exec,    \* exec[a]: the job whose handler a is running, or None
          loaded,  \* loaded[a]: job.attempts as loaded into a's session
          tries,   \* tries[j]: how often j was put in status "running" (history)
          exits    \* process exits so far

vars == <<job, phase, seen, held, exec, loaded, tries, exits>>

NoneSeen == [j \in Jobs |-> 0]

Phases == {"idle", "polled", "selected", "batch", "ready", "executing", "down"}

Init ==
  /\ job = [j \in Jobs |-> Absent]
  /\ phase = [a \in Actors |-> "idle"]
  /\ seen = [a \in Actors |-> NoneSeen]
  /\ held = [a \in Actors |-> {}]
  /\ exec = [a \in Actors |-> None]
  /\ loaded = [a \in Actors |-> 0]
  /\ tries = [j \in Jobs |-> 0]
  /\ exits = 0

-----------------------------------------------------------------------------
(* State functions. *)

(* Some live actor has j claimed, selected by an executor, or executing. *)
Attends(a, j) == exec[a] = j \/ (phase[a] \in {"batch", "executing"} /\ j \in held[a])
Attended(j) == \E a \in Actors : Attends(a, j)

Executors(j) == {a \in Actors : exec[a] = j}

(* The rows as actor a's transaction sees them once it has recovered the   *)
(* rows it read as stale.  The UPDATE of each names only the primary key.  *)
AfterRecovery(a) ==
  [j \in Jobs |-> IF seen[a][j] > 0 THEN Recovered(job[j], seen[a][j]) ELSE job[j]]

DueRows(table) == {j \in Jobs : Claimable(table[j])}

(* ORDER BY priority, created_at LIMIT n *)
FirstOf(S, n) == {j \in S : Cardinality({k \in S : Rank[k] < Rank[j]}) < n}

IsFirst(j, S) == j \in S /\ \A k \in S : Rank[j] <= Rank[k]

-----------------------------------------------------------------------------
(* The outside world: producers, and the clock. *)

(* enqueue_job with run_immediately unset; the row is committed by its caller. *)
Enqueue(j) ==
  /\ job[j].status = "absent"
  /\ job' = [job EXCEPT ![j].status = "queued"]
  /\ UNCHANGED <<phase, seen, held, exec, loaded, tries, exits>>

(* The backoff of a failed row elapses. *)
BackoffElapses(j) ==
  /\ job[j].status = "failed" /\ ~job[j].due
  /\ job' = [job EXCEPT ![j].due = TRUE]
  /\ UNCHANGED <<phase, seen, held, exec, loaded, tries, exits>>

(* updated_at of a running row becomes job_stale_after_minutes old.  Nothing *)
(* refreshes it between the claim and the end of the handler.               *)
GoesStale(j) ==
  /\ job[j].status = "running" /\ ~job[j].stale
  /\ SlowHandlers \/ ~Attended(j)
  /\ job' = [job EXCEPT ![j].stale = TRUE]
  /\ UNCHANGED <<phase, seen, held, exec, loaded, tries, exits>>

-----------------------------------------------------------------------------
(* EmbeddedWorker._loop and claim_due_jobs. *)

(* The SELECT of recover_stale_jobs. *)
Poll(a) ==
  /\ phase[a] = "idle"
  /\ phase' = [phase EXCEPT ![a] = "polled"]
  /\ seen' = [seen EXCEPT ![a] =
                [j \in Jobs |-> IF Abandoned(job[j]) THEN job[j].attempts ELSE 0]]
  /\ UNCHANGED <<job, held, exec, loaded, tries, exits>>

(* The recovery UPDATEs (not committed yet) and the SELECT of the candidates. *)
SelectCandidates(t) ==
  /\ phase[t] = "polled"
  /\ phase' = [phase EXCEPT ![t] = "selected"]
  /\ held' = [held EXCEPT ![t] = FirstOf(DueRows(AfterRecovery(t)), BatchLimit)]
  /\ UNCHANGED <<job, seen, exec, loaded, tries, exits>>

(* Fault for Claim: the UPDATE does not repeat the WHERE clause of the SELECT. *)
ClaimUnguarded(t) ==
  LET table == AfterRecovery(t)
  IN /\ phase[t] = "selected"
     /\ job' = [j \in Jobs |-> IF j \in held[t] THEN Begun(table[j], table[j].attempts)
                                              ELSE table[j]]
     /\ tries' = [j \in Jobs |-> IF j \in held[t] THEN tries[j] + 1 ELSE tries[j]]
     /\ seen' = [seen EXCEPT ![t] = NoneSeen]
     /\ phase' = [phase EXCEPT ![t] = IF held[t] = {} THEN "idle" ELSE "batch"]
     /\ UNCHANGED <<held, exec, loaded, exits>>

(* The guarded UPDATE of each candidate, and the commit. *)
Claim(t) ==
  LET table == AfterRecovery(t)
      won   == {j \in held[t] : Claimable(table[j])}
  IN /\ phase[t] = "selected"
     /\ job' = [j \in Jobs |-> IF j \in won THEN Begun(table[j], table[j].attempts)
                                           ELSE table[j]]
     /\ tries' = [j \in Jobs |-> IF j \in won THEN tries[j] + 1 ELSE tries[j]]
     /\ held' = [held EXCEPT ![t] = won]
     /\ seen' = [seen EXCEPT ![t] = NoneSeen]
     /\ phase' = [phase EXCEPT ![t] = IF won = {} THEN "idle" ELSE "batch"]
     /\ UNCHANGED <<exec, loaded, exits>>

(* Actor a leaves its handler, or skips a job, with `rest` of its batch left. *)
GoOn(a, rest) ==
  /\ held' = [held EXCEPT ![a] = rest]
  /\ exec' = [exec EXCEPT ![a] = None]
  /\ loaded' = [loaded EXCEPT ![a] = 0]
  /\ phase' = [phase EXCEPT ![a] = IF rest = {} THEN "idle" ELSE "batch"]

(* Actor a starts the handler of j with the given attempts value in its session. *)
StartHandler(a, j, n) ==
  /\ held' = [held EXCEPT ![a] = @ \ {j}]
  /\ exec' = [exec EXCEPT ![a] = j]
  /\ loaded' = [loaded EXCEPT ![a] = n]
  /\ phase' = [phase EXCEPT ![a] = "executing"]

(* execute_claimed_job_by_id: runs whatever it finds in status "running". *)
StartClaimed(t) ==
  /\ phase[t] = "batch"
  /\ \E j \in held[t] :
       /\ IsFirst(j, held[t])
       /\ IF job[j].status = "running"
          THEN StartHandler(t, j, job[j].attempts)
          ELSE GoOn(t, held[t] \ {j})
  /\ UNCHANGED <<job, seen, tries, exits>>

(* The end of _execute_running_job, with the value of attempts loaded before. *)
Finish(a) ==
  /\ phase[a] = "executing"
  /\ \E outcome \in (IF exec[a] \in Unregistered THEN {"unregistered"} ELSE {"ok", "failed"}) :
       job' = [job EXCEPT ![exec[a]] = Finished(@, loaded[a], outcome)]
  /\ GoOn(a, held[a])
  /\ UNCHANGED <<seen, tries, exits>>

-----------------------------------------------------------------------------
(* run_due_jobs and retry_job: a row is read into the session and then     *)
(* started by execute_job, which looks at neither its status nor its time, *)
(* and writes the attempts it read plus one.                               *)

(* Actor a reads the first row of its batch, with `table` what it sees. *)
ReadFirst(a, batch, table) ==
  /\ held' = [held EXCEPT ![a] = batch]
  /\ \/ /\ batch = {}
        /\ phase' = [phase EXCEPT ![a] = "idle"]
        /\ UNCHANGED loaded
     \/ \E j \in batch :
          /\ IsFirst(j, batch)
          /\ phase' = [phase EXCEPT ![a] = "ready"]
          /\ loaded' = [loaded EXCEPT ![a] = table[j].attempts]

SelectDue(s) ==
  /\ phase[s] = "polled"
  /\ job' = AfterRecovery(s)
  /\ ReadFirst(s, FirstOf(DueRows(AfterRecovery(s)), SweepLimit), AfterRecovery(s))
  /\ seen' = [seen EXCEPT ![s] = NoneSeen]
  /\ UNCHANGED <<exec, tries, exits>>

(* The commits of a job expire the session: the next row is read again. *)
ReadNext(s) ==
  /\ phase[s] = "batch"
  /\ ReadFirst(s, held[s], job)
  /\ UNCHANGED <<job, seen, exec, tries, exits>>

(* db.get in retry_job and execute_job_by_id: any row, whatever its status. *)
LoadRow(c, j) ==
  /\ phase[c] = "idle"
  /\ job[j].status # "absent"
  /\ ReadFirst(c, {j}, job)
  /\ UNCHANGED <<job, seen, exec, tries, exits>>

ExecuteJob(a) ==
  /\ phase[a] = "ready"
  /\ \E j \in held[a] :
       /\ IsFirst(j, held[a])
       /\ tries[j] < AttemptCap
       /\ job' = [job EXCEPT ![j] = Begun(@, loaded[a])]
       /\ tries' = [tries EXCEPT ![j] = @ + 1]
       /\ StartHandler(a, j, loaded[a] + 1)
  /\ UNCHANGED <<seen, exits>>

-----------------------------------------------------------------------------
(* Process exits. *)

Forget(A, to) ==
  /\ phase' = [a \in Actors |-> IF a \in A THEN to ELSE phase[a]]
  /\ seen' = [a \in Actors |-> IF a \in A THEN NoneSeen ELSE seen[a]]
  /\ held' = [a \in Actors |-> IF a \in A THEN {} ELSE held[a]]
  /\ exec' = [a \in Actors |-> IF a \in A THEN None ELSE exec[a]]
  /\ loaded' = [a \in Actors |-> IF a \in A THEN 0 ELSE loaded[a]]

Up == \A a \in Threads \cup Callers : phase[a] # "down"

(* The API process crashes or is stopped: its daemon threads die with it,  *)
(* and the rest of a claimed batch is given up (the check of _stop).       *)
ApiExit ==
  /\ Up
  /\ exits < MaxExits
  /\ exits' = exits + 1
  /\ Forget(Threads \cup Callers, "down")
  /\ UNCHANGED <<job, tries>>

(* EmbeddedWorker.start: recovers every running row, however recent. *)
ApiStart ==
  /\ ~Up
  /\ job' = [j \in Jobs |-> IF job[j].status = "running"
                            THEN Recovered(job[j], job[j].attempts) ELSE job[j]]
  /\ phase' = [a \in Actors |-> IF phase[a] = "down" THEN "idle" ELSE phase[a]]
  /\ UNCHANGED <<seen, held, exec, loaded, tries, exits>>

(* A process that calls run_due_jobs dies; it is run again later. *)
SweeperExit(s) ==
  /\ phase[s] # "idle"
  /\ exits < MaxExits
  /\ exits' = exits + 1
  /\ Forget({s}, "idle")
  /\ UNCHANGED <<job, tries>>

-----------------------------------------------------------------------------
ThreadStep(t) == Poll(t) \/ SelectCandidates(t) \/ Claim(t) \/ StartClaimed(t) \/ Finish(t)
SweeperStep(s) == Poll(s) \/ SelectDue(s) \/ ReadNext(s) \/ ExecuteJob(s) \/ Finish(s)
CallerStep(c) == (\E j \in Jobs : LoadRow(c, j)) \/ ExecuteJob(c) \/ Finish(c)

Next ==
  \/ \E j \in Jobs : Enqueue(j) \/ BackoffElapses(j) \/ GoesStale(j)
  \/ \E t \in Threads : ThreadStep(t)
  \/ \E s \in Sweepers : SweeperStep(s) \/ SweeperExit(s)
  \/ \E c \in Callers : CallerStep(c)
  \/ ApiExit
  \/ ApiStart

Spec == Init /\ [][Next]_vars

(* Threads loop for ever, handlers return, the clock advances and the API   *)
(* process is started again.  Nothing obliges a producer, an administrator, *)
(* or a sweeper to begin anything.                                          *)
Fairness ==
  /\ \A t \in Threads : WF_vars(ThreadStep(t))
  /\ \A a \in Sweepers \cup Callers : WF_vars(ExecuteJob(a)) /\ WF_vars(Finish(a))
  /\ \A s \in Sweepers : WF_vars(SelectDue(s)) /\ WF_vars(ReadNext(s))
  /\ \A j \in Jobs : WF_vars(BackoffElapses(j)) /\ WF_vars(GoesStale(j))
  /\ WF_vars(ApiStart)

FairSpec == Spec /\ Fairness

-----------------------------------------------------------------------------
(* Properties. *)

TypeOK ==
  /\ job \in [Jobs -> Row]
  /\ phase \in [Actors -> Phases]
  /\ seen \in [Actors -> [Jobs -> Nat]]
  /\ held \in [Actors -> SUBSET Jobs]
  /\ exec \in [Actors -> Jobs \cup {None}]
  /\ loaded \in [Actors -> Nat]
  /\ tries \in [Jobs -> Nat]
  /\ exits \in Nat

(* No two actors run the handler of one job at the same time: what the     *)
(* guarded UPDATE of claim_due_jobs and the status test of                 *)
(* execute_claimed_job_by_id are for.                                      *)
AtMostOneExecutor ==
  \A a, b \in Actors : exec[a] # None /\ exec[a] = exec[b] => a = b

(* While a handler runs, its row says so: recover_stale_jobs takes a row   *)
(* away only from an executor that is gone.                                *)
ExecutingIsRunning ==
  \A a \in Actors : exec[a] # None => job[exec[a]].status = "running"

(* A job is started at most max_attempts times, crashes included. *)
AttemptsBounded == \A j \in Jobs : tries[j] <= MaxAttempts

(* Whatever overlaps, a job is given up only when it was tried max_attempts *)
(* times (or nothing can run it), never because an executor or a recovery  *)
(* that remembers an older attempt, or an overwritten count, wrote last.   *)
BudgetSpent ==
  \A j \in Jobs : job[j].status = "dead_letter" =>
    j \in Unregistered \/ tries[j] >= MaxAttempts

(* When handlers outlive the recovery threshold, a thread that is out of   *)
(* date (an executor taken over, a recovery that read an older count) may  *)
(* put a job given up back to "failed", but each of the other threads only *)
(* once: with one thread the budget holds even then.                       *)
OverrunBounded == \A j \in Jobs : tries[j] <= MaxAttempts + Cardinality(Threads) - 1

(* The life of a row as its producer sees it. *)
LifeOf(row) ==
  [state |-> CASE row.status \in Waiting       -> "waiting"
               [] row.status = "dead_letter"   -> "dead"
               [] OTHER                        -> row.status,
   tries |-> row.attempts]

Lifecycle == INSTANCE JobLifecycle WITH life <- [j \in Jobs |-> LifeOf(job[j])]

(* The embedded worker implements the abstract queue: bounded tries, one   *)
(* at a time, final ends. *)
ImplementsLifecycle == Lifecycle!Spec

(* Every job committed to the queue is finished or given up in the end,    *)
(* over process exits, lost claims and failures.                           *)
EveryJobEnds ==
  \A j \in Jobs : job[j].status = "queued" ~> job[j].status \in Terminal
=============================================================================
