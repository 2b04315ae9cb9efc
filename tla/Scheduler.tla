----------------------------- MODULE Scheduler -----------------------------
(***************************************************************************)
(* tick_scheduler_once and the schedule_due_* functions: the embedded      *)
(* scheduler thread, the scheduler container and the scheduler/tick route  *)
(* each look at the heartbeat row, write themselves into it, enqueue a job *)
(* for every target that is due, and, if they execute jobs, run them.      *)
(*                                                                         *)
(* A target is one (job_type, target_id) pair: a source, a keyword, a      *)
(* topic, an issue or a podcast feed.  The database is the Postgres of     *)
(* docker-compose.yml: a reader sees what is committed, a writer of a row  *)
(* waits for the transaction that wrote it.  The heartbeat row exists.     *)
(***************************************************************************)
EXTENDS Integers

CONSTANTS Tickers,     \* sessions that tick, each with an owner id of its own
          Executing,   \* those that call run_due_jobs (execute_jobs = True)
          Targets,
          MaxFaults,   \* bound: process exits and exceptions in a tick
          MaxFailed,   \* bound: failed jobs of a target that wait for a retry
          None

ASSUME SchedulerAssumption ==
  /\ None \notin Tickers
  /\ Executing \subseteq Tickers
  /\ MaxFaults \in Nat /\ MaxFailed \in Nat

VARIABLES heartbeat,  \* the committed row: [owner, lock]
          writer,     \* the ticker whose open transaction wrote the row, or None
          pc,         \* where a ticker is
          saw,        \* saw[t]: the targets t read as due
          new,        \* new[t]: the targets t inserted a job for, not committed
          jobs,       \* jobs[x]: how many jobs of x are queued, running, failed
          due,        \* the targets whose interval has passed
          faults

vars == <<heartbeat, writer, pc, saw, new, jobs, due, faults>>

Locks  == {"free", "held", "expired"}   \* locked_until: null, future, past
Stages == {"idle", "entering", "locked", "reading", "scheduled", "aborted", "sweeping"}
Counts == [queued : Nat, running : Nat, failed : Nat]

Init ==
  /\ heartbeat = [owner |-> None, lock |-> "free"]
  /\ writer = None
  /\ pc = [t \in Tickers |-> "idle"]
  /\ saw = [t \in Tickers |-> {}]
  /\ new = [t \in Tickers |-> {}]
  /\ jobs = [x \in Targets |-> [queued |-> 0, running |-> 0, failed |-> 0]]
  /\ due = {}
  /\ faults = 0

Moves(t, stage) == pc' = [pc EXCEPT ![t] = stage]

-----------------------------------------------------------------------------
(* The tick. *)

(* Fault for LockedOut: a lock that has run out still keeps all out.    *)
LockedOutForever(t) == heartbeat.lock # "free"

LockedOut(t) == heartbeat.lock = "held" /\ heartbeat.owner # t

(* The row is read and looked at; a tick that is locked out returns. *)
Check(t) ==
  /\ pc[t] = "idle" /\ ~LockedOut(t)
  /\ Moves(t, "entering")
  /\ UNCHANGED <<heartbeat, writer, saw, new, jobs, due, faults>>

(* Fault for Enter: the row is not written before the targets are read. *)
EnterUnlocked(t) ==
  /\ pc[t] = "entering"
  /\ writer' = t
  /\ Moves(t, "locked")
  /\ UNCHANGED <<heartbeat, saw, new, jobs, due, faults>>

(* The flush of owner_id and locked_until: the UPDATE waits for the row. *)
Enter(t) ==
  /\ pc[t] = "entering" /\ writer = None
  /\ writer' = t
  /\ Moves(t, "locked")
  /\ UNCHANGED <<heartbeat, saw, new, jobs, due, faults>>

ReadDue(t) ==
  /\ pc[t] = "locked"
  /\ saw' = [saw EXCEPT ![t] = due]
  /\ Moves(t, "reading")
  /\ UNCHANGED <<heartbeat, writer, new, jobs, due, faults>>

(* No job of x in status queued or running. *)
Unscheduled(x) == jobs[x].queued = 0 /\ jobs[x].running = 0

(* enqueue_job for every target read as due without such a job; an         *)
(* exception on the way keeps the jobs inserted so far, and ends the tick. *)
Schedule(t) ==
  /\ pc[t] = "reading"
  /\ \/ /\ new' = [new EXCEPT ![t] = {x \in saw[t] : Unscheduled(x)}]
        /\ Moves(t, "scheduled") /\ UNCHANGED faults
     \/ /\ \E some \in SUBSET {x \in saw[t] : Unscheduled(x)} : new' = [new EXCEPT ![t] = some]
        /\ Moves(t, "aborted")
        /\ faults < MaxFaults /\ faults' = faults + 1
  /\ UNCHANGED <<heartbeat, writer, saw, jobs, due>>

Inserted(t) ==
  [x \in Targets |-> IF x \in new[t] THEN [jobs[x] EXCEPT !.queued = @ + 1] ELSE jobs[x]]

Leave(t) ==
  /\ saw' = [saw EXCEPT ![t] = {}]
  /\ new' = [new EXCEPT ![t] = {}]

(* A tick with nothing to execute ends in the transaction it began in: its *)
(* lock is set and cleared before anybody can see it.                      *)
CommitTick(t) ==
  /\ \/ pc[t] = "aborted"
     \/ /\ pc[t] = "scheduled"
        /\ t \in Executing => \A x \in Targets : Inserted(t)[x].queued = 0
  /\ jobs' = Inserted(t)
  /\ heartbeat' = [owner |-> t, lock |-> "free"]
  /\ writer' = None
  /\ Moves(t, "idle") /\ Leave(t)
  /\ UNCHANGED <<due, faults>>

Started(row, from) ==
  IF from = "queued"
  THEN [queued |-> row.queued - 1, running |-> row.running + 1, failed |-> row.failed]
  ELSE [queued |-> row.queued, running |-> row.running + 1, failed |-> row.failed - 1]

(* Fault for CanStart: the status of the row is not looked at. *)
CanStartAnything(row, from) == TRUE

CanStart(row, from) == IF from = "queued" THEN row.queued > 0 ELSE row.failed > 0

(* run_due_jobs: the commit of the first execute_job shows the lock, and   *)
(* lets go of the row.                                                     *)
StartSweep(t) ==
  /\ pc[t] = "scheduled" /\ t \in Executing
  /\ \E x \in Targets, from \in {"queued", "failed"} :
       /\ CanStart(Inserted(t)[x], from)
       /\ jobs' = [Inserted(t) EXCEPT ![x] = Started(@, from)]
  /\ heartbeat' = [owner |-> t, lock |-> "held"]
  /\ writer' = None
  /\ Moves(t, "sweeping") /\ Leave(t)
  /\ UNCHANGED <<due, faults>>

(* The end of the tick clears the lock, whoever owns it by then. *)
EndSweep(t) ==
  /\ pc[t] = "sweeping" /\ writer = None
  /\ heartbeat' = [heartbeat EXCEPT !.lock = "free"]
  /\ Moves(t, "idle")
  /\ UNCHANGED <<writer, saw, new, jobs, due, faults>>

(* The process of a ticker exits, and is started again later. *)
Exit(t) ==
  /\ pc[t] # "idle"
  /\ faults < MaxFaults /\ faults' = faults + 1
  /\ Moves(t, "idle") /\ Leave(t)
  /\ writer' = IF writer = t THEN None ELSE writer
  /\ UNCHANGED <<heartbeat, jobs, due>>

-----------------------------------------------------------------------------
(* The clock and the executors of the jobs. *)

LockExpires ==
  /\ heartbeat.lock = "held"
  /\ heartbeat' = [heartbeat EXCEPT !.lock = "expired"]
  /\ UNCHANGED <<writer, pc, saw, new, jobs, due, faults>>

BecomesDue(x) ==
  /\ x \notin due
  /\ due' = due \cup {x}
  /\ UNCHANGED <<heartbeat, writer, pc, saw, new, jobs, faults>>

StartJob(x) ==
  /\ \E from \in {"queued", "failed"} :
       CanStart(jobs[x], from) /\ jobs' = [jobs EXCEPT ![x] = Started(@, from)]
  /\ UNCHANGED <<heartbeat, writer, pc, saw, new, due, faults>>

(* A handler sets the time its target was last handled at, if it gets there. *)
EndJob(x) ==
  /\ jobs[x].running > 0
  /\ due' \in {due, due \ {x}}
  /\ \/ jobs' = [jobs EXCEPT ![x].running = @ - 1]
     \/ /\ jobs[x].failed < MaxFailed
        /\ jobs' = [jobs EXCEPT ![x].running = @ - 1, ![x].failed = @ + 1]
  /\ UNCHANGED <<heartbeat, writer, pc, saw, new, faults>>

-----------------------------------------------------------------------------
Tick(t) == Check(t) \/ Enter(t) \/ ReadDue(t) \/ Schedule(t) \/ CommitTick(t)
             \/ StartSweep(t) \/ EndSweep(t)

Next ==
  \/ \E t \in Tickers : Tick(t) \/ Exit(t)
  \/ \E x \in Targets : BecomesDue(x) \/ StartJob(x) \/ EndJob(x)
  \/ LockExpires

Spec == Init /\ [][Next]_vars

(* Tickers loop, the clock advances, and the row goes to each waiter in    *)
(* turn (Postgres queues them).                                            *)
Fairness ==
  /\ \A t \in Tickers : WF_vars(Tick(t)) /\ SF_vars(Enter(t)) /\ SF_vars(EndSweep(t))
  /\ WF_vars(LockExpires)

FairSpec == Spec /\ Fairness

-----------------------------------------------------------------------------
TypeOK ==
  /\ heartbeat \in [owner : Tickers \cup {None}, lock : Locks]
  /\ writer \in Tickers \cup {None}
  /\ pc \in [Tickers -> Stages]
  /\ saw \in [Tickers -> SUBSET Targets]
  /\ new \in [Tickers -> SUBSET Targets]
  /\ jobs \in [Targets -> Counts]
  /\ due \subseteq Targets
  /\ faults \in Nat

(* However many schedulers tick at once, a target never has two jobs       *)
(* waiting in the queue: the check for an existing job is read and acted   *)
(* on behind the write of the heartbeat row.                               *)
OneQueuedJob == \A x \in Targets : jobs[x].queued <= 1

(* Schedulers that exit while they hold the lock, or skip each other, do   *)
(* not stop the scheduling: a target that is due gets a job, or is served. *)
DueIsScheduled == \A x \in Targets : x \in due ~> (x \notin due \/ ~Unscheduled(x))
=============================================================================
