----------------------------- MODULE RqDispatch -----------------------------
(***************************************************************************)
(* The job queue with worker_backend = "rq", as docker-compose.yml deploys *)
(* it: enqueue_job pushes the id of the new row to the Redis queue before  *)
(* its caller commits the row, an RQ worker (scripts/run_rq_worker.py)     *)
(* takes ids and runs execute_job_by_id, and the scheduler container       *)
(* (scripts/run_scheduler.py) keeps running run_due_jobs over the table.   *)
(*                                                                         *)
(* The rows, the sweeps and the execution of one row are JobQueue's; the   *)
(* embedded worker threads claim nothing in this mode: RqNext has no step  *)
(* of Threads, and the RQ workers are JobQueue's Callers.                  *)
(***************************************************************************)
EXTENDS JobQueue

VARIABLES open,     \* jobs flushed by a producer whose transaction is not over
          inbox     \* ids in the Redis queue

rqVars == <<vars, open, inbox>>

RqInit == Init /\ open = {} /\ inbox = {}

-----------------------------------------------------------------------------
(* The producer: a tick, a handler or a request. *)

(* enqueue_job flushes the row and pushes its id; the push may fail. *)
Flush(j) ==
  /\ job[j].status = "absent" /\ j \notin open
  /\ open' = open \cup {j}
  /\ inbox' \in {inbox, inbox \cup {j}}
  /\ UNCHANGED vars

Commit(j) ==
  /\ j \in open
  /\ open' = open \ {j}
  /\ Enqueue(j)
  /\ UNCHANGED inbox

(* A producer that fails after the flush leaves the id in the queue. *)
RollBack(j) ==
  /\ j \in open
  /\ exits < MaxExits
  /\ exits' = exits + 1
  /\ open' = open \ {j}
  /\ UNCHANGED <<job, phase, seen, held, exec, loaded, tries, inbox>>

-----------------------------------------------------------------------------
(* Fault for Take: the worker runs the id it was given, row or no row. *)
TakeUnseen(w) ==
  \E j \in inbox :
    /\ inbox' = inbox \ {j}
    /\ phase[w] = "idle"
    /\ ReadFirst(w, {j}, job)
    /\ UNCHANGED <<job, seen, exec, tries, exits, open>>

(* An RQ worker takes an id and runs execute_job_by_id: db.get does not    *)
(* see a row that is not committed, and the id is gone in either case.     *)
Take(w) ==
  \E j \in inbox :
    /\ inbox' = inbox \ {j}
    /\ UNCHANGED open
    /\ \/ LoadRow(w, j)
       \/ job[j].status = "absent" /\ phase[w] = "idle" /\ UNCHANGED vars

WorkerExit(w) ==
  /\ phase[w] # "idle"
  /\ exits < MaxExits
  /\ exits' = exits + 1
  /\ Forget({w}, "idle")
  /\ UNCHANGED <<job, tries>>

RqNext ==
  \/ \E j \in Jobs : Flush(j) \/ Commit(j) \/ RollBack(j)
  \/ \E w \in Callers : Take(w)
  \/ /\ UNCHANGED <<open, inbox>>
     /\ \/ \E j \in Jobs : BackoffElapses(j) \/ GoesStale(j)
        \/ \E s \in Sweepers : SweeperStep(s) \/ SweeperExit(s)
        \/ \E w \in Callers : ExecuteJob(w) \/ Finish(w) \/ WorkerExit(w)

RqSpec == RqInit /\ [][RqNext]_rqVars

(* The scheduler container ticks for ever and handlers return.  Nothing is *)
(* assumed of the RQ workers: a job must not depend on its message.        *)
RqFairness ==
  /\ \A s \in Sweepers : WF_rqVars(SweeperStep(s) /\ UNCHANGED <<open, inbox>>)
  /\ \A w \in Callers : WF_rqVars((ExecuteJob(w) \/ Finish(w)) /\ UNCHANGED <<open, inbox>>)
  /\ \A j \in Jobs : WF_rqVars((BackoffElapses(j) \/ GoesStale(j)) /\ UNCHANGED <<open, inbox>>)

RqFairSpec == RqSpec /\ RqFairness

-----------------------------------------------------------------------------
(* A sweep or a worker touches only jobs that are committed: a producer    *)
(* that rolls back leaves nothing to run, only an id that is not found.    *)
RolledBackNeverRuns ==
  \A a \in Actors : \A j \in held[a] \cup {exec[a]} :
    j # None => job[j].status # "absent" /\ j \notin open

(* A job that is committed ends, though its message is pushed before the   *)
(* commit and may be taken too early, refused by Redis, or lost with the   *)
(* worker that took it: the sweeps of the scheduler container find the row.*)
CommittedJobEnds == EveryJobEnds
=============================================================================
