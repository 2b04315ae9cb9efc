-------------------------- MODULE SchedulerProofs --------------------------
(***************************************************************************)
(* The scheduler never queues two jobs for one target, for any number of   *)
(* tickers, targets, exits and exceptions.                                 *)
(***************************************************************************)
EXTENDS Scheduler, TLAPS

LEMMA InsertedType ==
  ASSUME TypeOK, NEW t \in Tickers
  PROVE  /\ Inserted(t) \in [Targets -> Counts]
         /\ \A x \in Targets :
              Inserted(t)[x].queued = IF x \in new[t] THEN jobs[x].queued + 1 ELSE jobs[x].queued
<1>1. ASSUME NEW x \in Targets
      PROVE  /\ jobs[x] \in Counts
             /\ [jobs[x] EXCEPT !.queued = @ + 1] \in Counts
             /\ [jobs[x] EXCEPT !.queued = @ + 1].queued = jobs[x].queued + 1
  BY DEF TypeOK, Counts
<1> QED
  BY <1>1 DEF Inserted

LEMMA StartedType ==
  ASSUME NEW row \in Counts, NEW from \in {"queued", "failed"}, CanStart(row, from)
  PROVE  /\ Started(row, from) \in Counts
         /\ Started(row, from).queued <= row.queued
<1>1. row.queued \in Nat /\ row.running \in Nat /\ row.failed \in Nat
  BY DEF Counts
<1>2. CASE from = "queued"
  <2>1. row.queued - 1 \in Nat /\ row.running + 1 \in Nat
    BY <1>1, <1>2 DEF CanStart
  <2> QED BY <1>1, <1>2, <2>1 DEF Started, Counts
<1>3. CASE from = "failed"
  <2>1. row.failed - 1 \in Nat /\ row.running + 1 \in Nat
    BY <1>1, <1>3 DEF CanStart
  <2> QED BY <1>1, <1>3, <2>1 DEF Started, Counts
<1> QED
  BY <1>2, <1>3

LEMMA SchedulerTypeNext == TypeOK /\ [Next]_vars => TypeOK'
<1> SUFFICES ASSUME TypeOK, [Next]_vars PROVE TypeOK'
  OBVIOUS
<1> USE SchedulerAssumption DEF TypeOK, Moves, Stages, Locks
<1>1. ASSUME NEW t \in Tickers, Check(t) \/ Enter(t) \/ ReadDue(t) \/ EndSweep(t) \/ Exit(t)
      PROVE  TypeOK'
  BY <1>1 DEF Check, Enter, ReadDue, EndSweep, Exit, Leave
<1>2. ASSUME NEW t \in Tickers, Schedule(t) PROVE TypeOK'
  BY <1>2 DEF Schedule
<1>3. ASSUME NEW t \in Tickers, CommitTick(t) PROVE TypeOK'
  <2>1. jobs' \in [Targets -> Counts]
    BY <1>3, InsertedType DEF CommitTick
  <2> QED BY <1>3, <2>1 DEF CommitTick, Leave
<1>4. ASSUME NEW t \in Tickers, StartSweep(t) PROVE TypeOK'
  <2>1. PICK x \in Targets, from \in {"queued", "failed"} :
          /\ CanStart(Inserted(t)[x], from)
          /\ jobs' = [Inserted(t) EXCEPT ![x] = Started(@, from)]
    BY <1>4 DEF StartSweep
  <2>2. jobs' \in [Targets -> Counts]
    BY <2>1, InsertedType, StartedType
  <2> QED BY <1>4, <2>2 DEF StartSweep, Leave
<1>5. ASSUME NEW x \in Targets, StartJob(x) PROVE TypeOK'
  <2>1. PICK from \in {"queued", "failed"} :
          CanStart(jobs[x], from) /\ jobs' = [jobs EXCEPT ![x] = Started(@, from)]
    BY <1>5 DEF StartJob
  <2>2. jobs' \in [Targets -> Counts]
    BY <2>1, StartedType
  <2> QED BY <1>5, <2>2 DEF StartJob
<1>6. ASSUME NEW x \in Targets, EndJob(x) PROVE TypeOK'
  <2>1. jobs[x].running - 1 \in Nat /\ jobs[x].failed + 1 \in Nat
    BY <1>6 DEF EndJob, Counts
  <2>2. jobs' \in [Targets -> Counts]
    BY <1>6, <2>1, SMTT(20) DEF EndJob, Counts
  <2> QED BY <1>6, <2>2 DEF EndJob
<1>7. ASSUME (\E x \in Targets : BecomesDue(x)) \/ LockExpires PROVE TypeOK'
  BY <1>7 DEF BecomesDue, LockExpires
<1>8. CASE UNCHANGED vars
  BY <1>8 DEF vars
<1> QED
  BY <1>1, <1>2, <1>3, <1>4, <1>5, <1>6, <1>7, <1>8 DEF Next, Tick

-----------------------------------------------------------------------------
(* The ticker between its write of the heartbeat row and its next commit   *)
(* is the writer; what it is about to insert has no queued job yet.        *)
Prepared == {"scheduled", "aborted"}
OneWriter == \A t \in Tickers : pc[t] \in {"locked", "reading"} \cup Prepared <=> writer = t
NewIsUnqueued ==
  \A t \in Tickers : /\ pc[t] \notin Prepared => new[t] = {}
                     /\ \A x \in new[t] : jobs[x].queued = 0

SchedulerInv == TypeOK /\ OneWriter /\ NewIsUnqueued /\ OneQueuedJob

(* A step that inserts nothing queues nothing. *)
LEMMA NoInsertion ==
  ASSUME SchedulerInv, TypeOK', new' = new, pc' = pc,
         \A x \in Targets : jobs'[x].queued <= jobs[x].queued
  PROVE  NewIsUnqueued' /\ OneQueuedJob'
<1>1. \A x \in Targets : jobs[x].queued \in Nat /\ jobs'[x].queued \in Nat
  BY DEF SchedulerInv, TypeOK, Counts
<1> QED
  BY <1>1 DEF SchedulerInv, TypeOK, NewIsUnqueued, OneQueuedJob

(* The commit of a ticker inserts what it prepared, and it alone may. *)
LEMMA Insertion ==
  ASSUME SchedulerInv, TypeOK', NEW t \in Tickers, writer = t,
         Leave(t), pc'[t] \notin Prepared,
         \A u \in Tickers \ {t} : pc'[u] = pc[u],
         \A x \in Targets : jobs'[x].queued <= Inserted(t)[x].queued
  PROVE  NewIsUnqueued' /\ OneQueuedJob'
<1>1. \A u \in Tickers \ {t} : new[u] = {} /\ new'[u] = {}
  BY DEF SchedulerInv, OneWriter, NewIsUnqueued, Prepared, Leave, TypeOK
<1>2. new'[t] = {}
  BY DEF SchedulerInv, Leave, TypeOK
<1>3. ASSUME NEW x \in Targets PROVE jobs'[x].queued <= 1
  <2>1. jobs[x].queued \in Nat /\ jobs'[x].queued \in Nat
    BY DEF SchedulerInv, TypeOK, Counts
  <2>2. Inserted(t)[x].queued = IF x \in new[t] THEN jobs[x].queued + 1 ELSE jobs[x].queued
    BY InsertedType DEF SchedulerInv
  <2> QED BY <2>1, <2>2 DEF SchedulerInv, NewIsUnqueued, OneQueuedJob
<1> QED
  BY <1>1, <1>2, <1>3 DEF NewIsUnqueued, OneQueuedJob

LEMMA SchedulerInvNext == SchedulerInv /\ [Next]_vars => SchedulerInv'
<1> SUFFICES ASSUME SchedulerInv, [Next]_vars PROVE SchedulerInv'
  OBVIOUS
<1>0. TypeOK /\ TypeOK'
  BY SchedulerTypeNext DEF SchedulerInv
<1> USE <1>0 DEF SchedulerInv, Moves
<1>1. OneWriter'
  <2> USE SchedulerAssumption DEF OneWriter, Prepared, TypeOK
  <2>1. ASSUME NEW t \in Tickers, Check(t) \/ Enter(t) \/ ReadDue(t) \/ Schedule(t) PROVE OneWriter'
    BY <2>1 DEF Check, Enter, ReadDue, Schedule
  <2>2. ASSUME NEW t \in Tickers, CommitTick(t) \/ StartSweep(t) PROVE OneWriter'
    BY <2>2 DEF CommitTick, StartSweep
  <2>3. ASSUME NEW t \in Tickers, EndSweep(t) \/ Exit(t) PROVE OneWriter'
    BY <2>3 DEF EndSweep, Exit
  <2>4. ASSUME UNCHANGED <<pc, writer>> PROVE OneWriter'
    BY <2>4
  <2> QED
    BY <2>1, <2>2, <2>3, <2>4
    DEF Next, Tick, vars, BecomesDue, StartJob, EndJob, LockExpires
<1>2. NewIsUnqueued' /\ OneQueuedJob'
  <2>1. ASSUME NEW t \in Tickers, Check(t) \/ Enter(t) \/ ReadDue(t) \/ EndSweep(t) \/ Exit(t)
        PROVE  NewIsUnqueued' /\ OneQueuedJob'
    BY <2>1 DEF Check, Enter, ReadDue, EndSweep, Exit, Leave, NewIsUnqueued, Prepared, OneQueuedJob, TypeOK
  <2>2. ASSUME NEW t \in Tickers, Schedule(t) PROVE NewIsUnqueued' /\ OneQueuedJob'
    BY <2>2 DEF Schedule, NewIsUnqueued, Prepared, OneQueuedJob, Unscheduled, TypeOK
  <2>3. ASSUME NEW t \in Tickers, CommitTick(t) PROVE NewIsUnqueued' /\ OneQueuedJob'
    <3>1. \A x \in Targets : jobs'[x].queued <= Inserted(t)[x].queued
      BY <2>3, InsertedType DEF CommitTick, Counts
    <3> QED BY <2>3, <3>1, Insertion DEF CommitTick, OneWriter, Prepared, TypeOK
  <2>4. ASSUME NEW t \in Tickers, StartSweep(t) PROVE NewIsUnqueued' /\ OneQueuedJob'
    <3>1. PICK x \in Targets, from \in {"queued", "failed"} :
            /\ CanStart(Inserted(t)[x], from)
            /\ jobs' = [Inserted(t) EXCEPT ![x] = Started(@, from)]
      BY <2>4 DEF StartSweep
    <3>2. \A y \in Targets : jobs'[y].queued <= Inserted(t)[y].queued
      BY <3>1, InsertedType, StartedType DEF Counts
    <3> QED BY <2>4, <3>2, Insertion DEF StartSweep, OneWriter, Prepared, TypeOK
  <2>5. ASSUME NEW x \in Targets, StartJob(x) PROVE NewIsUnqueued' /\ OneQueuedJob'
    <3>1. PICK from \in {"queued", "failed"} :
            CanStart(jobs[x], from) /\ jobs' = [jobs EXCEPT ![x] = Started(@, from)]
      BY <2>5 DEF StartJob
    <3>2. \A y \in Targets : jobs'[y].queued <= jobs[y].queued
      BY <3>1, StartedType DEF TypeOK, Counts
    <3> QED BY <2>5, <3>2, NoInsertion DEF StartJob
  <2>6. ASSUME NEW x \in Targets, EndJob(x) PROVE NewIsUnqueued' /\ OneQueuedJob'
    <3>1. \A y \in Targets : jobs'[y].queued <= jobs[y].queued
      BY <2>6 DEF EndJob, TypeOK, Counts
    <3> QED BY <2>6, <3>1, NoInsertion DEF EndJob
  <2>7. ASSUME UNCHANGED <<pc, new, jobs>> PROVE NewIsUnqueued' /\ OneQueuedJob'
    BY <2>7 DEF NewIsUnqueued, OneQueuedJob
  <2> QED
    BY <2>1, <2>2, <2>3, <2>4, <2>5, <2>6, <2>7
    DEF Next, Tick, vars, BecomesDue, LockExpires
<1> QED
  BY <1>0, <1>1, <1>2

(* The heartbeat row, the tickers and the job counts stay well formed: in  *)
(* particular no count of jobs falls below zero.                           *)
THEOREM SchedulerTypeCorrect == Spec => []TypeOK
<1>1. Init => TypeOK
  BY SchedulerAssumption DEF Init, TypeOK, Locks, Stages, Counts
<1> QED
  BY <1>1, SchedulerTypeNext, PTL DEF Spec

(* A target never has two jobs waiting, whatever schedulers tick at once. *)
THEOREM TargetsAreQueuedOnce == Spec => []OneQueuedJob
<1>1. Init => SchedulerInv
  BY SchedulerAssumption
  DEF Init, SchedulerInv, TypeOK, OneWriter, NewIsUnqueued, Prepared, OneQueuedJob, Locks, Stages, Counts
<1>2. SchedulerInv => OneQueuedJob
  BY DEF SchedulerInv
<1> QED
  BY <1>1, <1>2, SchedulerInvNext, PTL DEF Spec
=============================================================================
