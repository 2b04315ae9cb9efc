--------------------------- MODULE JobQueueProofs ---------------------------
(***************************************************************************)
(* Theorems about JobQueue, for every set of jobs, threads, sweepers and   *)
(* administrators, every batch limit and every retry budget.               *)
(***************************************************************************)
EXTENDS RqDispatch, FiniteSetTheorems, TLAPS

AnyLoad(c) == \E j \in Jobs : LoadRow(c, j)

(* The steps of the system, with the kinds of actors forgotten. *)
LEMMA Steps ==
  ASSUME TypeOK, [Next]_vars
  PROVE  \/ UNCHANGED vars
         \/ \E j \in Jobs : Enqueue(j) \/ BackoffElapses(j) \/ GoesStale(j)
         \/ \E a \in Actors : \/ Poll(a) \/ SelectCandidates(a) \/ Claim(a)
                             \/ StartClaimed(a) \/ Finish(a) \/ SelectDue(a)
                             \/ ReadNext(a) \/ AnyLoad(a) \/ ExecuteJob(a)
         \/ ApiExit
         \/ ApiStart
         \/ \E s \in Sweepers : SweeperExit(s)
<1>1. ASSUME NEW t \in Threads, ThreadStep(t)
      PROVE  \E a \in Actors : \/ Poll(a) \/ SelectCandidates(a) \/ Claim(a)
                              \/ StartClaimed(a) \/ Finish(a)
  BY <1>1 DEF ThreadStep, Actors
<1>2. ASSUME NEW s \in Sweepers, SweeperStep(s)
      PROVE  \E a \in Actors : Poll(a) \/ SelectDue(a) \/ ReadNext(a) \/ ExecuteJob(a) \/ Finish(a)
  BY <1>2 DEF SweeperStep, Actors
<1>3. ASSUME NEW r \in Callers, CallerStep(r)
      PROVE  \E a \in Actors : AnyLoad(a) \/ ExecuteJob(a) \/ Finish(a)
  BY <1>3 DEF CallerStep, AnyLoad, Actors
<1> QED
  BY <1>1, <1>2, <1>3 DEF Next

(* What each operator of JobRow returns is a row. *)
LEMMA RowOperators ==
  ASSUME NEW row \in Row, NEW n \in Nat, NEW outcome \in Outcome
  PROVE  /\ Begun(row, n) \in Row
         /\ Recovered(row, n) \in Row
         /\ Finished(row, n, outcome) \in Row
<1> USE DEF Row, Status, Terminal, Waiting
<1>1. Begun(row, n) \in Row
  <2>1. n + 1 \in Nat
    OBVIOUS
  <2> QED BY <2>1 DEF Begun
<1>2. Recovered(row, n) \in Row
  BY DEF Recovered
<1>3. FinalStatus(n, outcome) \in Terminal \cup Waiting
  BY DEF FinalStatus, Outcome
<1>4. Finished(row, n, outcome) \in Row
  BY <1>3 DEF Finished
<1> QED
  BY <1>1, <1>2, <1>4

LEMMA AfterRecoveryType ==
  ASSUME TypeOK, NEW a \in Actors
  PROVE  AfterRecovery(a) \in [Jobs -> Row]
<1>1. ASSUME NEW j \in Jobs PROVE Recovered(job[j], seen[a][j]) \in Row
  BY RowOperators DEF TypeOK, Outcome
<1> QED
  BY <1>1 DEF AfterRecovery, TypeOK

(* An actor is in its handler exactly when it has a job to execute. *)
PhaseOK == \A a \in Actors : phase[a] = "executing" <=> exec[a] # None

LEMMA TypeInit == Init => TypeOK /\ PhaseOK
  BY DEF Init, TypeOK, PhaseOK, NoneSeen, Phases, Absent, Row, Status, Terminal, Waiting

(* Every action keeps the types. *)
LEMMA TypeNext == TypeOK /\ PhaseOK /\ [Next]_vars => TypeOK'
<1> SUFFICES ASSUME TypeOK, PhaseOK, [Next]_vars PROVE TypeOK'
  OBVIOUS
<1> USE DEF TypeOK
<1>1. ASSUME NEW j \in Jobs, Enqueue(j) PROVE TypeOK'
  BY <1>1 DEF Enqueue, Row, Status, Waiting
<1>2. ASSUME NEW j \in Jobs, BackoffElapses(j) PROVE TypeOK'
  BY <1>2 DEF BackoffElapses, Row
<1>3. ASSUME NEW j \in Jobs, GoesStale(j) PROVE TypeOK'
  BY <1>3 DEF GoesStale, Row
<1>4. ASSUME NEW a \in Actors, Poll(a) PROVE TypeOK'
  <2>1. [j \in Jobs |-> IF Abandoned(job[j]) THEN job[j].attempts ELSE 0] \in [Jobs -> Nat]
    BY DEF Row
  <2> QED BY <1>4, <2>1 DEF Poll, Phases
<1>5. ASSUME NEW a \in Actors, SelectCandidates(a) PROVE TypeOK'
  <2>1. FirstOf(DueRows(AfterRecovery(a)), BatchLimit) \subseteq Jobs
    BY DEF FirstOf, DueRows
  <2> QED BY <1>5, <2>1 DEF SelectCandidates, Phases
<1>6. ASSUME NEW a \in Actors, Claim(a) PROVE TypeOK'
  <2> DEFINE table == AfterRecovery(a)
  <2> DEFINE won == {j \in held[a] : Claimable(table[j])}
  <2>1. table \in [Jobs -> Row]
    BY AfterRecoveryType
  <2>2. [j \in Jobs |-> IF j \in won THEN Begun(table[j], table[j].attempts)
                                  ELSE table[j]] \in [Jobs -> Row]
    <3>1. ASSUME NEW j \in Jobs PROVE Begun(table[j], table[j].attempts) \in Row
      <4>1. table[j] \in Row /\ table[j].attempts \in Nat
        BY <2>1 DEF Row
      <4> HIDE DEF table
      <4> QED BY <4>1, RowOperators DEF Outcome
    <3> HIDE DEF table, won
    <3> QED BY <2>1, <3>1
  <2>3. won \subseteq Jobs /\ NoneSeen \in [Jobs -> Nat]
    BY DEF NoneSeen
  <2>4. [j \in Jobs |-> IF j \in won THEN tries[j] + 1 ELSE tries[j]] \in [Jobs -> Nat]
    OBVIOUS
  <2> QED BY <1>6, <2>2, <2>3, <2>4 DEF Claim, Phases
<1>7. ASSUME NEW a \in Actors, StartClaimed(a) PROVE TypeOK'
  <2>1. PICK j \in held[a] : IF job[j].status = "running"
                             THEN StartHandler(a, j, job[j].attempts)
                             ELSE GoOn(a, held[a] \ {j})
    BY <1>7 DEF StartClaimed
  <2>2. j \in Jobs /\ job[j].attempts \in Nat /\ UNCHANGED <<job, seen, tries, exits>>
    BY <1>7 DEF StartClaimed, Row
  <2>3. CASE StartHandler(a, j, job[j].attempts)
    BY <2>2, <2>3 DEF StartHandler, Phases
  <2>4. CASE GoOn(a, held[a] \ {j})
    BY <2>2, <2>4 DEF GoOn, Phases
  <2> QED BY <2>1, <2>3, <2>4
<1>8. ASSUME NEW a \in Actors, Finish(a) PROVE TypeOK'
  <2>0. exec[a] \in Jobs
    BY <1>8 DEF Finish, PhaseOK
  <2>1. PICK outcome \in Outcome :
          job' = [job EXCEPT ![exec[a]] = Finished(@, loaded[a], outcome)]
    BY <1>8 DEF Finish, Outcome
  <2>2. Finished(job[exec[a]], loaded[a], outcome) \in Row
    BY <2>0, RowOperators
  <2> QED BY <1>8, <2>0, <2>1, <2>2 DEF Finish, GoOn, Phases
<1>9. ASSUME NEW a \in Actors, SelectDue(a) \/ ReadNext(a) \/ AnyLoad(a) PROVE TypeOK'
  <2>1. AfterRecovery(a) \in [Jobs -> Row] /\ NoneSeen \in [Jobs -> Nat]
    BY AfterRecoveryType DEF NoneSeen
  <2>2. ASSUME NEW batch \in SUBSET Jobs, NEW table \in [Jobs -> Row],
               ReadFirst(a, batch, table)
        PROVE  /\ held' \in [Actors -> SUBSET Jobs]
               /\ phase' \in [Actors -> Phases]
               /\ loaded' \in [Actors -> Nat]
    <3>1. \A j \in batch : table[j].attempts \in Nat
      BY DEF Row
    <3> QED BY <2>2, <3>1 DEF ReadFirst, Phases
  <2>3. CASE SelectDue(a)
    <3>1. FirstOf(DueRows(AfterRecovery(a)), SweepLimit) \subseteq Jobs
      BY DEF FirstOf, DueRows
    <3> QED BY <2>1, <2>2, <2>3, <3>1 DEF SelectDue
  <2>4. CASE ReadNext(a)
    BY <2>2, <2>4 DEF ReadNext
  <2>5. CASE AnyLoad(a)
    BY <2>2, <2>5 DEF AnyLoad, LoadRow
  <2> QED BY <1>9, <2>3, <2>4, <2>5
<1>10. ASSUME NEW a \in Actors, ExecuteJob(a) PROVE TypeOK'
  <2>1. PICK j \in held[a] : /\ job' = [job EXCEPT ![j] = Begun(@, loaded[a])]
                             /\ tries' = [tries EXCEPT ![j] = @ + 1]
                             /\ StartHandler(a, j, loaded[a] + 1)
    BY <1>10 DEF ExecuteJob
  <2>2. Begun(job[j], loaded[a]) \in Row
    BY RowOperators DEF Outcome
  <2> QED BY <1>10, <2>1, <2>2 DEF ExecuteJob, StartHandler, Phases
<1>11. ASSUME NEW A, NEW to \in Phases, Forget(A, to), UNCHANGED <<job, tries>>, exits' \in Nat
       PROVE TypeOK'
  BY <1>11 DEF Forget, NoneSeen
<1>12. ASSUME ApiExit PROVE TypeOK'
  BY <1>11, <1>12 DEF ApiExit, Phases
<1>13. ASSUME ApiStart PROVE TypeOK'
  <2>1. ASSUME NEW j \in Jobs PROVE Recovered(job[j], job[j].attempts) \in Row
    <3>1. job[j].attempts \in Nat
      BY DEF Row
    <3> QED BY <3>1, RowOperators DEF Outcome
  <2> QED BY <1>13, <2>1 DEF ApiStart, Phases
<1>14. ASSUME NEW s \in Sweepers, SweeperExit(s) PROVE TypeOK'
  BY <1>11, <1>14 DEF SweeperExit, Phases
<1>15. CASE UNCHANGED vars
  BY <1>15 DEF vars
<1> QED
  BY <1>1, <1>2, <1>3, <1>4, <1>5, <1>6, <1>7, <1>8, <1>9, <1>10, <1>12, <1>13, <1>14, <1>15, Steps

(* Every action keeps the correspondence of phase and exec. *)
LEMMA PhaseNext == TypeOK /\ PhaseOK /\ [Next]_vars => PhaseOK'
<1> SUFFICES ASSUME TypeOK, PhaseOK, [Next]_vars PROVE PhaseOK'
  OBVIOUS
<1> USE JobQueueAssumption DEF TypeOK, PhaseOK
<1>1. ASSUME NEW a \in Actors,
             \/ Poll(a) \/ SelectCandidates(a) \/ Claim(a)
             \/ SelectDue(a) \/ ReadNext(a) \/ AnyLoad(a)
      PROVE PhaseOK'
  BY <1>1 DEF Poll, SelectCandidates, Claim, SelectDue, ReadNext, AnyLoad, LoadRow, ReadFirst
<1>2. ASSUME NEW a \in Actors, StartClaimed(a) \/ Finish(a) PROVE PhaseOK'
  BY <1>2 DEF StartClaimed, Finish, StartHandler, GoOn
<1>3. ASSUME NEW a \in Actors, ExecuteJob(a) PROVE PhaseOK'
  <2>1. PICK j \in held[a] : StartHandler(a, j, loaded[a] + 1)
    BY <1>3 DEF ExecuteJob
  <2>2. j # None
    BY <2>1
  <2> QED BY <2>1, <2>2 DEF StartHandler
<1>4. ASSUME ApiExit \/ ApiStart \/ (\E s \in Sweepers : SweeperExit(s)) PROVE PhaseOK'
  <2>1. ASSUME NEW A, NEW to \in {"idle", "down"}, Forget(A, to) PROVE PhaseOK'
    BY <2>1 DEF Forget
  <2>2. CASE ApiStart
    <3>1. exec' = exec
      BY <2>2 DEF ApiStart
    <3> QED BY <2>2, <3>1 DEF ApiStart
  <2> QED BY <1>4, <2>1, <2>2 DEF ApiExit, SweeperExit
<1>5. CASE UNCHANGED <<phase, exec>>
  BY <1>5
<1> QED
  BY <1>1, <1>2, <1>3, <1>4, <1>5, Steps DEF vars, Enqueue, BackoffElapses, GoesStale

(* The state of the queue and of every actor is always well formed. *)
THEOREM TypeCorrect == Spec => [](TypeOK /\ PhaseOK)
  BY TypeInit, TypeNext, PhaseNext, PTL DEF Spec
-----------------------------------------------------------------------------
(* What the three writes of a row do to the fields the invariants are about. *)
LEMMA BegunFields ==
  ASSUME NEW row \in Row, NEW n \in Nat
  PROVE  /\ Begun(row, n).status = "running"
         /\ Begun(row, n).attempts = n + 1
         /\ ~Begun(row, n).stale
  BY DEF Begun, Row

LEMMA RecoveredFields ==
  ASSUME NEW row \in Row, NEW n \in Nat
  PROVE  /\ Recovered(row, n).status = IF n < MaxAttempts THEN "failed" ELSE "dead_letter"
         /\ Recovered(row, n).attempts = row.attempts
         /\ ~Recovered(row, n).stale
  BY DEF Recovered, Row

LEMMA FinishedFields ==
  ASSUME NEW row \in Row, NEW n \in Nat, NEW outcome \in Outcome
  PROVE  /\ Finished(row, n, outcome).status = FinalStatus(n, outcome)
         /\ Finished(row, n, outcome).attempts = row.attempts
         /\ ~Finished(row, n, outcome).stale
  BY DEF Finished, Row

(* A table after an actor's recovery: the attempts are what they were, and *)
(* a row is dead-lettered by it only on attempts it read as exhausted.     *)
LEMMA AfterRecoveryFields ==
  ASSUME TypeOK, NEW a \in Actors, NEW j \in Jobs
  PROVE  /\ AfterRecovery(a)[j].attempts = job[j].attempts
         /\ AfterRecovery(a)[j].status = "dead_letter" =>
              job[j].status = "dead_letter" \/ seen[a][j] >= MaxAttempts
<1>1. job[j] \in Row /\ seen[a][j] \in Nat
  BY DEF TypeOK
<1>2. CASE seen[a][j] > 0
  BY <1>1, <1>2, RecoveredFields, MaxAttemptsAssumption DEF AfterRecovery
<1>3. CASE ~(seen[a][j] > 0)
  BY <1>3 DEF AfterRecovery
<1> QED
  BY <1>2, <1>3

(* The actor executes j, or is about to. *)
Knows(a, j) == exec[a] = j \/ (phase[a] = "ready" /\ IsFirst(j, held[a]))

(* Neither a row nor an actor knows of more attempts than there were tries. *)
Counted ==
  /\ \A j \in Jobs : job[j].attempts <= tries[j]
  /\ \A a \in Actors, j \in Jobs : seen[a][j] <= tries[j]
  /\ \A a \in Actors, j \in Jobs : Knows(a, j) => loaded[a] <= tries[j]

(* The tries of a job never decrease, and its row becomes dead-lettered    *)
(* only with its budget spent.                                             *)
RowStep(j) ==
  /\ tries'[j] >= tries[j]
  /\ job'[j].attempts <= tries'[j]
  /\ job'[j].status = "dead_letter" =>
       \/ job[j].status = "dead_letter"
       \/ j \in Unregistered
       \/ tries[j] >= MaxAttempts

LEMMA EveryRowStep ==
  ASSUME TypeOK, PhaseOK, Counted, [Next]_vars, NEW j \in Jobs
  PROVE  RowStep(j)
<1> USE DEF RowStep
<1>0. /\ job[j] \in Row /\ job[j].attempts \in Nat /\ tries[j] \in Nat
      /\ job[j].attempts <= tries[j]
      /\ \A a \in Actors : seen[a][j] \in Nat /\ loaded[a] \in Nat
  BY DEF TypeOK, Row, Counted
<1>1. ASSUME job' = job, tries' = tries PROVE RowStep(j)
  BY <1>0, <1>1
<1>2. ASSUME NEW k \in Jobs, Enqueue(k) \/ BackoffElapses(k) \/ GoesStale(k) PROVE RowStep(j)
  <2>1. /\ job'[j].attempts = job[j].attempts
        /\ job'[j].status = "dead_letter" => job[j].status = "dead_letter"
        /\ tries' = tries
    <3>1. CASE k = j
      BY <1>0, <1>2, <3>1 DEF Enqueue, BackoffElapses, GoesStale, TypeOK, Row
    <3>2. CASE k # j
      BY <1>0, <1>2, <3>2 DEF Enqueue, BackoffElapses, GoesStale, TypeOK
    <3> QED BY <3>1, <3>2
  <2> QED BY <1>0, <2>1
<1>3. ASSUME NEW a \in Actors, Claim(a) PROVE RowStep(j)
  <2> DEFINE table == AfterRecovery(a)
  <2>1. table[j] \in Row
    BY AfterRecoveryType
  <2>2. \/ job'[j] = Begun(table[j], table[j].attempts) /\ tries'[j] = tries[j] + 1
        \/ job'[j] = table[j] /\ tries'[j] = tries[j]
    BY <1>3 DEF Claim
  <2>3. /\ table[j].attempts = job[j].attempts
        /\ table[j].status = "dead_letter" =>
             job[j].status = "dead_letter" \/ seen[a][j] >= MaxAttempts
    BY AfterRecoveryFields
  <2>4. seen[a][j] <= tries[j]
    BY DEF Counted
  <2> HIDE DEF table
  <2> QED BY <1>0, <2>1, <2>2, <2>3, <2>4, BegunFields, MaxAttemptsAssumption
<1>4. ASSUME NEW a \in Actors, SelectDue(a) PROVE RowStep(j)
  <2>1. job'[j] = AfterRecovery(a)[j] /\ tries' = tries
    BY <1>4 DEF SelectDue
  <2>2. seen[a][j] <= tries[j]
    BY DEF Counted
  <2> QED BY <1>0, <2>1, <2>2, AfterRecoveryFields, MaxAttemptsAssumption
<1>5. ASSUME NEW a \in Actors, ExecuteJob(a) PROVE RowStep(j)
  <2>1. PICK k \in held[a] : /\ IsFirst(k, held[a])
                             /\ job' = [job EXCEPT ![k] = Begun(@, loaded[a])]
                             /\ tries' = [tries EXCEPT ![k] = @ + 1]
    BY <1>5 DEF ExecuteJob
  <2>2. CASE k = j
    <3>1. loaded[a] <= tries[j]
      BY <1>5, <2>1, <2>2 DEF Counted, Knows, ExecuteJob
    <3>2. job'[j] = Begun(job[j], loaded[a]) /\ tries'[j] = tries[j] + 1
      BY <2>1, <2>2 DEF TypeOK
    <3> QED BY <1>0, <3>1, <3>2, BegunFields
  <2>3. CASE k # j
    <3>1. job'[j] = job[j] /\ tries'[j] = tries[j]
      BY <2>1, <2>3 DEF TypeOK
    <3> QED BY <1>0, <3>1
  <2> QED BY <2>2, <2>3
<1>6. ASSUME NEW a \in Actors, Finish(a) PROVE RowStep(j)
  <2>0. tries' = tries
    BY <1>6 DEF Finish
  <2>1. CASE exec[a] # j
    <3>1. job'[j] = job[j]
      BY <1>6, <2>1 DEF Finish, TypeOK
    <3> QED BY <1>0, <2>0, <3>1
  <2>2. CASE exec[a] = j
    <3>1. PICK outcome \in Outcome :
            /\ job'[j] = Finished(job[j], loaded[a], outcome)
            /\ outcome = "unregistered" => j \in Unregistered
      BY <1>6, <2>2 DEF Finish, Outcome, TypeOK
    <3>2. loaded[a] <= tries[j]
      BY <2>2 DEF Counted, Knows
    <3>3. /\ job'[j].attempts = job[j].attempts
          /\ job'[j].status = FinalStatus(loaded[a], outcome)
      BY <1>0, <3>1, FinishedFields
    <3>4. job'[j].status = "dead_letter" => outcome = "unregistered" \/ loaded[a] >= MaxAttempts
      BY <3>3 DEF FinalStatus, Outcome
    <3> QED BY <1>0, <2>0, <3>1, <3>2, <3>3, <3>4, MaxAttemptsAssumption
  <2> QED BY <2>1, <2>2
<1>7. ASSUME ApiStart PROVE RowStep(j)
  <2>1. tries' = tries /\ (job'[j] = job[j] \/ job'[j] = Recovered(job[j], job[j].attempts))
    BY <1>7 DEF ApiStart
  <2> QED BY <1>0, <2>1, RecoveredFields, MaxAttemptsAssumption
<1> QED
  BY <1>1, <1>2, <1>3, <1>4, <1>5, <1>6, <1>7, Steps
  DEF vars, Poll, SelectCandidates, StartClaimed, ReadNext, AnyLoad, LoadRow, ApiExit, SweeperExit

(* What an actor remembers of a row stays within the tries of its job. *)
LEMMA CountedNext ==
  TypeOK /\ PhaseOK /\ Counted /\ [Next]_vars => Counted'
<1> SUFFICES ASSUME TypeOK, PhaseOK, Counted, [Next]_vars PROVE Counted'
  OBVIOUS
<1>a. ASSUME NEW j \in Jobs PROVE job'[j].attempts <= tries'[j]
  BY EveryRowStep DEF RowStep
<1> SUFFICES ASSUME NEW a \in Actors, NEW j \in Jobs
             PROVE  /\ seen'[a][j] <= tries'[j]
                    /\ Knows(a, j)' => loaded'[a] <= tries'[j]
  BY <1>a, Zenon DEF Counted
<1> USE DEF Knows
<1>0. TypeOK' /\ tries'[j] >= tries[j] /\ job'[j].attempts <= tries'[j]
  BY TypeNext, EveryRowStep DEF RowStep
<1>1. /\ job[j].attempts \in Nat /\ tries[j] \in Nat /\ tries'[j] \in Nat
      /\ seen[a][j] \in Nat /\ loaded[a] \in Nat
      /\ job[j].attempts <= tries[j] /\ seen[a][j] <= tries[j]
      /\ Knows(a, j) => loaded[a] <= tries[j]
  BY <1>0 DEF TypeOK, Row, Counted
<1>2. seen'[a][j] \in {seen[a][j], job[j].attempts, 0}
  <2>1. ASSUME NEW b \in Actors, Poll(b) PROVE seen'[a][j] \in {seen[a][j], job[j].attempts, 0}
    BY <2>1 DEF Poll, TypeOK
  <2>2. ASSUME NEW b \in Actors, Claim(b) \/ SelectDue(b) PROVE seen'[a][j] \in {seen[a][j], 0}
    BY <2>2 DEF Claim, SelectDue, TypeOK, NoneSeen
  <2>3. ASSUME NEW A, NEW to, Forget(A, to) PROVE seen'[a][j] \in {seen[a][j], 0}
    BY <2>3 DEF Forget, NoneSeen
  <2>4. ASSUME NEW b \in Actors, AnyLoad(b) PROVE seen' = seen
    BY <2>4 DEF AnyLoad, LoadRow
  <2> QED
    BY <2>1, <2>2, <2>3, <2>4, Steps
    DEF vars, Enqueue, BackoffElapses, GoesStale, SelectCandidates, StartClaimed, Finish,
        ReadNext, ExecuteJob, ApiExit, ApiStart, SweeperExit
<1>3. Knows(a, j)' => \/ Knows(a, j) /\ loaded'[a] = loaded[a]
                   \/ loaded'[a] <= tries'[j]
  <2> SUFFICES ASSUME Knows(a, j)', ~(Knows(a, j) /\ loaded'[a] = loaded[a])
               PROVE  loaded'[a] <= tries'[j]
    OBVIOUS
  <2>1. ASSUME NEW b \in Actors, StartClaimed(b) PROVE loaded'[a] <= tries'[j]
    <3>1. tries' = tries
      BY <2>1 DEF StartClaimed
    <3>2. loaded'[a] = job[j].attempts
      BY <2>1, JobQueueAssumption DEF StartClaimed, StartHandler, GoOn, TypeOK
    <3> QED BY <1>1, <3>1, <3>2
  <2>2. ASSUME NEW b \in Actors, ExecuteJob(b) PROVE loaded'[a] <= tries'[j]
    <3>1. PICK k \in held[b] : /\ IsFirst(k, held[b])
                               /\ tries' = [tries EXCEPT ![k] = @ + 1]
                               /\ StartHandler(b, k, loaded[b] + 1)
      BY <2>2 DEF ExecuteJob
    <3>2. b = a /\ k = j
      BY <3>1 DEF StartHandler, TypeOK
    <3>3. loaded'[a] = loaded[a] + 1 /\ tries'[j] = tries[j] + 1
      BY <3>1, <3>2 DEF StartHandler, TypeOK
    <3>4. Knows(a, j)
      BY <2>2, <3>1, <3>2 DEF ExecuteJob
    <3> QED BY <1>1, <3>3, <3>4
  <2>3. ASSUME NEW b \in Actors, Finish(b) PROVE FALSE
    BY <2>3, JobQueueAssumption DEF Finish, GoOn, TypeOK
  <2>4. ASSUME ApiExit \/ (\E s \in Sweepers : SweeperExit(s)) PROVE FALSE
    BY <2>4, JobQueueAssumption DEF ApiExit, SweeperExit, Forget, TypeOK
  <2>5. ASSUME NEW b \in Actors, NEW batch \in SUBSET Jobs, NEW table \in [Jobs -> Row],
               ReadFirst(b, batch, table), exec' = exec, tries' = tries,
               table[j].attempts = job[j].attempts
        PROVE loaded'[a] <= tries'[j]
    <3>1. CASE b # a
      BY <2>5, <3>1 DEF ReadFirst, TypeOK
    <3>2. CASE b = a
      <4>1. CASE batch = {}
        BY <2>5, <3>2, <4>1 DEF ReadFirst, TypeOK, IsFirst
      <4>2. CASE batch # {}
        <5>1. PICK k \in batch : /\ IsFirst(k, batch)
                                 /\ phase'[a] = "ready"
                                 /\ loaded'[a] = table[k].attempts
                                 /\ held'[a] = batch
          BY <2>5, <3>2, <4>2 DEF ReadFirst, TypeOK
        <5>2. exec'[a] = None
          BY <2>5, <5>1, PhaseNext DEF PhaseOK
        <5>3. IsFirst(j, batch)
          BY <5>1, <5>2, JobQueueAssumption
        <5>4. Rank[k] <= Rank[j] /\ Rank[j] <= Rank[k] /\ k \in Jobs
          BY <5>1, <5>3 DEF IsFirst
        <5>5. k = j
          BY <5>4, JobQueueAssumption
        <5> QED BY <1>1, <2>5, <5>1, <5>5
      <4> QED BY <4>1, <4>2
    <3> QED BY <3>1, <3>2
  <2>6. ASSUME NEW b \in Actors, SelectDue(b) PROVE loaded'[a] <= tries'[j]
    <3>1. /\ AfterRecovery(b) \in [Jobs -> Row]
          /\ FirstOf(DueRows(AfterRecovery(b)), SweepLimit) \subseteq Jobs
      BY AfterRecoveryType DEF FirstOf, DueRows
    <3> QED BY <2>5, <2>6, <3>1, AfterRecoveryFields DEF SelectDue
  <2>7. ASSUME NEW b \in Actors, ReadNext(b) PROVE loaded'[a] <= tries'[j]
    BY <2>5, <2>7 DEF ReadNext, TypeOK
  <2>8. ASSUME NEW b \in Actors, AnyLoad(b) PROVE loaded'[a] <= tries'[j]
    BY <2>5, <2>8 DEF AnyLoad, LoadRow, TypeOK
  <2>9. ASSUME NEW b \in Actors, Poll(b) \/ SelectCandidates(b) \/ Claim(b) PROVE FALSE
    BY <2>9, JobQueueAssumption DEF Poll, SelectCandidates, Claim, TypeOK, PhaseOK
  <2>10. ASSUME ApiStart PROVE FALSE
    BY <2>10 DEF ApiStart, TypeOK
  <2> QED
    BY <2>1, <2>2, <2>3, <2>4, <2>6, <2>7, <2>8, <2>9, <2>10, Steps
    DEF vars, Enqueue, BackoffElapses, GoesStale
<1> QED
  BY <1>0, <1>1, <1>2, <1>3

LEMMA BudgetNext ==
  TypeOK /\ PhaseOK /\ Counted /\ BudgetSpent /\ [Next]_vars => BudgetSpent'
<1> SUFFICES ASSUME TypeOK, PhaseOK, Counted, BudgetSpent, [Next]_vars,
                    NEW j \in Jobs, job'[j].status = "dead_letter"
             PROVE  j \in Unregistered \/ tries'[j] >= MaxAttempts
  BY DEF BudgetSpent
<1>1. RowStep(j) /\ tries[j] \in Nat /\ tries'[j] \in Nat
  BY EveryRowStep, TypeNext DEF TypeOK
<1> QED
  BY <1>1, MaxAttemptsAssumption DEF RowStep, BudgetSpent

(* Whatever mixture of worker threads, sweeps, administrators, stale       *)
(* recoveries and restarts touches the table, and however they overwrite   *)
(* each other's counts, a job whose type is known is dead-lettered only    *)
(* after max_attempts tries.                                               *)
THEOREM DeadLetterMeansBudgetSpent == Spec => []BudgetSpent
<1>1. Init => Counted /\ BudgetSpent
  BY DEF Init, Counted, BudgetSpent, NoneSeen, Absent
<1> QED
  BY <1>1, TypeInit, TypeNext, PhaseNext, CountedNext, BudgetNext, PTL DEF Spec
-----------------------------------------------------------------------------
(* What the queue guarantees when the worker threads of one API process    *)
(* are the only executors and no claim outlives the recovery threshold:    *)
(* a job has at most one executor, its row says "running" meanwhile, it is *)
(* started at most max_attempts times, and the queue implements            *)
(* JobLifecycle.                                                           *)
ThreadsOnly   == Sweepers = {} /\ Callers = {}
SingleProcess == ~SlowHandlers /\ ThreadsOnly

(* Every running row is somebody's, and nobody else's.  In this deployment *)
(* a row is recovered by age never: only ApiStart finds rows nobody holds. *)
NothingSeen       == \A a \in Actors, j \in Jobs : seen[a][j] = 0
AllDown           == \A a, b \in Actors : phase[a] = "down" => phase[b] = "down"
StaleIsOrphan     == \A j \in Jobs : job[j].stale => job[j].status = "running" /\ ~Up
RunningIsAttended == \A j \in Jobs : job[j].status = "running" /\ Up => Attended(j)
AttendedIsRunning == \A a \in Actors, j \in Jobs : Attends(a, j) => job[j].status = "running"
OneOwner == \A a, b \in Actors, j \in Jobs : Attends(a, j) /\ Attends(b, j) => a = b
ExecNotHeld == \A a \in Actors : phase[a] = "executing" => exec[a] \notin held[a]

(* The executor remembers the attempts of the row exactly, and a row that  *)
(* may be claimed again has an attempt left.                               *)
LoadedExact == \A a \in Actors, j \in Jobs : exec[a] = j => loaded[a] = job[j].attempts
WithinBudget ==
  \A j \in Jobs : /\ job[j].attempts <= MaxAttempts
                  /\ job[j].status \in Waiting \cup {"absent"} => job[j].attempts < MaxAttempts

Ownership == /\ NothingSeen /\ AllDown /\ StaleIsOrphan /\ RunningIsAttended
             /\ AttendedIsRunning /\ OneOwner /\ ExecNotHeld
Budget    == LoadedExact /\ WithinBudget

ExclusiveInv == TypeOK /\ PhaseOK /\ Ownership /\ Budget

-----------------------------------------------------------------------------
LEMMA ThreadSteps ==
  ASSUME ThreadsOnly, TypeOK, [Next]_vars
  PROVE  \/ UNCHANGED vars
         \/ \E j \in Jobs : Enqueue(j) \/ BackoffElapses(j) \/ GoesStale(j)
         \/ \E t \in Actors : Poll(t) \/ SelectCandidates(t) \/ Claim(t) \/ StartClaimed(t) \/ Finish(t)
         \/ ApiExit
         \/ ApiStart
  BY DEF ThreadsOnly, Next, ThreadStep, Actors

LEMMA UpMeans ==
  ASSUME SingleProcess
  PROVE  /\ Up <=> \A a \in Actors : phase[a] # "down"
         /\ Up' <=> \A a \in Actors : phase'[a] # "down"
  BY DEF SingleProcess, ThreadsOnly, Up, Actors

(* With nothing seen, a recovery writes nothing. *)
LEMMA NoRecovery ==
  ASSUME TypeOK, NothingSeen, NEW a \in Actors
  PROVE  AfterRecovery(a) = job
<1>1. \A j \in Jobs : AfterRecovery(a)[j] = job[j]
  BY DEF AfterRecovery, NothingSeen
<1> QED
  BY <1>1 DEF AfterRecovery, TypeOK

LEMMA ExclusiveInit == Init => Ownership /\ Budget
  BY MaxAttemptsAssumption, JobQueueAssumption
  DEF Init, Ownership, Budget, NothingSeen, AllDown, StaleIsOrphan, RunningIsAttended,
      AttendedIsRunning, OneOwner, ExecNotHeld, LoadedExact, WithinBudget, NoneSeen,
      Absent, Attends, Waiting

(* A producer or the clock changes one row nobody executes, or its age. *)
LEMMA WorldKeepsExclusive ==
  ASSUME SingleProcess, ExclusiveInv, NEW k \in Jobs,
         Enqueue(k) \/ BackoffElapses(k) \/ GoesStale(k)
  PROVE  Ownership' /\ Budget'
<1> USE DEF ExclusiveInv
<1>1. UNCHANGED <<phase, seen, held, exec, loaded>>
  BY DEF Enqueue, BackoffElapses, GoesStale
<1>2. \A a \in Actors, j \in Jobs : Attends(a, j)' <=> Attends(a, j)
  BY <1>1 DEF Attends
<1>3. Up' <=> Up
  BY <1>1 DEF Up
<1>4. \A j \in Jobs :
        /\ job'[j].attempts = job[j].attempts
        /\ job'[j].status = job[j].status \/ (job[j].status = "absent" /\ job'[j].status = "queued")
  <2> SUFFICES ASSUME NEW j \in Jobs
               PROVE  /\ job'[j].attempts = job[j].attempts
                      /\ job'[j].status = job[j].status \/ (job[j].status = "absent" /\ job'[j].status = "queued")
    OBVIOUS
  <2>1. job[j] \in Row /\ job[k] \in Row
    BY DEF TypeOK
  <2>2. CASE k # j
    BY <2>2 DEF Enqueue, BackoffElapses, GoesStale, TypeOK
  <2>3. CASE k = j
    BY <2>1, <2>3 DEF Enqueue, BackoffElapses, GoesStale, TypeOK, Row
  <2> QED BY <2>2, <2>3
<1>5. ASSUME NEW j \in Jobs, job'[j].stale PROVE job'[j].status = "running" /\ ~Up'
  <2>1. CASE job[j].stale
    <3>1. job[j].status = "running" /\ ~Up
      BY <2>1 DEF Ownership, StaleIsOrphan
    <3> QED BY <3>1, <1>3, <1>4
  <2>2. CASE ~job[j].stale
    <3>1. GoesStale(k) /\ k = j
      BY <1>5, <2>2 DEF Enqueue, BackoffElapses, GoesStale, TypeOK, Row
    <3>2. job[j].status = "running" /\ ~Attended(j)
      BY <3>1 DEF GoesStale, SingleProcess
    <3>3. ~Up
      BY <3>2 DEF Ownership, RunningIsAttended
    <3> QED BY <1>3, <1>4, <3>2, <3>3
  <2> QED BY <2>1, <2>2
<1>6. NothingSeen' /\ AllDown' /\ ExecNotHeld'
  BY <1>1 DEF Ownership, NothingSeen, AllDown, ExecNotHeld
<1>7. RunningIsAttended' /\ AttendedIsRunning' /\ OneOwner'
  BY <1>2, <1>3, <1>4 DEF Ownership, RunningIsAttended, AttendedIsRunning, OneOwner, Attended
<1>8. LoadedExact'
  BY <1>1, <1>4 DEF Budget, LoadedExact
<1>9. WithinBudget'
  BY <1>4 DEF Budget, WithinBudget, Waiting
<1> QED
  BY <1>5, <1>6, <1>7, <1>8, <1>9 DEF Ownership, Budget, StaleIsOrphan

(* A thread that polls or selects attends to nothing. *)
LEMMA PollKeepsExclusive ==
  ASSUME SingleProcess, ExclusiveInv, NEW t \in Actors, Poll(t) \/ SelectCandidates(t)
  PROVE  Ownership' /\ Budget'
<1> USE DEF ExclusiveInv
<1>1. UNCHANGED <<job, exec, loaded>> /\ \A a \in Actors : a # t => phase'[a] = phase[a] /\ held'[a] = held[a]
  BY DEF Poll, SelectCandidates, TypeOK
<1>2. phase[t] \in {"idle", "polled"} /\ phase'[t] \in {"polled", "selected"} /\ exec[t] = None
  BY DEF Poll, SelectCandidates, TypeOK, PhaseOK
<1>3. \A a \in Actors, j \in Jobs : Attends(a, j)' <=> Attends(a, j)
  BY <1>1, <1>2, JobQueueAssumption DEF Attends
<1>4. Up /\ Up'
  BY <1>1, <1>2, UpMeans DEF Ownership, AllDown
<1>5. NothingSeen'
  <2>1. \A j \in Jobs : ~job[j].stale
    BY <1>4 DEF Ownership, StaleIsOrphan
  <2>2. \A a \in Actors, j \in Jobs : seen[a][j] = 0
    BY DEF Ownership, NothingSeen
  <2>3. CASE Poll(t)
    <3>1. seen' = [seen EXCEPT ![t] = [j \in Jobs |-> 0]]
      BY <2>1, <2>3 DEF Poll, Abandoned
    <3> QED BY <2>2, <3>1 DEF NothingSeen, TypeOK
  <2>4. CASE SelectCandidates(t)
    BY <2>2, <2>4 DEF SelectCandidates, NothingSeen
  <2> QED BY <2>3, <2>4
<1>6. AllDown' /\ StaleIsOrphan'
  BY <1>1, <1>4, UpMeans DEF Ownership, AllDown, StaleIsOrphan
<1>7. RunningIsAttended' /\ AttendedIsRunning' /\ OneOwner'
  BY <1>1, <1>3, <1>4 DEF Ownership, RunningIsAttended, AttendedIsRunning, OneOwner, Attended
<1>8. ExecNotHeld' /\ Budget'
  BY <1>1, <1>2 DEF Ownership, ExecNotHeld, Budget, LoadedExact, WithinBudget
<1> QED
  BY <1>5, <1>6, <1>7, <1>8 DEF Ownership
(* Claim takes waiting rows only, which nobody attends to. *)
LEMMA ClaimKeepsExclusive ==
  ASSUME SingleProcess, ExclusiveInv, NEW t \in Actors, Claim(t)
  PROVE  Ownership' /\ Budget'
<1> USE DEF ExclusiveInv
<1> DEFINE won == {j \in held[t] : Claimable(job[j])}
<1>1. /\ job' = [j \in Jobs |-> IF j \in won THEN Begun(job[j], job[j].attempts) ELSE job[j]]
      /\ held' = [held EXCEPT ![t] = won]
      /\ seen' = [seen EXCEPT ![t] = NoneSeen]
      /\ phase' = [phase EXCEPT ![t] = IF won = {} THEN "idle" ELSE "batch"]
      /\ phase[t] = "selected" /\ exec[t] = None
      /\ UNCHANGED <<exec, loaded>>
  BY NoRecovery DEF Claim, Ownership, PhaseOK
<1>2. \A j \in won : j \in Jobs /\ job[j].status \in Waiting /\ job[j].attempts < MaxAttempts
  BY DEF Claimable, Budget, WithinBudget, TypeOK
<1>3. \A j \in Jobs : job[j] \in Row /\ job[j].attempts \in Nat
  BY DEF TypeOK, Row
<1>4. \A j \in Jobs : IF j \in won
                      THEN /\ job'[j].status = "running" /\ ~job'[j].stale
                           /\ job'[j].attempts = job[j].attempts + 1
                      ELSE job'[j] = job[j]
  BY <1>1, <1>3, BegunFields
<1>5. /\ \A j \in Jobs : ~Attends(t, j)
      /\ \A j \in Jobs : Attends(t, j)' <=> j \in won
      /\ \A a \in Actors \ {t}, j \in Jobs : Attends(a, j)' <=> Attends(a, j)
  <2> HIDE DEF won
  <2> QED BY <1>1, JobQueueAssumption DEF Attends, TypeOK
<1>6. Up /\ Up'
  <2>1. Up
    BY <1>1, UpMeans DEF Ownership, AllDown
  <2>2. \A a \in Actors : phase'[a] # "down"
    BY <1>1, <2>1, UpMeans DEF TypeOK
  <2> QED BY <2>1, <2>2, UpMeans
<1>7. \A a \in Actors, j \in Jobs : Attends(a, j) => job[j].status = "running" /\ j \notin won
  BY <1>2 DEF Ownership, AttendedIsRunning, Waiting
<1> HIDE DEF won
<1>8. NothingSeen' /\ AllDown'
  BY <1>1, <1>6, UpMeans DEF Ownership, NothingSeen, AllDown, NoneSeen, TypeOK
<1>9. StaleIsOrphan'
  BY <1>4, <1>6 DEF Ownership, StaleIsOrphan
<1>10. RunningIsAttended'
  <2> SUFFICES ASSUME NEW j \in Jobs, job'[j].status = "running"
               PROVE  \E a \in Actors : Attends(a, j)'
    BY DEF RunningIsAttended, Attended
  <2>1. CASE j \in won
    BY <2>1, <1>5
  <2>2. CASE j \notin won
    <3>1. PICK a \in Actors : Attends(a, j)
      BY <2>2, <1>4, <1>6 DEF Ownership, RunningIsAttended, Attended
    <3> QED BY <3>1, <1>5
  <2> QED BY <2>1, <2>2
<1>11. AttendedIsRunning' /\ OneOwner'
  BY <1>4, <1>5, <1>7 DEF Ownership, AttendedIsRunning, OneOwner
<1>12. ExecNotHeld'
  BY <1>1 DEF Ownership, ExecNotHeld, TypeOK
<1>13. LoadedExact'
  <2> SUFFICES ASSUME NEW a \in Actors, NEW j \in Jobs, exec[a] = j
               PROVE  loaded[a] = job'[j].attempts
    BY <1>1 DEF LoadedExact
  <2>1. j \notin won
    BY <1>7 DEF Attends
  <2> QED BY <2>1, <1>4 DEF Budget, LoadedExact
<1>14. WithinBudget'
  <2> SUFFICES ASSUME NEW j \in Jobs
               PROVE  /\ job'[j].attempts <= MaxAttempts
                      /\ job'[j].status \in Waiting \cup {"absent"} => job'[j].attempts < MaxAttempts
    BY DEF WithinBudget
  <2>1. CASE j \in won
    BY <2>1, <1>2, <1>3, <1>4, MaxAttemptsAssumption DEF Waiting
  <2>2. CASE j \notin won
    BY <2>2, <1>4 DEF Budget, WithinBudget
  <2> QED BY <2>1, <2>2
<1> QED
  BY <1>8, <1>9, <1>10, <1>11, <1>12, <1>13, <1>14 DEF Ownership, Budget

(* execute_claimed_job_by_id finds its row still running: it never skips. *)
LEMMA StartKeepsExclusive ==
  ASSUME SingleProcess, ExclusiveInv, NEW t \in Actors, StartClaimed(t)
  PROVE  Ownership' /\ Budget'
<1> USE DEF ExclusiveInv
<1>1. PICK j \in Jobs : j \in held[t] /\ StartHandler(t, j, job[j].attempts)
  <2>1. PICK j \in held[t] : IF job[j].status = "running"
                             THEN StartHandler(t, j, job[j].attempts)
                             ELSE GoOn(t, held[t] \ {j})
    BY DEF StartClaimed
  <2>2. j \in Jobs /\ Attends(t, j)
    BY DEF StartClaimed, Attends, TypeOK
  <2> QED BY <2>1, <2>2 DEF Ownership, AttendedIsRunning
<1>2. /\ phase[t] = "batch" /\ exec[t] = None /\ UNCHANGED <<job, seen>>
      /\ held' = [held EXCEPT ![t] = @ \ {j}]
      /\ exec' = [exec EXCEPT ![t] = j]
      /\ loaded' = [loaded EXCEPT ![t] = job[j].attempts]
      /\ phase' = [phase EXCEPT ![t] = "executing"]
  BY <1>1 DEF StartClaimed, StartHandler, PhaseOK
<1>3. \A a \in Actors, k \in Jobs : Attends(a, k)' <=> Attends(a, k)
  BY <1>1, <1>2, JobQueueAssumption DEF Attends, TypeOK
<1>4. Up' <=> Up
  BY <1>2, UpMeans DEF TypeOK
<1>5. NothingSeen' /\ AllDown' /\ StaleIsOrphan'
  BY <1>2, <1>4, UpMeans DEF Ownership, NothingSeen, AllDown, StaleIsOrphan, TypeOK
<1>6. RunningIsAttended' /\ AttendedIsRunning' /\ OneOwner'
  BY <1>2, <1>3, <1>4 DEF Ownership, RunningIsAttended, AttendedIsRunning, OneOwner, Attended
<1>7. ExecNotHeld'
  BY <1>2 DEF Ownership, ExecNotHeld, TypeOK
<1>8. LoadedExact' /\ WithinBudget'
  BY <1>2 DEF Budget, LoadedExact, WithinBudget, TypeOK
<1> QED
  BY <1>5, <1>6, <1>7, <1>8 DEF Ownership, Budget
(* How a handler's end changes the one row it executed. *)
LEMMA FinishEffect ==
  ASSUME ExclusiveInv, NEW t \in Actors, Finish(t)
  PROVE  \E e \in Jobs : \E outcome \in Outcome :
           /\ exec[t] = e /\ job[e].status = "running" /\ loaded[t] = job[e].attempts
           /\ outcome = "unregistered" <=> e \in Unregistered
           /\ job' = [job EXCEPT ![e] = Finished(job[e], job[e].attempts, outcome)]
           /\ job'[e].status = FinalStatus(job[e].attempts, outcome)
           /\ job'[e].attempts = job[e].attempts
           /\ ~job'[e].stale
<1> USE DEF ExclusiveInv
<1>1. exec[t] \in Jobs
  BY DEF Finish, PhaseOK, TypeOK
<1>2. job[exec[t]].status = "running" /\ loaded[t] = job[exec[t]].attempts
  BY <1>1 DEF Ownership, AttendedIsRunning, Attends, Budget, LoadedExact
<1>3. PICK outcome \in Outcome :
        /\ outcome = "unregistered" <=> exec[t] \in Unregistered
        /\ job' = [job EXCEPT ![exec[t]] = Finished(@, loaded[t], outcome)]
  BY DEF Finish, Outcome
<1>4. job[exec[t]] \in Row /\ job[exec[t]].attempts \in Nat
  BY <1>1 DEF TypeOK, Row
<1>5. job'[exec[t]] = Finished(job[exec[t]], job[exec[t]].attempts, outcome)
  BY <1>1, <1>2, <1>3 DEF TypeOK
<1>6. /\ job'[exec[t]].status = FinalStatus(job[exec[t]].attempts, outcome)
      /\ job'[exec[t]].attempts = job[exec[t]].attempts
      /\ ~job'[exec[t]].stale
  BY <1>4, <1>5, FinishedFields
<1>7. job' = [job EXCEPT ![exec[t]] = Finished(job[exec[t]], job[exec[t]].attempts, outcome)]
  BY <1>2, <1>3
<1> QED
  BY <1>1, <1>2, <1>3, <1>6, <1>7

LEMMA FinishKeepsExclusive ==
  ASSUME SingleProcess, ExclusiveInv, NEW t \in Actors, Finish(t)
  PROVE  Ownership' /\ Budget'
<1> USE DEF ExclusiveInv
<1>1. PICK e \in Jobs, outcome \in Outcome :
        /\ exec[t] = e /\ job[e].status = "running"
        /\ job' = [job EXCEPT ![e] = Finished(job[e], job[e].attempts, outcome)]
        /\ job'[e].status = FinalStatus(job[e].attempts, outcome)
        /\ job'[e].attempts = job[e].attempts
        /\ ~job'[e].stale
  BY FinishEffect
<1>2. /\ phase[t] = "executing" /\ UNCHANGED seen
      /\ held' = held
      /\ exec' = [exec EXCEPT ![t] = None]
      /\ loaded' = [loaded EXCEPT ![t] = 0]
      /\ phase' = [phase EXCEPT ![t] = IF held[t] = {} THEN "idle" ELSE "batch"]
  BY DEF Finish, GoOn, TypeOK
<1>3. \A k \in Jobs : k # e => job'[k] = job[k]
  BY <1>1 DEF TypeOK
<1>4. e \notin held[t]
  BY <1>1, <1>2 DEF Ownership, ExecNotHeld
<1>5. \A a \in Actors, k \in Jobs : Attends(a, k)' <=> Attends(a, k) /\ ~(a = t /\ k = e)
  BY <1>1, <1>2, <1>4, JobQueueAssumption DEF Attends, TypeOK
<1>6. \A a \in Actors : Attends(a, e) => a = t
  BY <1>1 DEF Ownership, OneOwner, Attends
<1>7. Up' <=> Up
  BY <1>2, UpMeans DEF TypeOK
<1>8. job'[e].status \in Terminal \cup {"failed"}
      /\ (job'[e].status = "failed" => job[e].attempts < MaxAttempts)
  <2>1. job[e].attempts \in Nat
    BY DEF TypeOK, Row
  <2> QED BY <1>1, <2>1, MaxAttemptsAssumption DEF FinalStatus, Outcome, Terminal
<1>9. NothingSeen' /\ AllDown' /\ ExecNotHeld'
  BY <1>2, UpMeans DEF Ownership, NothingSeen, AllDown, ExecNotHeld, TypeOK
<1>10. StaleIsOrphan'
  BY <1>1, <1>3, <1>7 DEF Ownership, StaleIsOrphan
<1>11. RunningIsAttended'
  BY <1>3, <1>5, <1>7, <1>8 DEF Ownership, RunningIsAttended, Attended, Terminal
<1>12. AttendedIsRunning'
  BY <1>3, <1>5, <1>6 DEF Ownership, AttendedIsRunning
<1>13. OneOwner'
  BY <1>5 DEF Ownership, OneOwner
<1>14. LoadedExact'
  <2> SUFFICES ASSUME NEW a \in Actors, NEW k \in Jobs, exec'[a] = k
               PROVE  loaded'[a] = job'[k].attempts
    BY DEF LoadedExact
  <2>1. a # t /\ exec[a] = k /\ loaded'[a] = loaded[a]
    BY <1>2, JobQueueAssumption DEF TypeOK
  <2> QED BY <2>1, <1>1, <1>3 DEF Budget, LoadedExact
<1>15. WithinBudget'
  BY <1>1, <1>3, <1>8 DEF Budget, WithinBudget, Terminal, Waiting
<1> QED
  BY <1>9, <1>10, <1>11, <1>12, <1>13, <1>14, <1>15 DEF Ownership, Budget

(* After an exit nothing is attended; after a start nothing is running. *)
LEMMA ExitKeepsExclusive ==
  ASSUME SingleProcess, ExclusiveInv, ApiExit
  PROVE  Ownership' /\ Budget'
<1> USE DEF ExclusiveInv
<1>1. /\ job' = job
      /\ \A a \in Actors : phase'[a] = "down" /\ seen'[a] = NoneSeen /\ exec'[a] = None
  BY DEF ApiExit, Forget, SingleProcess, ThreadsOnly, Actors
<1>2. \A a \in Actors, j \in Jobs : ~Attends(a, j)'
  BY <1>1, JobQueueAssumption DEF Attends
<1>3. Up' => Up /\ Actors = {}
  BY <1>1, UpMeans
<1>4. NothingSeen' /\ AllDown' /\ ExecNotHeld' /\ LoadedExact'
  BY <1>1, JobQueueAssumption DEF NothingSeen, AllDown, ExecNotHeld, LoadedExact, NoneSeen
<1>5. StaleIsOrphan' /\ RunningIsAttended'
  BY <1>1, <1>3 DEF Ownership, StaleIsOrphan, RunningIsAttended, Attended
<1>6. AttendedIsRunning' /\ OneOwner'
  BY <1>2 DEF AttendedIsRunning, OneOwner
<1>7. WithinBudget'
  BY <1>1 DEF Budget, WithinBudget
<1> QED
  BY <1>4, <1>5, <1>6, <1>7 DEF Ownership, Budget

LEMMA StartEffect ==
  ASSUME TypeOK, ApiStart, NEW j \in Jobs
  PROVE  /\ job'[j].attempts = job[j].attempts
         /\ job[j].status # "running" => job'[j] = job[j]
         /\ job[j].status = "running" =>
              /\ job'[j].status = IF job[j].attempts < MaxAttempts THEN "failed" ELSE "dead_letter"
              /\ ~job'[j].stale
<1>1. job[j] \in Row /\ job[j].attempts \in Nat
  BY DEF TypeOK, Row
<1> QED
  BY <1>1, RecoveredFields DEF ApiStart

LEMMA RestartKeepsExclusive ==
  ASSUME SingleProcess, ExclusiveInv, ApiStart
  PROVE  Ownership' /\ Budget'
<1> USE DEF ExclusiveInv
<1>1. \A a \in Actors : phase[a] = "down" /\ exec[a] = None
  BY UpMeans DEF ApiStart, Ownership, AllDown, PhaseOK
<1>2. \A a \in Actors : phase'[a] = "idle" /\ UNCHANGED <<seen, held, exec, loaded>>
  BY <1>1 DEF ApiStart
<1>3. \A j \in Jobs : job'[j].status # "running"
  BY StartEffect
<1>4. \A a \in Actors, j \in Jobs : ~Attends(a, j)'
  BY <1>1, <1>2, JobQueueAssumption DEF Attends
<1>5. UNCHANGED seen
  BY DEF ApiStart
<1>6. NothingSeen' /\ AllDown' /\ ExecNotHeld' /\ LoadedExact'
  BY <1>1, <1>2, <1>5, JobQueueAssumption
  DEF Ownership, NothingSeen, AllDown, ExecNotHeld, LoadedExact
<1>7. StaleIsOrphan'
  BY StartEffect DEF Ownership, StaleIsOrphan
<1>8. RunningIsAttended' /\ AttendedIsRunning' /\ OneOwner'
  BY <1>3, <1>4 DEF RunningIsAttended, AttendedIsRunning, OneOwner
<1>9. WithinBudget'
  BY StartEffect, MaxAttemptsAssumption DEF Budget, WithinBudget, Waiting
<1> QED
  BY <1>6, <1>7, <1>8, <1>9 DEF Ownership, Budget

LEMMA ExclusiveNext ==
  ASSUME SingleProcess
  PROVE  ExclusiveInv /\ [Next]_vars => ExclusiveInv'
<1> SUFFICES ASSUME ExclusiveInv, [Next]_vars PROVE ExclusiveInv'
  OBVIOUS
<1>1. TypeOK' /\ PhaseOK'
  BY TypeNext, PhaseNext DEF ExclusiveInv
<1>2. CASE UNCHANGED vars
  BY <1>2
  DEF vars, ExclusiveInv, TypeOK, PhaseOK, Ownership, Budget, NothingSeen, AllDown,
      StaleIsOrphan, RunningIsAttended, AttendedIsRunning, OneOwner, ExecNotHeld,
      LoadedExact, WithinBudget, Up, Attended, Attends
<1>3. CASE ~UNCHANGED vars
  <2>1. Ownership' /\ Budget'
    BY <1>3, ThreadSteps, WorldKeepsExclusive, PollKeepsExclusive, ClaimKeepsExclusive,
       StartKeepsExclusive, FinishKeepsExclusive, ExitKeepsExclusive, RestartKeepsExclusive
    DEF ExclusiveInv, SingleProcess
  <2> QED BY <1>1, <2>1 DEF ExclusiveInv
<1> QED
  BY <1>2, <1>3

LEMMA ExclusiveAlways ==
  ASSUME SingleProcess
  PROVE  Spec => []ExclusiveInv
<1>1. Init => ExclusiveInv
  BY TypeInit, ExclusiveInit DEF ExclusiveInv
<1> QED
  BY <1>1, ExclusiveNext, PTL DEF Spec

(* A claimed job is executed by one thread at a time, over any number of   *)
(* threads, batches, failures, retries and process exits.                  *)
THEOREM OneExecutorPerJob ==
  ASSUME SingleProcess
  PROVE  Spec => []AtMostOneExecutor
<1>1. ExclusiveInv => AtMostOneExecutor
  BY DEF ExclusiveInv, Ownership, OneOwner, Attends, AtMostOneExecutor, TypeOK
<1> QED
  BY <1>1, ExclusiveAlways, PTL

(* The row of an executing job says "running" until its own executor ends: *)
(* no recovery takes it away meanwhile.                                    *)
THEOREM RecoveryLeavesExecutorsAlone ==
  ASSUME SingleProcess
  PROVE  Spec => []ExecutingIsRunning
<1>1. ExclusiveInv => ExecutingIsRunning
  BY DEF ExclusiveInv, Ownership, AttendedIsRunning, Attends, ExecutingIsRunning, TypeOK
<1> QED
  BY <1>1, ExclusiveAlways, PTL

-----------------------------------------------------------------------------
(* The moves of one row in this deployment. *)
Moves(j) ==
  \/ job'[j].status = job[j].status /\ job'[j].attempts = job[j].attempts
  \/ job[j].status = "absent" /\ job'[j].status = "queued" /\ job'[j].attempts = job[j].attempts
  \/ /\ job[j].status \in Waiting /\ job'[j].status = "running"
     /\ job[j].attempts < MaxAttempts /\ job'[j].attempts = job[j].attempts + 1
  \/ /\ job[j].status = "running" /\ job'[j].attempts = job[j].attempts
     /\ \/ job'[j].status = "done" /\ j \notin Unregistered
        \/ job'[j].status = "failed" /\ job[j].attempts < MaxAttempts
        \/ job'[j].status = "dead_letter" /\ (j \in Unregistered \/ job[j].attempts >= MaxAttempts)

LEMMA EveryRowMoves ==
  ASSUME SingleProcess, ExclusiveInv, [Next]_vars, NEW j \in Jobs
  PROVE  Moves(j)
<1> USE DEF ExclusiveInv
<1>0. job[j] \in Row /\ job[j].attempts \in Nat
  BY DEF TypeOK, Row
<1>1. ASSUME job' = job PROVE Moves(j)
  BY <1>1 DEF Moves
<1>2. ASSUME NEW k \in Jobs, Enqueue(k) \/ BackoffElapses(k) \/ GoesStale(k) PROVE Moves(j)
  <2>1. CASE k # j
    BY <1>2, <2>1 DEF Enqueue, BackoffElapses, GoesStale, TypeOK, Moves
  <2>2. CASE k = j
    BY <1>0, <1>2, <2>2 DEF Enqueue, BackoffElapses, GoesStale, TypeOK, Row, Moves
  <2> QED BY <2>1, <2>2
<1>3. ASSUME NEW t \in Actors, Claim(t) PROVE Moves(j)
  <2>1. AfterRecovery(t) = job
    BY NoRecovery DEF Ownership
  <2>2. job'[j] = job[j] \/ (Claimable(job[j]) /\ job'[j] = Begun(job[j], job[j].attempts))
    BY <1>3, <2>1 DEF Claim
  <2>3. CASE Claimable(job[j]) /\ job'[j] = Begun(job[j], job[j].attempts)
    BY <1>0, <2>3, BegunFields DEF Claimable, Moves, Budget, WithinBudget
  <2> QED BY <2>2, <2>3 DEF Moves
<1>4. ASSUME NEW t \in Actors, Finish(t) PROVE Moves(j)
  <2>1. PICK e \in Jobs, outcome \in Outcome :
          /\ job[e].status = "running"
          /\ outcome = "unregistered" <=> e \in Unregistered
          /\ job' = [job EXCEPT ![e] = Finished(job[e], job[e].attempts, outcome)]
          /\ job'[e].status = FinalStatus(job[e].attempts, outcome)
          /\ job'[e].attempts = job[e].attempts
    BY <1>4, FinishEffect
  <2>2. CASE j # e
    BY <2>1, <2>2 DEF TypeOK, Moves
  <2>3. CASE j = e
    BY <1>0, <2>1, <2>3, MaxAttemptsAssumption DEF Moves, FinalStatus, Outcome
  <2> QED BY <2>2, <2>3
<1>5. ASSUME ApiStart PROVE Moves(j)
  <2>1. /\ job'[j].attempts = job[j].attempts
        /\ job[j].status # "running" => job'[j] = job[j]
        /\ job[j].status = "running" =>
             job'[j].status = IF job[j].attempts < MaxAttempts THEN "failed" ELSE "dead_letter"
    BY <1>5, StartEffect
  <2> QED BY <1>0, <2>1, MaxAttemptsAssumption DEF Moves
<1> QED
  BY <1>1, <1>2, <1>3, <1>4, <1>5, ThreadSteps
  DEF SingleProcess, vars, Poll, SelectCandidates, StartClaimed, ApiExit

(* A claim increments the column in its UPDATE: with threads alone it      *)
(* counts the tries exactly.                                               *)
TriesExact == \A j \in Jobs : tries[j] = job[j].attempts

LEMMA TriesNext ==
  ASSUME ThreadsOnly
  PROVE  TypeOK /\ PhaseOK /\ TriesExact /\ [Next]_vars => TriesExact'
<1> SUFFICES ASSUME TypeOK, PhaseOK, TriesExact, [Next]_vars, NEW j \in Jobs
             PROVE  tries'[j] = job'[j].attempts
  BY DEF TriesExact
<1>0. job[j] \in Row /\ job[j].attempts \in Nat /\ tries[j] = job[j].attempts
  BY DEF TypeOK, Row, TriesExact
<1>1. ASSUME NEW t \in Actors, Claim(t) PROVE tries'[j] = job'[j].attempts
  <2>1. /\ AfterRecovery(t)[j] \in Row
        /\ AfterRecovery(t)[j].attempts = job[j].attempts
    BY AfterRecoveryType, AfterRecoveryFields
  <2>2. \/ job'[j] = AfterRecovery(t)[j] /\ tries'[j] = tries[j]
        \/ /\ job'[j] = Begun(AfterRecovery(t)[j], AfterRecovery(t)[j].attempts)
           /\ tries'[j] = tries[j] + 1
    BY <1>1 DEF Claim
  <2> QED BY <1>0, <2>1, <2>2, BegunFields
<1>2. ASSUME tries' = tries, job'[j].attempts = job[j].attempts
      PROVE  tries'[j] = job'[j].attempts
  BY <1>0, <1>2
<1>3. ASSUME NEW k \in Jobs, Enqueue(k) \/ BackoffElapses(k) \/ GoesStale(k)
      PROVE  tries' = tries /\ job'[j].attempts = job[j].attempts
  <2>1. CASE k # j
    BY <1>3, <2>1 DEF Enqueue, BackoffElapses, GoesStale, TypeOK
  <2>2. CASE k = j
    BY <1>0, <1>3, <2>2 DEF Enqueue, BackoffElapses, GoesStale, TypeOK, Row
  <2> QED BY <2>1, <2>2
<1>4. ASSUME NEW t \in Actors, Finish(t)
      PROVE  tries' = tries /\ job'[j].attempts = job[j].attempts
  <2>1. tries' = tries /\ exec[t] \in Jobs
    BY <1>4 DEF Finish, PhaseOK, TypeOK
  <2>2. PICK outcome \in Outcome :
          job' = [job EXCEPT ![exec[t]] = Finished(@, loaded[t], outcome)]
    BY <1>4 DEF Finish, Outcome
  <2>3. job[exec[t]] \in Row /\ loaded[t] \in Nat
    BY <2>1 DEF TypeOK
  <2>4. Finished(job[exec[t]], loaded[t], outcome).attempts = job[exec[t]].attempts
    BY <2>3, FinishedFields
  <2> QED BY <2>1, <2>2, <2>4 DEF TypeOK
<1>5. ASSUME ApiStart
      PROVE  tries' = tries /\ job'[j].attempts = job[j].attempts
  BY <1>5, StartEffect DEF ApiStart
<1>6. ASSUME UNCHANGED <<job, tries>> PROVE tries'[j] = job'[j].attempts
  BY <1>0, <1>6
<1> QED
  BY <1>1, <1>2, <1>3, <1>4, <1>5, <1>6, ThreadSteps
  DEF vars, Poll, SelectCandidates, StartClaimed, ApiExit

(* No job is started more than max_attempts times. *)
THEOREM RetryBudgetHolds ==
  ASSUME SingleProcess
  PROVE  Spec => []AttemptsBounded
<1>1. Init => TriesExact
  BY DEF Init, TriesExact, Absent
<1>2. ExclusiveInv /\ TriesExact => AttemptsBounded
  BY DEF ExclusiveInv, Budget, WithinBudget, TriesExact, AttemptsBounded
<1>3. ExclusiveInv /\ TriesExact /\ [Next]_vars => TriesExact'
  BY TriesNext DEF SingleProcess, ExclusiveInv
<1> QED
  BY <1>1, <1>2, <1>3, ExclusiveAlways, PTL DEF Spec

(* A move of the row is a step, or a stutter, of the life of the job. *)
LEMMA MovesAreSteps ==
  ASSUME ExclusiveInv, NEW j \in Jobs, Moves(j)
  PROVE  LifeOf(job'[j]) = LifeOf(job[j])
         \/ Lifecycle!Step(j, LifeOf(job[j]), LifeOf(job'[j]))
<1>0. job[j].status \in Status /\ job[j].attempts \in Nat
  BY DEF ExclusiveInv, TypeOK, Row
<1>1. CASE job'[j].status = job[j].status /\ job'[j].attempts = job[j].attempts
  BY <1>1 DEF LifeOf
<1>2. CASE job[j].status = "absent" /\ job'[j].status = "queued" /\ job'[j].attempts = job[j].attempts
  BY <1>2 DEF LifeOf, Lifecycle!Step, Waiting
<1>3. CASE /\ job[j].status \in Waiting /\ job'[j].status = "running"
           /\ job[j].attempts < MaxAttempts /\ job'[j].attempts = job[j].attempts + 1
  BY <1>0, <1>3 DEF LifeOf, Lifecycle!Step, Lifecycle!CanStart, Waiting
<1>4. CASE /\ job[j].status = "running" /\ job'[j].attempts = job[j].attempts
           /\ \/ job'[j].status = "done" /\ j \notin Unregistered
              \/ job'[j].status = "failed" /\ job[j].attempts < MaxAttempts
              \/ job'[j].status = "dead_letter"
                 /\ (j \in Unregistered \/ job[j].attempts >= MaxAttempts)
  BY <1>0, <1>4 DEF LifeOf, Lifecycle!Step, Lifecycle!CanGiveUp, Waiting
<1> QED
  BY <1>1, <1>2, <1>3, <1>4 DEF Moves

(* The embedded worker implements the abstract queue. *)
THEOREM QueueImplementsLifecycle ==
  ASSUME SingleProcess
  PROVE  Spec => ImplementsLifecycle
<1>1. Init => Lifecycle!Init
  BY DEF Init, Lifecycle!Init, LifeOf, Absent, Waiting
<1>2. ExclusiveInv /\ [Next]_vars => [Lifecycle!Next]_([j \in Jobs |-> LifeOf(job[j])])
  <2> SUFFICES ASSUME ExclusiveInv, [Next]_vars PROVE Lifecycle!Next
    OBVIOUS
  <2>1. \A j \in Jobs : LifeOf(job'[j]) = LifeOf(job[j])
                        \/ Lifecycle!Step(j, LifeOf(job[j]), LifeOf(job'[j]))
    BY EveryRowMoves, MovesAreSteps
  <2> QED BY <2>1 DEF Lifecycle!Next
<1> QED
  BY <1>1, <1>2, ExclusiveAlways, PTL DEF Spec, ImplementsLifecycle, Lifecycle!Spec
-----------------------------------------------------------------------------
(* Worker threads whose handlers may outlive the recovery threshold: how   *)
(* far they can overrun the retry budget.  A thread is in debt for a job   *)
(* when it remembers a count of attempts from within the budget: it may    *)
(* still put the row back to "failed", once, after the budget is spent.    *)
Debt(j) ==
  {t \in Threads : \/ seen[t][j] > 0 /\ seen[t][j] < MaxAttempts
                   \/ exec[t] = j /\ loaded[t] < MaxAttempts}

Pending(j) == IF job[j].status \in Waiting THEN 1 ELSE 0

ReadingSeen == \A t \in Threads, j \in Jobs : seen[t][j] > 0 => phase[t] \in {"polled", "selected"}
AbsentUntried == \A j \in Jobs : job[j].status = "absent" => tries[j] = 0

(* Beyond the budget every start is paid for by a thread that is out of    *)
(* date, and the thread of the last start within the budget never is.      *)
DebtPays ==
  \A j \in Jobs : tries[j] >= MaxAttempts =>
    tries[j] + Cardinality(Debt(j)) + Pending(j) <= MaxAttempts + Cardinality(Threads) - 1

OverrunInv == TypeOK /\ PhaseOK /\ TriesExact /\ ReadingSeen /\ AbsentUntried /\ DebtPays

LEMMA DebtFinite ==
  /\ Cardinality(Threads) \in Nat
  /\ \A S \in SUBSET Threads : IsFiniteSet(S) /\ Cardinality(S) \in Nat
  /\ \A S \in SUBSET Threads : \A D \in SUBSET S : Cardinality(D) <= Cardinality(S)
  /\ \A S \in SUBSET Threads : \A t \in S : Cardinality(S \ {t}) = Cardinality(S) - 1
  BY JobQueueAssumption, FS_Subset, FS_CardinalityType, FS_RemoveElement

(* What one step does to a job: nothing that matters; a thread in debt     *)
(* pays to put the row back, or to start it itself; the row is started     *)
(* out of a waiting state; or this is the last start within the budget.    *)
Payment(j) ==
  \/ /\ tries'[j] = tries[j]
     /\ \/ Debt(j)' \subseteq Debt(j) /\ Pending(j)' <= Pending(j)
        \/ \E t \in Debt(j) : Debt(j)' \subseteq Debt(j) \ {t}
  \/ /\ tries[j] >= MaxAttempts /\ tries'[j] = tries[j] + 1 /\ Pending(j)' = 0
     /\ \/ Debt(j)' \subseteq Debt(j) /\ Pending(j) = 1
        \/ \E t \in Debt(j) : Debt(j)' \subseteq Debt(j) \ {t}
  \/ /\ tries[j] < MaxAttempts /\ tries'[j] = tries[j] + 1 /\ Pending(j)' = 0
     /\ \E t \in Threads : Debt(j)' \subseteq Threads \ {t}

LEMMA PaymentKeeps ==
  ASSUME TypeOK, DebtPays, NEW j \in Jobs, tries'[j] >= MaxAttempts => Payment(j)
  PROVE  tries'[j] >= MaxAttempts =>
           tries'[j] + Cardinality(Debt(j)') + Pending(j)' <= MaxAttempts + Cardinality(Threads) - 1
<1> SUFFICES ASSUME tries'[j] >= MaxAttempts
             PROVE  tries'[j] + Cardinality(Debt(j)') + Pending(j)'
                      <= MaxAttempts + Cardinality(Threads) - 1
  OBVIOUS
<1> DEFINE N == Cardinality(Threads)
           D == Debt(j)
           E == Debt(j)'
           p == Pending(j)
           q == Pending(j)'
<1>1. /\ D \in SUBSET Threads /\ E \in SUBSET Threads
      /\ p \in {0, 1} /\ q \in {0, 1} /\ tries[j] \in Nat
  BY DEF Debt, Pending, TypeOK
<1>2. N \in Nat /\ Cardinality(D) \in Nat /\ Cardinality(E) \in Nat
  BY <1>1, DebtFinite
<1>3. tries[j] >= MaxAttempts => tries[j] + Cardinality(D) + p <= MaxAttempts + N - 1
  BY DEF DebtPays
<1>4. E \subseteq D => Cardinality(E) <= Cardinality(D)
  BY <1>1, DebtFinite
<1>5. (\E t \in D : E \subseteq D \ {t}) => Cardinality(E) <= Cardinality(D) - 1
  <2> SUFFICES ASSUME NEW t \in D, E \subseteq D \ {t} PROVE Cardinality(E) <= Cardinality(D) - 1
    OBVIOUS
  <2>1. D \ {t} \in SUBSET Threads
    BY <1>1
  <2>2. Cardinality(E) <= Cardinality(D \ {t}) /\ Cardinality(D \ {t}) = Cardinality(D) - 1
    BY <1>1, <2>1, DebtFinite
  <2> QED BY <2>2
<1>6. (\E t \in Threads : E \subseteq Threads \ {t}) => Cardinality(E) <= N - 1
  <2> SUFFICES ASSUME NEW t \in Threads, E \subseteq Threads \ {t} PROVE Cardinality(E) <= N - 1
    OBVIOUS
  <2>1. Cardinality(E) <= Cardinality(Threads \ {t}) /\ Cardinality(Threads \ {t}) = N - 1
    BY DebtFinite
  <2> QED BY <2>1
<1>7. \/ tries'[j] = tries[j] /\ ((E \subseteq D /\ q <= p) \/ (\E t \in D : E \subseteq D \ {t}))
      \/ /\ tries[j] >= MaxAttempts /\ tries'[j] = tries[j] + 1 /\ q = 0
         /\ (E \subseteq D /\ p = 1) \/ (\E t \in D : E \subseteq D \ {t})
      \/ /\ tries[j] < MaxAttempts /\ tries'[j] = tries[j] + 1 /\ q = 0
         /\ \E t \in Threads : E \subseteq Threads \ {t}
  BY DEF Payment
<1> HIDE DEF N, D, E, p, q
<1>8. tries'[j] + Cardinality(E) + q <= MaxAttempts + N - 1
  BY <1>1, <1>2, <1>3, <1>4, <1>5, <1>6, <1>7, MaxAttemptsAssumption
<1> QED
  BY <1>8 DEF N, E, q

(* A claim clears what its thread had read, and a thread in debt that      *)
(* claims its own recovery pays for it.                                    *)
LEMMA ClaimPays ==
  ASSUME ThreadsOnly, OverrunInv, NEW t \in Actors, Claim(t), NEW j \in Jobs,
         tries'[j] >= MaxAttempts
  PROVE  Payment(j)
<1> USE DEF OverrunInv
<1> DEFINE table == AfterRecovery(t)
<1>1. /\ t \in Threads /\ exec[t] = None
      /\ exec' = exec /\ loaded' = loaded /\ seen' = [seen EXCEPT ![t] = NoneSeen]
  BY DEF ThreadsOnly, Actors, Claim, PhaseOK
<1>2. Debt(j)' \subseteq Debt(j) \ {t} /\ Debt(j)' \subseteq Threads \ {t}
  BY <1>1, JobQueueAssumption DEF Debt, TypeOK, NoneSeen, ThreadsOnly, Actors
<1>3. /\ job[j] \in Row /\ tries[j] \in Nat /\ seen[t][j] \in Nat
      /\ table[j] \in Row /\ table[j].attempts \in Nat
  BY AfterRecoveryType DEF TypeOK, Row
<1>4. \/ Claimable(table[j]) /\ job'[j] = Begun(table[j], table[j].attempts) /\ tries'[j] = tries[j] + 1
      \/ job'[j] = table[j] /\ tries'[j] = tries[j]
  BY DEF Claim
<1>5. table[j].status \in Waiting => t \in Debt(j) \/ Pending(j) = 1
  <2>1. CASE seen[t][j] > 0
    BY <1>1, <1>3, <2>1, RecoveredFields DEF AfterRecovery, Debt, Waiting
  <2>2. CASE ~(seen[t][j] > 0)
    BY <2>2 DEF AfterRecovery, Pending
  <2> QED BY <2>1, <2>2
<1> HIDE DEF table
<1>6. CASE Claimable(table[j]) /\ job'[j] = Begun(table[j], table[j].attempts) /\ tries'[j] = tries[j] + 1
  <2>1. Pending(j)' = 0
    BY <1>3, <1>6, BegunFields DEF Pending, Waiting
  <2>2. t \in Debt(j) \/ Pending(j) = 1
    BY <1>5, <1>6 DEF Claimable
  <2>3. tries[j] >= MaxAttempts \/ tries[j] < MaxAttempts
    BY <1>3, MaxAttemptsAssumption
  <2> QED BY <1>1, <1>2, <1>6, <2>1, <2>2, <2>3 DEF Payment
<1>7. CASE job'[j] = table[j] /\ tries'[j] = tries[j]
  <2>1. CASE t \in Debt(j)
    BY <1>2, <1>7, <2>1 DEF Payment
  <2>2. CASE t \notin Debt(j)
    <3>1. Pending(j)' <= Pending(j)
      BY <1>5, <1>7, <2>2 DEF Pending
    <3> QED BY <1>2, <1>7, <3>1 DEF Payment
  <2> QED BY <2>1, <2>2
<1> QED
  BY <1>4, <1>6, <1>7

(* An executor that fails within the budget it remembers pays by ending. *)
LEMMA FinishPays ==
  ASSUME ThreadsOnly, OverrunInv, NEW t \in Actors, Finish(t), NEW j \in Jobs
  PROVE  Payment(j)
<1> USE DEF OverrunInv
<1>1. /\ t \in Threads /\ exec[t] \in Jobs /\ tries' = tries /\ seen' = seen
      /\ exec' = [exec EXCEPT ![t] = None] /\ loaded' = [loaded EXCEPT ![t] = 0]
      /\ phase[t] = "executing"
  BY DEF ThreadsOnly, Actors, Finish, GoOn, PhaseOK, TypeOK
<1>2. Debt(j)' \subseteq Debt(j)
  BY <1>1, JobQueueAssumption DEF Debt, TypeOK, ThreadsOnly, Actors
<1>3. PICK outcome \in Outcome :
        job' = [job EXCEPT ![exec[t]] = Finished(@, loaded[t], outcome)]
  BY DEF Finish, Outcome
<1>4. CASE exec[t] # j
  BY <1>1, <1>2, <1>3, <1>4 DEF Payment, Pending, TypeOK
<1>5. CASE exec[t] = j
  <2>1. job[j] \in Row /\ loaded[t] \in Nat /\ job'[j] = Finished(job[j], loaded[t], outcome)
    BY <1>3, <1>5 DEF TypeOK
  <2>2. job'[j].status \in Waiting => loaded[t] < MaxAttempts
    BY <2>1, FinishedFields, MaxAttemptsAssumption DEF FinalStatus, Outcome, Waiting
  <2>3. CASE loaded[t] < MaxAttempts
    <3>1. t \in Debt(j)
      BY <1>1, <1>5, <2>3 DEF Debt
    <3>2. seen[t][j] = 0
      BY <1>1 DEF ReadingSeen, TypeOK, ThreadsOnly, Actors
    <3>3. t \notin Debt(j)'
      BY <1>1, <3>2, JobQueueAssumption DEF Debt, TypeOK
    <3> QED BY <1>1, <1>2, <3>1, <3>3 DEF Payment
  <2>4. CASE ~(loaded[t] < MaxAttempts)
    <3>1. Pending(j)' <= Pending(j)
      BY <2>2, <2>4 DEF Pending
    <3> QED BY <1>1, <1>2, <3>1 DEF Payment
  <2> QED BY <2>3, <2>4
<1> QED
  BY <1>4, <1>5

LEMMA EveryStepPays ==
  ASSUME ThreadsOnly, OverrunInv, [Next]_vars, NEW j \in Jobs, tries'[j] >= MaxAttempts
  PROVE  Payment(j)
<1> USE DEF OverrunInv
<1>0. job[j] \in Row /\ tries[j] \in Nat /\ job[j].attempts = tries[j] /\ Threads = Actors
  BY DEF TypeOK, TriesExact, ThreadsOnly, Actors
<1>1. ASSUME UNCHANGED vars PROVE Payment(j)
  BY <1>1 DEF vars, Payment, Debt, Pending
<1>2. ASSUME NEW k \in Jobs, Enqueue(k) \/ BackoffElapses(k) \/ GoesStale(k) PROVE Payment(j)
  <2>1. Debt(j)' = Debt(j) /\ tries' = tries
    BY <1>2 DEF Enqueue, BackoffElapses, GoesStale, Debt
  <2>2. ~(Enqueue(k) /\ k = j)
    BY <1>0, <2>1, MaxAttemptsAssumption DEF Enqueue, AbsentUntried
  <2>3. job'[j].status = job[j].status
    BY <1>0, <1>2, <2>2 DEF Enqueue, BackoffElapses, GoesStale, TypeOK, Row
  <2> QED BY <2>1, <2>3 DEF Payment, Pending
<1>3. ASSUME NEW t \in Actors, Poll(t) PROVE Payment(j)
  <2>1. UNCHANGED <<job, exec, loaded, tries>>
    BY <1>3 DEF Poll
  <2>2. seen' = [seen EXCEPT ![t] = [k \in Jobs |-> IF Abandoned(job[k]) THEN job[k].attempts ELSE 0]]
    BY <1>3 DEF Poll
  <2>3. seen'[t][j] \in {0, tries[j]} /\ \A u \in Actors \ {t} : seen'[u] = seen[u]
    BY <1>0, <2>2 DEF TypeOK
  <2>4. Debt(j)' \subseteq Debt(j)
    BY <1>0, <2>1, <2>3, MaxAttemptsAssumption DEF Debt
  <2> QED BY <2>1, <2>4 DEF Payment, Pending
<1>4. ASSUME NEW t \in Actors, SelectCandidates(t) PROVE Payment(j)
  BY <1>4 DEF SelectCandidates, Payment, Debt, Pending
<1>5. ASSUME NEW t \in Actors, StartClaimed(t) PROVE Payment(j)
  <2>1. PICK k \in Jobs : \/ StartHandler(t, k, job[k].attempts)
                          \/ GoOn(t, held[t] \ {k})
    BY <1>5 DEF StartClaimed, TypeOK
  <2>2. UNCHANGED <<job, seen, tries>> /\ tries[k] = job[k].attempts
    BY <1>5 DEF StartClaimed, TriesExact
  <2>3. /\ exec'[t] = j => loaded'[t] = tries[j]
        /\ \A u \in Actors \ {t} : exec'[u] = exec[u] /\ loaded'[u] = loaded[u]
    BY <2>1, <2>2, JobQueueAssumption DEF StartHandler, GoOn, TypeOK
  <2>4. Debt(j)' \subseteq Debt(j)
    BY <1>0, <2>2, <2>3, MaxAttemptsAssumption DEF Debt
  <2> QED BY <2>2, <2>4 DEF Payment, Pending
<1>6. ASSUME ApiExit PROVE Payment(j)
  <2>1. UNCHANGED <<job, tries>> /\ \A u \in Threads : seen'[u][j] = 0 /\ exec'[u] = None
    BY <1>0, <1>6 DEF ApiExit, Forget, NoneSeen
  <2>2. Debt(j)' = {}
    BY <2>1, JobQueueAssumption DEF Debt
  <2> QED BY <2>1, <2>2 DEF Payment, Pending
<1>7. ASSUME ApiStart PROVE Payment(j)
  <2>1. Debt(j)' = Debt(j) /\ tries' = tries
    BY <1>7 DEF ApiStart, Debt
  <2>2. job'[j].status \in Waiting => job[j].status \in Waiting
    BY <1>0, <1>7, <2>1, StartEffect, MaxAttemptsAssumption DEF Waiting
  <2>3. Pending(j)' <= Pending(j)
    BY <2>2 DEF Pending
  <2> QED BY <2>1, <2>3 DEF Payment
<1> QED
  BY <1>1, <1>2, <1>3, <1>4, <1>5, <1>6, <1>7, ClaimPays, FinishPays, ThreadSteps

LEMMA ReadingSeenNext ==
  ASSUME ThreadsOnly, OverrunInv, [Next]_vars
  PROVE  ReadingSeen'
<1> USE DEF OverrunInv
<1>0. Threads = Actors
  BY DEF ThreadsOnly, Actors
<1>1. ASSUME UNCHANGED <<seen, phase>> PROVE ReadingSeen'
  BY <1>1 DEF ReadingSeen
<1>2. ASSUME NEW t \in Actors, Poll(t) \/ SelectCandidates(t) \/ Claim(t) PROVE ReadingSeen'
  <2>1. \A u \in Actors \ {t} : seen'[u] = seen[u] /\ phase'[u] = phase[u]
    BY <1>2 DEF Poll, SelectCandidates, Claim, TypeOK
  <2>2. phase'[t] \in {"polled", "selected"} \/ \A j \in Jobs : seen'[t][j] = 0
    <3>1. CASE Poll(t) \/ SelectCandidates(t)
      BY <3>1 DEF Poll, SelectCandidates, TypeOK
    <3>2. CASE Claim(t)
      BY <3>2 DEF Claim, TypeOK, NoneSeen
    <3> QED BY <1>2, <3>1, <3>2
  <2> QED BY <1>0, <2>1, <2>2 DEF ReadingSeen
<1>3. ASSUME NEW t \in Actors, StartClaimed(t) \/ Finish(t) PROVE ReadingSeen'
  <2>1. seen' = seen /\ phase[t] \notin {"polled", "selected"}
    BY <1>3 DEF StartClaimed, Finish
  <2>2. \A u \in Actors \ {t} : phase'[u] = phase[u]
    BY <1>3 DEF StartClaimed, Finish, StartHandler, GoOn, TypeOK
  <2> QED BY <1>0, <2>1, <2>2 DEF ReadingSeen
<1>4. ASSUME ApiExit PROVE ReadingSeen'
  BY <1>0, <1>4 DEF ApiExit, Forget, NoneSeen, ReadingSeen
<1>5. ASSUME ApiStart PROVE ReadingSeen'
  BY <1>0, <1>5 DEF ApiStart, ReadingSeen
<1> QED
  BY <1>1, <1>2, <1>3, <1>4, <1>5, ThreadSteps DEF vars, Enqueue, BackoffElapses, GoesStale

(* A row is tried only once it is committed, and never absent again. *)
LEMMA AbsentUntriedNext ==
  ASSUME ThreadsOnly, OverrunInv, [Next]_vars
  PROVE  AbsentUntried'
<1> USE DEF OverrunInv
<1> SUFFICES ASSUME NEW j \in Jobs, job'[j].status = "absent"
             PROVE  job[j].status = "absent" /\ tries'[j] = tries[j]
  BY DEF AbsentUntried
<1>0. job[j] \in Row /\ tries[j] \in Nat
  BY DEF TypeOK
<1>1. ASSUME UNCHANGED <<job, tries>>
      PROVE  job[j].status = "absent" /\ tries'[j] = tries[j]
  BY <1>1
<1>2. ASSUME NEW k \in Jobs, Enqueue(k) \/ BackoffElapses(k) \/ GoesStale(k)
      PROVE  job[j].status = "absent" /\ tries'[j] = tries[j]
  BY <1>0, <1>2 DEF Enqueue, BackoffElapses, GoesStale, TypeOK, Row
<1>3. ASSUME NEW t \in Actors, Claim(t)
      PROVE  job[j].status = "absent" /\ tries'[j] = tries[j]
  <2>1. AfterRecovery(t)[j] \in Row /\ AfterRecovery(t)[j].attempts \in Nat /\ seen[t][j] \in Nat
    BY AfterRecoveryType DEF TypeOK, Row
  <2>2. AfterRecovery(t)[j].status = "absent" => job[j].status = "absent"
    BY <1>0, <2>1, RecoveredFields DEF AfterRecovery
  <2>3. \/ job'[j] = Begun(AfterRecovery(t)[j], AfterRecovery(t)[j].attempts)
        \/ job'[j] = AfterRecovery(t)[j] /\ tries'[j] = tries[j]
    BY <1>3 DEF Claim
  <2>4. Begun(AfterRecovery(t)[j], AfterRecovery(t)[j].attempts).status = "running"
    BY <2>1, BegunFields
  <2> QED BY <2>2, <2>3, <2>4
<1>4. ASSUME NEW t \in Actors, Finish(t)
      PROVE  job[j].status = "absent" /\ tries'[j] = tries[j]
  <2>1. exec[t] \in Jobs /\ tries' = tries
    BY <1>4 DEF Finish, PhaseOK, TypeOK
  <2>2. PICK outcome \in Outcome :
          job' = [job EXCEPT ![exec[t]] = Finished(@, loaded[t], outcome)]
    BY <1>4 DEF Finish, Outcome
  <2>3. job[exec[t]] \in Row /\ loaded[t] \in Nat
    BY <2>1 DEF TypeOK
  <2>4. Finished(job[exec[t]], loaded[t], outcome).status # "absent"
    BY <2>3, FinishedFields DEF FinalStatus, Outcome
  <2> QED BY <2>1, <2>2, <2>4 DEF TypeOK
<1>5. ASSUME ApiStart
      PROVE  job[j].status = "absent" /\ tries'[j] = tries[j]
  BY <1>5, StartEffect DEF ApiStart
<1> QED
  BY <1>1, <1>2, <1>3, <1>4, <1>5, ThreadSteps
  DEF vars, Poll, SelectCandidates, StartClaimed, ApiExit

LEMMA OverrunNext ==
  ASSUME ThreadsOnly
  PROVE  OverrunInv /\ [Next]_vars => OverrunInv'
<1> SUFFICES ASSUME OverrunInv, [Next]_vars PROVE OverrunInv'
  OBVIOUS
<1>1. TypeOK' /\ PhaseOK'
  BY TypeNext, PhaseNext DEF OverrunInv
<1>2. TriesExact'
  BY TriesNext DEF OverrunInv
<1>3. ReadingSeen' /\ AbsentUntried'
  BY ReadingSeenNext, AbsentUntriedNext
<1>4. DebtPays'
  <2>1. ASSUME NEW j \in Jobs
        PROVE  tries'[j] >= MaxAttempts =>
                 tries'[j] + Cardinality(Debt(j)') + Pending(j)' <= MaxAttempts + Cardinality(Threads) - 1
    <3>1. tries'[j] >= MaxAttempts => Payment(j)
      BY EveryStepPays
    <3> QED BY <3>1, PaymentKeeps DEF OverrunInv
  <2> QED BY <2>1 DEF DebtPays
<1> QED
  BY <1>1, <1>2, <1>3, <1>4 DEF OverrunInv

(* However long handlers run, n worker threads start a job at most n - 1   *)
(* times beyond its budget: a thread that is out of date revives a job     *)
(* given up once, and one thread alone never does.                         *)
THEOREM SlowHandlersOverrunLittle ==
  ASSUME ThreadsOnly, Threads # {}
  PROVE  Spec => []OverrunBounded
<1>1. Init => OverrunInv
  <2>1. Init => TriesExact /\ ReadingSeen /\ AbsentUntried /\ DebtPays
    BY MaxAttemptsAssumption
    DEF Init, TriesExact, ReadingSeen, AbsentUntried, DebtPays, Absent, NoneSeen, Actors
  <2> QED BY <2>1, TypeInit DEF OverrunInv
<1>2. OverrunInv => OverrunBounded
  <2> SUFFICES ASSUME OverrunInv, NEW j \in Jobs
               PROVE  tries[j] <= MaxAttempts + Cardinality(Threads) - 1
    BY DEF OverrunBounded
  <2>1. tries[j] \in Nat /\ Pending(j) \in {0, 1} /\ Debt(j) \in SUBSET Threads
    BY DEF OverrunInv, TypeOK, Pending, Debt
  <2>2. Cardinality(Debt(j)) \in Nat /\ Cardinality(Threads) \in Nat /\ Cardinality(Threads) # 0
    BY <2>1, DebtFinite, JobQueueAssumption, FS_EmptySet
  <2>3. tries[j] >= MaxAttempts =>
          tries[j] + Cardinality(Debt(j)) + Pending(j) <= MaxAttempts + Cardinality(Threads) - 1
    BY DEF OverrunInv, DebtPays
  <2> QED BY <2>1, <2>2, <2>3, MaxAttemptsAssumption
<1> QED
  BY <1>1, <1>2, OverrunNext, PTL DEF Spec

-----------------------------------------------------------------------------
(* The queue behind Redis (RqDispatch): sweeps and RQ workers touch only   *)
(* rows that are committed, and no step takes a committed row back.        *)
Committed(j) == job[j].status # "absent"

TouchesCommitted ==
  \A a \in Actors, j \in Jobs :
    j \in held[a] \/ exec[a] = j \/ seen[a][j] > 0 => Committed(j)

OpenUncommitted == open \subseteq Jobs /\ inbox \subseteq Jobs /\ \A j \in open : ~Committed(j)

QueueInv == TypeOK /\ PhaseOK /\ Counted /\ BudgetSpent
RqInv    == QueueInv /\ TouchesCommitted /\ OpenUncommitted

(* The steps of the clock, the sweeps and the workers. *)
RunnerStep ==
  \/ UNCHANGED vars
  \/ \E j \in Jobs : BackoffElapses(j) \/ GoesStale(j)
  \/ \E a \in Actors : \/ Poll(a) \/ SelectDue(a) \/ ReadNext(a) \/ AnyLoad(a)
                       \/ ExecuteJob(a) \/ Finish(a)
  \/ \E s \in Sweepers : SweeperExit(s)

LEMMA RqSteps ==
  ASSUME inbox \subseteq Jobs, [RqNext]_rqVars
  PROVE  \/ \E j \in Jobs : Flush(j) \/ Commit(j) \/ RollBack(j)
         \/ \E w \in Callers : WorkerExit(w) /\ UNCHANGED <<open, inbox>>
         \/ [Next]_vars /\ RunnerStep /\ open' = open /\ inbox' \subseteq inbox
<1>1. ASSUME NEW w \in Callers, Take(w)
      PROVE  [Next]_vars /\ RunnerStep /\ open' = open /\ inbox' \subseteq inbox
  <2>1. PICK j \in inbox : /\ inbox' = inbox \ {j}
                           /\ open' = open
                           /\ LoadRow(w, j) \/ UNCHANGED vars
    BY <1>1 DEF Take
  <2>2. CASE UNCHANGED vars
    BY <2>1, <2>2 DEF RunnerStep
  <2>3. CASE LoadRow(w, j)
    <3>1. j \in Jobs /\ w \in Actors
      BY DEF Actors
    <3>2. CallerStep(w) /\ AnyLoad(w)
      BY <2>3, <3>1 DEF CallerStep, AnyLoad
    <3> QED BY <2>1, <3>1, <3>2 DEF Next, RunnerStep
  <2> QED BY <2>1, <2>2, <2>3
<1>2. ASSUME NEW j \in Jobs, BackoffElapses(j) \/ GoesStale(j)
      PROVE  [Next]_vars /\ RunnerStep
  BY <1>2 DEF Next, RunnerStep
<1>3. ASSUME NEW s \in Sweepers, SweeperStep(s) \/ SweeperExit(s)
      PROVE  [Next]_vars /\ RunnerStep
  BY <1>3 DEF Next, RunnerStep, SweeperStep, Actors
<1>4. ASSUME NEW w \in Callers, ExecuteJob(w) \/ Finish(w)
      PROVE  [Next]_vars /\ RunnerStep
  BY <1>4 DEF Next, RunnerStep, CallerStep, Actors
<1>5. CASE UNCHANGED rqVars
  BY <1>5 DEF rqVars, RunnerStep
<1> QED
  BY <1>1, <1>2, <1>3, <1>4, <1>5 DEF RqNext

(* The steps that JobQueue does not have keep what its proofs rest on. *)
LEMMA RqQueueNext ==
  ASSUME QueueInv, inbox \subseteq Jobs, [RqNext]_rqVars
  PROVE  QueueInv'
<1> USE DEF QueueInv
<1>1. ASSUME [Next]_vars PROVE QueueInv'
  BY <1>1, TypeNext, PhaseNext, CountedNext, BudgetNext
<1>2. ASSUME NEW j \in Jobs, Commit(j) PROVE [Next]_vars
  BY <1>2 DEF Commit, Next
<1>3. ASSUME exits' \in Nat, UNCHANGED <<job, phase, seen, held, exec, loaded, tries>>
      PROVE  QueueInv'
  BY <1>3 DEF TypeOK, PhaseOK, Counted, Knows, BudgetSpent
<1>4. ASSUME NEW j \in Jobs, Flush(j) \/ RollBack(j) PROVE QueueInv'
  BY <1>3, <1>4 DEF Flush, RollBack, vars, TypeOK
<1>5. ASSUME NEW w \in Callers, WorkerExit(w) PROVE QueueInv'
  <2>1. /\ UNCHANGED <<job, tries>> /\ exits' = exits + 1
        /\ phase' = [a \in Actors |-> IF a = w THEN "idle" ELSE phase[a]]
        /\ seen'  = [a \in Actors |-> IF a = w THEN NoneSeen ELSE seen[a]]
        /\ held'  = [a \in Actors |-> IF a = w THEN {} ELSE held[a]]
        /\ exec'  = [a \in Actors |-> IF a = w THEN None ELSE exec[a]]
        /\ loaded' = [a \in Actors |-> IF a = w THEN 0 ELSE loaded[a]]
    BY <1>5 DEF WorkerExit, Forget
  <2>2. TypeOK'
    BY <2>1 DEF TypeOK, Phases, NoneSeen
  <2>3. PhaseOK'
    BY <2>1 DEF PhaseOK, TypeOK
  <2>4. Counted'
    BY <2>1, JobQueueAssumption DEF Counted, Knows, NoneSeen, TypeOK, IsFirst
  <2>5. BudgetSpent'
    BY <2>1 DEF BudgetSpent
  <2> QED BY <2>2, <2>3, <2>4, <2>5
<1> QED
  BY <1>1, <1>2, <1>4, <1>5, RqSteps

(* A runner takes no row back, commits none, and takes up committed ones. *)
LEMMA RunnerTouches ==
  ASSUME TypeOK, PhaseOK, TouchesCommitted, RunnerStep
  PROVE  /\ \A j \in Jobs : Committed(j)' <=> Committed(j)
         /\ TouchesCommitted'
<1> USE DEF Committed
<1>0. ASSUME NEW j \in Jobs, NEW a \in Actors
      PROVE  /\ AfterRecovery(a)[j].status # "absent" <=> Committed(j)
             /\ Claimable(AfterRecovery(a)[j]) => Committed(j)
  <2>1. job[j] \in Row /\ seen[a][j] \in Nat
    BY DEF TypeOK
  <2>2. CASE seen[a][j] > 0
    <3>1. AfterRecovery(a)[j].status \in {"failed", "dead_letter"}
      BY <2>1, <2>2, RecoveredFields DEF AfterRecovery
    <3>2. Committed(j)
      BY <2>2 DEF TouchesCommitted
    <3> QED BY <3>1, <3>2
  <2>3. CASE ~(seen[a][j] > 0)
    BY <2>3 DEF AfterRecovery, Claimable, Waiting
  <2> QED BY <2>2, <2>3
<1>1. CASE UNCHANGED vars
  BY <1>1 DEF vars, TouchesCommitted
<1>2. ASSUME NEW k \in Jobs, BackoffElapses(k) \/ GoesStale(k)
      PROVE  /\ \A j \in Jobs : Committed(j)' <=> Committed(j)
             /\ TouchesCommitted'
  <2>1. UNCHANGED <<seen, held, exec>> /\ \A j \in Jobs : job'[j].status = job[j].status
    BY <1>2 DEF BackoffElapses, GoesStale, TypeOK, Row
  <2> QED BY <2>1 DEF TouchesCommitted
<1>3. ASSUME NEW a \in Actors, Poll(a)
      PROVE  /\ \A j \in Jobs : Committed(j)' <=> Committed(j)
             /\ TouchesCommitted'
  <2>1. /\ UNCHANGED <<job, held, exec>>
        /\ \A b \in Actors, j \in Jobs :
             seen'[b][j] > 0 => seen[b][j] > 0 \/ job[j].status = "running"
    BY <1>3 DEF Poll, Abandoned, TypeOK
  <2> QED BY <2>1 DEF TouchesCommitted
<1>4. ASSUME NEW a \in Actors, SelectDue(a)
      PROVE  /\ \A j \in Jobs : Committed(j)' <=> Committed(j)
             /\ TouchesCommitted'
  <2>1. \A j \in Jobs : Committed(j)' <=> Committed(j)
    BY <1>0, <1>4 DEF SelectDue
  <2>2. \A j \in FirstOf(DueRows(AfterRecovery(a)), SweepLimit) : j \in Jobs /\ Committed(j)
    BY <1>0 DEF FirstOf, DueRows
  <2>3. /\ exec' = exec /\ seen' = [seen EXCEPT ![a] = NoneSeen]
        /\ held' = [held EXCEPT ![a] = FirstOf(DueRows(AfterRecovery(a)), SweepLimit)]
    BY <1>4 DEF SelectDue, ReadFirst
  <2>4. \A b \in Actors, j \in Jobs :
          j \in held'[b] \/ exec'[b] = j \/ seen'[b][j] > 0 => Committed(j)
    BY <2>2, <2>3 DEF TouchesCommitted, NoneSeen, TypeOK
  <2> QED BY <2>1, <2>4 DEF TouchesCommitted
<1>5. ASSUME NEW a \in Actors, ReadNext(a)
      PROVE  /\ \A j \in Jobs : Committed(j)' <=> Committed(j)
             /\ TouchesCommitted'
  BY <1>5 DEF ReadNext, ReadFirst, TouchesCommitted, TypeOK
<1>6. ASSUME NEW a \in Actors, AnyLoad(a)
      PROVE  /\ \A j \in Jobs : Committed(j)' <=> Committed(j)
             /\ TouchesCommitted'
  <2>1. PICK k \in Jobs : /\ Committed(k) /\ UNCHANGED <<job, seen, exec>>
                          /\ held' = [held EXCEPT ![a] = {k}]
    BY <1>6 DEF AnyLoad, LoadRow, ReadFirst
  <2> QED BY <2>1 DEF TouchesCommitted, TypeOK
<1>7. ASSUME NEW a \in Actors, ExecuteJob(a)
      PROVE  /\ \A j \in Jobs : Committed(j)' <=> Committed(j)
             /\ TouchesCommitted'
  <2>1. PICK k \in held[a] : /\ job' = [job EXCEPT ![k] = Begun(@, loaded[a])]
                             /\ StartHandler(a, k, loaded[a] + 1)
    BY <1>7 DEF ExecuteJob
  <2>2. k \in Jobs /\ Committed(k)
    BY DEF TouchesCommitted, TypeOK
  <2>3. job[k] \in Row /\ loaded[a] \in Nat
    BY <2>2 DEF TypeOK
  <2>4. Begun(job[k], loaded[a]).status = "running"
    BY <2>3, BegunFields
  <2>5. \A j \in Jobs : Committed(j)' <=> Committed(j)
    BY <2>1, <2>2, <2>4 DEF TypeOK
  <2>6. seen' = seen /\ held' = [held EXCEPT ![a] = @ \ {k}] /\ exec' = [exec EXCEPT ![a] = k]
    BY <1>7, <2>1 DEF ExecuteJob, StartHandler
  <2> QED BY <2>2, <2>5, <2>6 DEF TouchesCommitted, TypeOK
<1>8. ASSUME NEW a \in Actors, Finish(a)
      PROVE  /\ \A j \in Jobs : Committed(j)' <=> Committed(j)
             /\ TouchesCommitted'
  <2>1. exec[a] \in Jobs
    BY <1>8 DEF Finish, PhaseOK, TypeOK
  <2>2. PICK outcome \in Outcome :
          job' = [job EXCEPT ![exec[a]] = Finished(@, loaded[a], outcome)]
    BY <1>8 DEF Finish, Outcome
  <2>3. job[exec[a]] \in Row /\ loaded[a] \in Nat /\ Committed(exec[a])
    BY <2>1 DEF TypeOK, TouchesCommitted
  <2>4. Finished(job[exec[a]], loaded[a], outcome).status # "absent"
    BY <2>3, FinishedFields DEF FinalStatus, Outcome
  <2>5. \A j \in Jobs : Committed(j)' <=> Committed(j)
    BY <2>1, <2>2, <2>3, <2>4 DEF TypeOK
  <2>6. seen' = seen /\ held' = [held EXCEPT ![a] = held[a]] /\ exec' = [exec EXCEPT ![a] = None]
    BY <1>8 DEF Finish, GoOn
  <2> QED BY <2>5, <2>6, JobQueueAssumption DEF TouchesCommitted, TypeOK
<1>9. ASSUME NEW s \in Sweepers, SweeperExit(s)
      PROVE  /\ \A j \in Jobs : Committed(j)' <=> Committed(j)
             /\ TouchesCommitted'
  BY <1>9, JobQueueAssumption DEF SweeperExit, Forget, TouchesCommitted, NoneSeen
<1> QED
  BY <1>1, <1>2, <1>3, <1>4, <1>5, <1>6, <1>7, <1>8, <1>9 DEF RunnerStep

LEMMA RqCommittedNext ==
  ASSUME RqInv, [RqNext]_rqVars
  PROVE  TouchesCommitted' /\ OpenUncommitted'
<1> USE DEF RqInv, QueueInv
<1>0. inbox \subseteq Jobs
  BY DEF OpenUncommitted
<1>1. ASSUME NEW j \in Jobs, Flush(j) PROVE TouchesCommitted' /\ OpenUncommitted'
  BY <1>1 DEF Flush, vars, TouchesCommitted, OpenUncommitted, Committed
<1>2. ASSUME NEW j \in Jobs, Commit(j) PROVE TouchesCommitted' /\ OpenUncommitted'
  <2>1. /\ open' = open \ {j} /\ inbox' = inbox /\ UNCHANGED <<seen, held, exec>>
        /\ job' = [job EXCEPT ![j].status = "queued"]
    BY <1>2 DEF Commit, Enqueue
  <2>2. \A k \in Jobs : Committed(k)' <=> Committed(k) \/ k = j
    BY <2>1 DEF Committed, TypeOK, Row
  <2> QED BY <2>1, <2>2 DEF TouchesCommitted, OpenUncommitted
<1>3. ASSUME NEW j \in Jobs, RollBack(j) PROVE TouchesCommitted' /\ OpenUncommitted'
  BY <1>3 DEF RollBack, TouchesCommitted, OpenUncommitted, Committed
<1>4. ASSUME NEW w \in Callers, WorkerExit(w), UNCHANGED <<open, inbox>>
      PROVE  TouchesCommitted' /\ OpenUncommitted'
  BY <1>4, JobQueueAssumption
  DEF WorkerExit, Forget, TouchesCommitted, OpenUncommitted, Committed, NoneSeen
<1>5. ASSUME RunnerStep, open' = open, inbox' \subseteq inbox
      PROVE  TouchesCommitted' /\ OpenUncommitted'
  BY <1>5, RunnerTouches DEF OpenUncommitted
<1> QED
  BY <1>0, <1>1, <1>2, <1>3, <1>4, <1>5, RqSteps

LEMMA RqInvariant == RqSpec => []RqInv
<1>1. RqInit => RqInv
  <2>1. Init => Counted /\ BudgetSpent /\ TouchesCommitted
    BY JobQueueAssumption
    DEF Init, Counted, BudgetSpent, NoneSeen, Absent, TouchesCommitted
  <2> QED BY <2>1, TypeInit DEF RqInit, RqInv, QueueInv, OpenUncommitted
<1>2. RqInv /\ [RqNext]_rqVars => RqInv'
  BY RqQueueNext, RqCommittedNext DEF RqInv, OpenUncommitted
<1> QED
  BY <1>1, <1>2, PTL DEF RqSpec

(* An id pushed before its row was committed, or whose row was rolled      *)
(* back, starts nothing: a sweep or a worker only ever holds committed     *)
(* rows, however late or often the id is taken.                            *)
THEOREM RolledBackRowsNeverRun == RqSpec => []RolledBackNeverRuns
<1>1. RqInv => RolledBackNeverRuns
  BY DEF RqInv, QueueInv, TypeOK, TouchesCommitted, OpenUncommitted, Committed,
         RolledBackNeverRuns
<1> QED
  BY <1>1, RqInvariant, PTL

(* The RQ workers and the sweeps share no claim, and still no job is given *)
(* up before it was tried max_attempts times.                              *)
THEOREM RqDeadLetterMeansBudgetSpent == RqSpec => []BudgetSpent
  BY RqInvariant, PTL DEF RqInv, QueueInv
=============================================================================
