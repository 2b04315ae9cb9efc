------------------------ MODULE ClaimPipelineProofs ------------------------
(***************************************************************************)
(* With any number of workers a running row is held by each session that   *)
(* works, and none ends twice.  With one worker, as the embedded worker is *)
(* configured by default, no official article is forgotten and the page    *)
(* ends up current, for any number of articles, faults and collections and *)
(* any batch size.                                                         *)
(***************************************************************************)
EXTENDS ClaimPipeline, FiniteSetTheorems, TLAPS

OneWorker == \E w : Workers = {w}

-----------------------------------------------------------------------------
(* The rows, count by count. *)

LEMMA AddedRows ==
  ASSUME NEW rows \in [Keys -> Rows], NEW new
  PROVE  /\ Added(rows, new) \in [Keys -> Rows]
         /\ \A k \in Keys :
              /\ Added(rows, new)[k].queued = rows[k].queued + (IF k \in new THEN 1 ELSE 0)
              /\ Added(rows, new)[k].running = rows[k].running
              /\ Added(rows, new)[k].lost = rows[k].lost
              /\ Added(rows, new)[k].failed = rows[k].failed
<1>1. ASSUME NEW k \in Keys
      PROVE  LET r == IF k \in new THEN [rows[k] EXCEPT !.queued = @ + 1] ELSE rows[k]
             IN /\ r \in Rows
                /\ r.queued = rows[k].queued + (IF k \in new THEN 1 ELSE 0)
                /\ r.running = rows[k].running /\ r.lost = rows[k].lost /\ r.failed = rows[k].failed
  <2>1. rows[k] \in Rows
    OBVIOUS
  <2> QED BY <2>1 DEF Rows
<1> QED
  BY <1>1 DEF Added

LEMMA EndedRows ==
  ASSUME jobs \in [Keys -> Rows], NEW e \in Keys, jobs[e].running > 0
  PROVE  /\ Ended(e) \in [Keys -> Rows]
         /\ \A k \in Keys :
              /\ Ended(e)[k].running = jobs[k].running - (IF k = e THEN 1 ELSE 0)
              /\ Ended(e)[k].queued = jobs[k].queued
              /\ Ended(e)[k].lost = jobs[k].lost
              /\ Ended(e)[k].failed = jobs[k].failed
<1>1. jobs[e] \in Rows /\ \A k \in Keys : jobs[k] \in Rows
  OBVIOUS
<1>2. [jobs[e] EXCEPT !.running = @ - 1] \in Rows
  BY <1>1 DEF Rows
<1>3. Ended(e) \in [Keys -> Rows]
  BY <1>2 DEF Ended
<1>4. \A k \in Keys : Ended(e)[k] = IF k = e THEN [jobs[k] EXCEPT !.running = @ - 1] ELSE jobs[k]
  BY DEF Ended
<1> QED
  BY <1>1, <1>3, <1>4 DEF Rows

-----------------------------------------------------------------------------
(* What the page shows is well formed. *)

Typed ==
  /\ attached \subseteq Articles /\ claims \subseteq Articles
  /\ verdict \in [Articles -> SUBSET Articles]

LEMMA ViewType == Typed => View \in Columns
<1> SUFFICES ASSUME Typed PROVE View \in Columns
  OBVIOUS
<1>1. [c \in claims |-> verdict[c]] \in [claims -> SUBSET Articles]
  BY DEF Typed
<1>2. [c \in claims |-> verdict[c]] \in UNION {[some -> SUBSET Articles] : some \in SUBSET Articles}
  BY <1>1, Zenon DEF Typed
<1> QED
  BY <1>2 DEF Typed, View, Columns

LEMMA WrittenType ==
  ASSUME NEW w, at[w] \in InHandler, page \in Columns
  PROVE  Written(w) \in Columns
<1>1. at[w].view \in Columns /\ at[w].loaded \in Columns
  BY DEF InHandler
<1> QED
  BY <1>1 DEF Written, Columns

-----------------------------------------------------------------------------
(* Every row in status running is held by a worker: claimed in its batch, or *)
(* begun.                                                                   *)
Claimed(k) == {w \in Workers : k \in batch[w]}
Begun(k) == {w \in Workers : at[w].stage # "idle" /\ at[w].key = k}
Counted == \A k \in Keys : jobs[k].running = Cardinality(Claimed(k)) + Cardinality(Begun(k))

RowsInv == TypeOK /\ Counted

LEMMA RowsInit == Init => RowsInv
<1> SUFFICES ASSUME Init PROVE RowsInv
  OBVIOUS
<1> USE PipelineAssumption DEF Init
<1>1. NoJobs \in Rows
  BY DEF NoJobs, Row, Rows
<1>2. page \in Columns
  BY ViewType DEF Typed
<1>3. TypeOK
  BY <1>1, <1>2 DEF TypeOK
<1>4. ASSUME NEW k \in Keys PROVE jobs[k].running = 0 /\ Claimed(k) = {} /\ Begun(k) = {}
  BY DEF Claimed, Begun, Idle, NoJobs, Row
<1> QED
  BY <1>3, <1>4, FS_EmptySet DEF RowsInv, Counted

(* Two sets of workers that differ in w at most. *)
LEMMA OneMember ==
  ASSUME NEW S, NEW T, NEW w, IsFiniteSet(S), IsFiniteSet(T), S \ {w} = T \ {w}
  PROVE  Cardinality(T) = Cardinality(S) - (IF w \in S THEN 1 ELSE 0) + (IF w \in T THEN 1 ELSE 0)
<1>1. ASSUME NEW X, IsFiniteSet(X)
      PROVE  /\ Cardinality(X) \in Nat /\ Cardinality(X \ {w}) \in Nat
             /\ Cardinality(X) = Cardinality(X \ {w}) + (IF w \in X THEN 1 ELSE 0)
  <2>1. Cardinality(X) \in Nat
    BY <1>1, FS_CardinalityType
  <2>2. CASE w \in X
    <3>1. IsFiniteSet(X \ {w}) /\ Cardinality(X \ {w}) = Cardinality(X) - 1
      BY <1>1, <2>2, FS_RemoveElement
    <3> QED BY <2>1, <2>2, <3>1, FS_CardinalityType
  <2>3. CASE w \notin X
    <3>1. X \ {w} = X
      BY <2>3
    <3>2. Cardinality(X \ {w}) = Cardinality(X)
      BY <3>1, Zenon
    <3> QED BY <2>1, <2>3, <3>2
  <2> QED BY <2>2, <2>3
<1>2. /\ Cardinality(S) = Cardinality(S \ {w}) + (IF w \in S THEN 1 ELSE 0)
      /\ Cardinality(T) = Cardinality(S \ {w}) + (IF w \in T THEN 1 ELSE 0)
      /\ Cardinality(S \ {w}) \in Nat
  BY <1>1
<1> QED
  BY <1>2

LEMMA HoldersAreFinite ==
  \A k : /\ IsFiniteSet(Claimed(k)) /\ Cardinality(Claimed(k)) \in Nat
         /\ IsFiniteSet(Begun(k)) /\ Cardinality(Begun(k)) \in Nat
<1> SUFFICES ASSUME NEW k
             PROVE  /\ IsFiniteSet(Claimed(k)) /\ Cardinality(Claimed(k)) \in Nat
                    /\ IsFiniteSet(Begun(k)) /\ Cardinality(Begun(k)) \in Nat
  OBVIOUS
<1>1. Claimed(k) \subseteq Workers /\ Begun(k) \subseteq Workers
  BY DEF Claimed, Begun
<1> QED
  BY <1>1, FS_Subset, FS_CardinalityType, PipelineAssumption

(* One worker claims, begins, ends or loses rows. *)
LEMMA CountStep ==
  ASSUME RowsInv, NEW w \in Workers,
         \A u \in Workers : u # w => batch'[u] = batch[u] /\ at'[u] = at[u],
         \A k \in Keys : jobs'[k].running = jobs[k].running - Holds(w, k) + Holds(w, k)'
  PROVE  Counted'
<1> SUFFICES ASSUME NEW k \in Keys
             PROVE  jobs'[k].running = Cardinality(Claimed(k)') + Cardinality(Begun(k)')
  BY DEF Counted
<1> DEFINE one(b) == IF b THEN 1 ELSE 0
<1>1. Claimed(k) \ {w} = Claimed(k)' \ {w} /\ Begun(k) \ {w} = Begun(k)' \ {w}
  BY DEF Claimed, Begun
<1>2. IsFiniteSet(Claimed(k)') /\ IsFiniteSet(Begun(k)')
  <2>1. Claimed(k)' \subseteq Workers /\ Begun(k)' \subseteq Workers
    BY DEF Claimed, Begun
  <2> QED BY <2>1, FS_Subset, PipelineAssumption
<1>3. /\ Cardinality(Claimed(k)') = Cardinality(Claimed(k)) - one(w \in Claimed(k)) + one(w \in Claimed(k)')
      /\ Cardinality(Begun(k)') = Cardinality(Begun(k)) - one(w \in Begun(k)) + one(w \in Begun(k)')
  BY <1>1, <1>2, HoldersAreFinite, OneMember
<1>4. /\ Holds(w, k) = one(w \in Claimed(k)) + one(w \in Begun(k))
      /\ Holds(w, k)' = one(w \in Claimed(k)') + one(w \in Begun(k)')
  BY DEF Holds, Claimed, Begun
<1>5. jobs[k].running = Cardinality(Claimed(k)) + Cardinality(Begun(k))
  BY DEF RowsInv, Counted
<1>6. /\ one(w \in Claimed(k)) \in Nat /\ one(w \in Begun(k)) \in Nat
      /\ one(w \in Claimed(k)') \in Nat /\ one(w \in Begun(k)') \in Nat
  OBVIOUS
<1> HIDE DEF one
<1> QED
  BY <1>3, <1>4, <1>5, <1>6, HoldersAreFinite

(* What a worker holds is in status running. *)
LEMMA HeldRuns ==
  ASSUME RowsInv, NEW w \in Workers, NEW k \in Keys
  PROVE  Holds(w, k) \in Nat /\ Holds(w, k) <= jobs[k].running
<1>1. jobs[k].running = Cardinality(Claimed(k)) + Cardinality(Begun(k))
  BY DEF RowsInv, Counted
<1>2. /\ Claimed(k) # {} => Cardinality(Claimed(k)) > 0
      /\ Begun(k) # {} => Cardinality(Begun(k)) > 0
  BY HoldersAreFinite, FS_EmptySet
<1>3. /\ k \in batch[w] => Claimed(k) # {}
      /\ at[w].stage # "idle" /\ at[w].key = k => Begun(k) # {}
  BY DEF Claimed, Begun
<1>4. Cardinality(Claimed(k)) \in Nat /\ Cardinality(Begun(k)) \in Nat
  BY HoldersAreFinite
<1> QED
  BY <1>1, <1>2, <1>3, <1>4 DEF Holds

(* What the worker is busy with has a row in status running. *)
LEMMA BusyRunning ==
  ASSUME RowsInv, NEW w \in Workers, at[w].stage # "idle"
  PROVE  /\ at[w] \in InHandler
         /\ at[w].key \in Keys
         /\ jobs[at[w].key].running > 0
<1>1. at[w] \in InHandler
  BY DEF RowsInv, TypeOK, Idle
<1>2. at[w].key \in Keys
  BY <1>1 DEF InHandler
<1>3. Holds(w, at[w].key) > 0
  BY DEF Holds
<1>4. jobs[at[w].key] \in Rows
  BY <1>2 DEF RowsInv, TypeOK
<1> QED
  BY <1>1, <1>2, <1>3, <1>4, HeldRuns DEF Rows

(* Nobody claims or ends a row. *)
LEMMA CountSame ==
  ASSUME RowsInv, UNCHANGED <<batch, at>>, \A k \in Keys : jobs'[k].running = jobs[k].running
  PROVE  Counted'
<1>1. \A k : Claimed(k)' = Claimed(k) /\ Begun(k)' = Begun(k)
  BY DEF Claimed, Begun
<1> QED
  BY <1>1 DEF RowsInv, Counted

LEMMA RunningCounts == RowsInv => \A k \in Keys : jobs[k].running \in Nat
BY DEF RowsInv, TypeOK, Rows

LEMMA PollRows ==
  ASSUME RowsInv, NEW w \in Workers, Poll(w)
  PROVE  RowsInv'
<1> USE DEF RowsInv
<1>1. PICK some \in SUBSET {k \in Keys : jobs[k].queued + jobs[k].failed > 0} :
        /\ batch' = [batch EXCEPT ![w] = some]
        /\ jobs' = [k \in Keys |-> IF k \in some THEN ClaimedRow(jobs[k]) ELSE jobs[k]]
  BY DEF Poll
<1>2. ASSUME NEW k \in Keys
      PROVE  /\ jobs'[k] \in Rows
             /\ jobs'[k].running = jobs[k].running + (IF k \in some THEN 1 ELSE 0)
  <2>1. jobs[k] \in Rows
    BY DEF TypeOK
  <2>2. k \in some => jobs[k].queued + jobs[k].failed > 0
    OBVIOUS
  <2> QED BY <1>1, <2>1, <2>2 DEF Rows, Row, ClaimedRow
<1>3. TypeOK'
  BY <1>1, <1>2 DEF TypeOK, Poll, data
<1>4. Counted'
  <2>1. \A u \in Workers : u # w => batch'[u] = batch[u] /\ at'[u] = at[u]
    BY <1>1 DEF Poll, TypeOK
  <2>2. \A k \in Keys : jobs'[k].running = jobs[k].running - Holds(w, k) + Holds(w, k)'
    BY <1>1, <1>2, RunningCounts DEF Holds, Poll, TypeOK
  <2> QED BY <2>1, <2>2, CountStep
<1> QED
  BY <1>3, <1>4

LEMMA FailRows ==
  ASSUME RowsInv, NEW w \in Workers, Fail(w)
  PROVE  RowsInv'
<1> USE DEF RowsInv
<1> DEFINE e == at[w].key
<1>1. e \in Keys /\ jobs[e].running > 0
  BY BusyRunning DEF Fail
<1>2. ASSUME NEW k \in Keys
      PROVE  /\ jobs'[k] \in Rows
             /\ jobs'[k].running = jobs[k].running - (IF k = e THEN 1 ELSE 0)
  <2>1. jobs[k] \in Rows
    BY DEF TypeOK
  <2>2. jobs'[k] = IF k = e THEN FailedRow(jobs[k]) ELSE jobs[k]
    BY <1>1 DEF Fail, TypeOK
  <2> QED BY <1>1, <2>1, <2>2 DEF Rows, Row, FailedRow
<1>3. jobs' \in [Keys -> Rows]
  BY <1>2 DEF Fail, TypeOK
<1>4. TypeOK'
  BY <1>3, PipelineAssumption DEF TypeOK, Fail, data
<1>5. Counted'
  <2>1. \A u \in Workers : u # w => batch'[u] = batch[u] /\ at'[u] = at[u]
    BY DEF Fail, TypeOK
  <2>2. \A k \in Keys : jobs'[k].running = jobs[k].running - Holds(w, k) + Holds(w, k)'
    BY <1>1, <1>2, RunningCounts DEF Holds, Fail, TypeOK, Idle
  <2> QED BY <2>1, <2>2, CountStep
<1> QED
  BY <1>4, <1>5

LEMMA ExitRows ==
  ASSUME RowsInv, NEW w \in Workers, Exit(w)
  PROVE  RowsInv'
<1> USE DEF RowsInv
<1>1. ASSUME NEW k \in Keys
      PROVE  jobs'[k] \in Rows /\ jobs'[k].running = jobs[k].running - Holds(w, k)
  <2>1. jobs[k] \in Rows /\ Holds(w, k) <= jobs[k].running /\ Holds(w, k) \in Nat
    BY HeldRuns DEF TypeOK
  <2>2. jobs'[k] = LostRow(jobs[k], Holds(w, k))
    BY DEF Exit
  <2> QED BY <2>1, <2>2 DEF Rows, Row, LostRow
<1>2. jobs' \in [Keys -> Rows]
  BY <1>1 DEF Exit
<1>3. TypeOK'
  BY <1>2, PipelineAssumption DEF TypeOK, Exit, data
<1>4. Counted'
  <2>1. \A u \in Workers : u # w => batch'[u] = batch[u] /\ at'[u] = at[u]
    BY DEF Exit, TypeOK
  <2>2. \A k \in Keys : jobs'[k].running = jobs[k].running - Holds(w, k) + Holds(w, k)'
    BY <1>1, RunningCounts DEF Holds, Exit, TypeOK, Idle
  <2> QED BY <2>1, <2>2, CountStep
<1> QED
  BY <1>3, <1>4

LEMMA RecoverRows ==
  ASSUME RowsInv, NEW e \in Keys, Recover(e)
  PROVE  RowsInv'
<1> USE DEF RowsInv
<1>1. ASSUME NEW k \in Keys
      PROVE  jobs'[k] \in Rows /\ jobs'[k].running = jobs[k].running
  <2>1. jobs[k] \in Rows
    BY DEF TypeOK
  <2>2. jobs'[k] = IF k = e THEN RecoveredRow(jobs[k]) ELSE jobs[k]
    BY DEF Recover, TypeOK
  <2> QED BY <2>1, <2>2 DEF Rows, Row, RecoveredRow, Recover
<1>2. jobs' \in [Keys -> Rows]
  BY <1>1 DEF Recover, TypeOK
<1>3. TypeOK'
  BY <1>2 DEF TypeOK, Recover, data
<1>4. Counted'
  BY <1>1, CountSame DEF Recover
<1> QED
  BY <1>3, <1>4

LEMMA KeyShape ==
  ASSUME NEW k \in Keys
  PROVE  \/ k = PageJob
         \/ /\ k[1] \in {"parse", "extract", "retrieve", "verify"}
            /\ k[2] \in Articles /\ k = <<k[1], k[2]>>
  BY DEF Keys

LEMMA FollowersAreKeys ==
  ASSUME TypeOK, NEW k \in Keys
  PROVE  Followers(k) \subseteq Keys
<1>1. claims \subseteq Articles
  BY DEF TypeOK
<1>2. k = PageJob => Followers(k) = {}
  BY DEF Followers, PageJob
<1>3. ASSUME k # PageJob PROVE Followers(k) \subseteq Keys
  <2>1. k[2] \in Articles
    BY <1>3, KeyShape
  <2> QED
    BY <1>1, <2>1 DEF Followers, Keys, Extract, Retrieve, Verify
<1> QED
  BY <1>2, <1>3

LEMMA StartRows ==
  ASSUME RowsInv, NEW w \in Workers, Start(w)
  PROVE  RowsInv'
<1> USE DEF RowsInv
<1>1. PICK k \in batch[w] :
        /\ batch' = [batch EXCEPT ![w] = @ \ {k}]
        /\ at' = [at EXCEPT ![w] =
             [stage |-> IF IsPage(k) THEN "refreshing" ELSE "reading",
              key |-> k,
              docs |-> IF Judges(k) THEN evidence[k[2]] \cup attached ELSE {},
              view |-> View, loaded |-> page, new |-> {}]]
  BY DEF Start
<1>2. k \in Keys
  BY DEF TypeOK
<1>3. Judges(k) => k[2] \in Articles
  BY <1>2, KeyShape DEF Judges, PageJob
<1>4. View \in Columns
  BY ViewType DEF Typed, TypeOK
<1>5. (IF Judges(k) THEN evidence[k[2]] \cup attached ELSE {}) \in SUBSET Articles
  BY <1>3 DEF TypeOK
<1>6. at'[w] \in InHandler
  BY <1>1, <1>2, <1>4, <1>5 DEF TypeOK, InHandler
<1>7. at' \in [Workers -> InHandler \cup {Idle}]
  BY <1>1, <1>6 DEF TypeOK
<1>8. TypeOK'
  BY <1>1, <1>7 DEF TypeOK, Start, data
<1>9. Counted'
  <2>1. \A u \in Workers : u # w => batch'[u] = batch[u] /\ at'[u] = at[u]
    BY <1>1 DEF TypeOK
  <2>2. \A h \in Keys : jobs'[h].running = jobs[h].running - Holds(w, h) + Holds(w, h)'
    BY <1>1, <1>2, RunningCounts DEF Holds, Start, TypeOK
  <2> QED BY <2>1, <2>2, CountStep
<1> QED
  BY <1>8, <1>9

(* A step within a handler. *)
LEMMA MovesRows ==
  ASSUME RowsInv, NEW w \in Workers, at[w].stage # "idle",
         NEW stage \in {"reading", "decided", "between", "refreshing", "refreshed"},
         NEW view \in Columns, NEW loaded \in Columns, NEW new \in SUBSET Keys,
         Moves(w, stage, view, loaded, new)
  PROVE  /\ at' \in [Workers -> InHandler \cup {Idle}]
         /\ at'[w] = [stage |-> stage, key |-> at[w].key, docs |-> at[w].docs,
                      view |-> view, loaded |-> loaded, new |-> new]
         /\ at'[w].stage # "idle" /\ at'[w].key = at[w].key
<1>1. at[w] \in InHandler
  BY BusyRunning
<1>2. at'[w] = [stage |-> stage, key |-> at[w].key, docs |-> at[w].docs,
                view |-> view, loaded |-> loaded, new |-> new]
  BY DEF Moves, RowsInv, TypeOK
<1>3. at'[w] \in InHandler
  BY <1>1, <1>2 DEF InHandler
<1> QED
  BY <1>2, <1>3 DEF Moves, RowsInv, TypeOK

LEMMA DecideRows ==
  ASSUME RowsInv, NEW w \in Workers, Decide(w) \/ Reload(w) \/ DecideRefresh(w)
  PROVE  RowsInv'
<1> USE DEF RowsInv
<1>1. at[w] \in InHandler /\ at[w].stage # "idle" /\ at[w].key \in Keys
  BY BusyRunning DEF Decide, Reload, DecideRefresh
<1>2. at[w].view \in Columns /\ at[w].loaded \in Columns
  BY <1>1 DEF InHandler
<1>3. View \in Columns /\ page \in Columns
  BY ViewType DEF Typed, TypeOK
<1>4. {k \in Followers(at[w].key) : Missing(k)} \in SUBSET Keys
  BY <1>1, FollowersAreKeys
<1>5. {k \in {PageJob} : ~IsPage(at[w].key) /\ Missing(PageJob)} \in SUBSET Keys
  BY DEF Keys
<1>6. /\ at' \in [Workers -> InHandler \cup {Idle}]
      /\ at'[w].stage # "idle" /\ at'[w].key = at[w].key
  <2>1. CASE Decide(w)
    BY <1>1, <1>2, <1>4, <2>1, MovesRows DEF Decide
  <2>2. CASE Reload(w)
    <3>1. Moves(w, "refreshing", View, page, {}) /\ {} \in SUBSET Keys
      BY <2>2 DEF Reload
    <3> HIDE DEF RowsInv
    <3> QED BY <1>1, <1>3, <3>1, MovesRows
  <2>3. CASE DecideRefresh(w)
    BY <1>1, <1>2, <1>5, <2>3, MovesRows DEF DecideRefresh
  <2> QED BY <2>1, <2>2, <2>3
<1>7. TypeOK'
  BY <1>6 DEF TypeOK, Decide, Reload, DecideRefresh, data
<1>8. Counted'
  <2>1. \A u \in Workers : u # w => batch'[u] = batch[u] /\ at'[u] = at[u]
    BY <1>6 DEF Decide, Reload, DecideRefresh, Moves, TypeOK
  <2>2. \A k \in Keys : jobs'[k].running = jobs[k].running - Holds(w, k) + Holds(w, k)'
    BY <1>1, <1>6, RunningCounts DEF Holds, Decide, Reload, DecideRefresh
  <2> QED BY <2>1, <2>2, CountStep
<1> QED
  BY <1>7, <1>8

(* New rows are queued rows: nothing else is counted anew. *)
LEMMA AddedJobs ==
  ASSUME RowsInv, NEW new, jobs' = Added(jobs, new)
  PROVE  /\ jobs' \in [Keys -> Rows]
         /\ \A k \in Keys : jobs'[k].running = jobs[k].running
  BY AddedRows DEF RowsInv, TypeOK

(* The row of a handler ends and new rows are queued. *)
LEMMA EndedJobs ==
  ASSUME RowsInv, NEW w \in Workers, at[w].stage # "idle", NEW new,
         jobs' = Added(Ended(at[w].key), new)
  PROVE  /\ jobs' \in [Keys -> Rows]
         /\ \A k \in Keys :
              jobs'[k].running = jobs[k].running - (IF k = at[w].key THEN 1 ELSE 0)
<1>1. at[w].key \in Keys /\ jobs[at[w].key].running > 0
  BY BusyRunning
<1>2. /\ Ended(at[w].key) \in [Keys -> Rows]
      /\ \A k \in Keys :
           Ended(at[w].key)[k].running = jobs[k].running - (IF k = at[w].key THEN 1 ELSE 0)
  BY <1>1, EndedRows DEF RowsInv, TypeOK
<1> QED
  BY <1>2, AddedRows

LEMMA CollectRows ==
  ASSUME RowsInv, NEW w \in Workers, Collect(w)
  PROVE  RowsInv'
<1> USE DEF RowsInv
<1>1. PICK a \in Articles : CollectSource(a) \/ SearchNews(a)
  BY DEF Collect
<1>2. PICK new : jobs' = Added(jobs, new)
  BY <1>1 DEF CollectSource, SearchNews
<1>3. jobs' \in [Keys -> Rows] /\ \A k \in Keys : jobs'[k].running = jobs[k].running
  BY <1>2, AddedJobs
<1>4. /\ collected' = collected \cup {a}
      /\ attached' \subseteq attached \cup {a} /\ UNCHANGED <<claims, extracted, evidence, verdict>>
  BY <1>1 DEF CollectSource, SearchNews
<1>5. page' \in Columns
  <2>1. View \in Columns
    BY ViewType DEF Typed, TypeOK
  <2>2. CASE CollectSource(a)
    BY <2>2 DEF CollectSource, TypeOK
  <2>3. CASE SearchNews(a)
    <3>1. attached' \in SUBSET Articles
      BY <1>4 DEF TypeOK
    <3>2. page' = [View EXCEPT !.articles = attached']
      BY <2>3 DEF SearchNews
    <3> QED BY <2>1, <3>1, <3>2 DEF Columns
  <2> QED BY <1>1, <2>2, <2>3
<1>6. TypeOK'
  BY <1>3, <1>4, <1>5, PipelineAssumption DEF TypeOK, Collect
<1>7. Counted'
  BY <1>3, CountSame DEF Collect
<1> QED
  BY <1>6, <1>7

LEMMA CommitRows ==
  ASSUME RowsInv, NEW w \in Workers, Commit(w)
  PROVE  RowsInv'
<1> USE DEF RowsInv
<1> DEFINE e == at[w].key
           a == at[w].key[2]
<1>1. at[w] \in InHandler /\ at[w].stage # "idle" /\ e \in Keys
  BY BusyRunning DEF Commit
<1>2. at[w].view \in Columns /\ at[w].loaded \in Columns /\ at[w].docs \in SUBSET Articles
  BY <1>1 DEF InHandler
<1>3. a \in Articles /\ e = <<e[1], a>>
  BY <1>1, KeyShape DEF Commit, PageJob
<1>4. ASSUME GoesOn(w)
      PROVE  /\ at' \in [Workers -> InHandler \cup {Idle}]
             /\ at'[w].stage # "idle" /\ at'[w].key = e
  <2>1. Moves(w, "between", at[w].view, at[w].loaded, {}) /\ {} \in SUBSET Keys
    BY <1>4 DEF GoesOn
  <2> HIDE DEF RowsInv
  <2> QED BY <1>1, <1>2, <2>1, MovesRows
<1>5. CASE GoesOn(w) /\ ((\E new : jobs' = Added(jobs, new)) \/ UNCHANGED jobs)
  <2>1. jobs' \in [Keys -> Rows] /\ \A k \in Keys : jobs'[k].running = jobs[k].running
    BY <1>5, AddedJobs DEF TypeOK
  <2>2. UNCHANGED <<batch, collects, faults>>
    BY DEF Commit, ParseAttached, ParseMatched, ParseUnmatched, CommitClaims, CommitEvidence,
           CommitVerdict
  <2>3. Written(w) \in Columns
    BY <1>1, WrittenType DEF TypeOK
  <2>4. /\ collected' \subseteq Articles /\ attached' \subseteq Articles
        /\ claims' \subseteq extracted' /\ extracted' \subseteq Articles
        /\ evidence' \in [Articles -> SUBSET Articles]
        /\ verdict' \in [Articles -> SUBSET Articles]
        /\ page' \in Columns
    <3>1. CASE ParseAttached(w, a) \/ ParseUnmatched(w, a)
      BY <3>1 DEF ParseAttached, ParseUnmatched, TypeOK, data
    <3>2. CASE ParseMatched(w, a)
      BY <1>3, <2>3, <3>2 DEF ParseMatched, TypeOK
    <3>3. CASE CommitClaims(w, a)
      BY <1>3, <3>3 DEF CommitClaims, TypeOK
    <3>4. CASE CommitEvidence(w, a) \/ CommitVerdict(w, a)
      BY <1>2, <1>3, <3>4 DEF CommitEvidence, CommitVerdict, TypeOK
    <3> QED BY <3>1, <3>2, <3>3, <3>4 DEF Commit
  <2>5. TypeOK'
    BY <1>4, <1>5, <2>1, <2>2, <2>4 DEF TypeOK
  <2>6. Counted'
    <3>1. \A u \in Workers : u # w => batch'[u] = batch[u] /\ at'[u] = at[u]
      BY <1>5, <2>2 DEF GoesOn, Moves, TypeOK
    <3>2. \A k \in Keys : jobs'[k].running = jobs[k].running - Holds(w, k) + Holds(w, k)'
      BY <1>1, <1>4, <1>5, <2>1, <2>2, RunningCounts DEF Holds
    <3> QED BY <3>1, <3>2, CountStep
  <2> QED BY <2>5, <2>6
<1>6. CASE at' = [at EXCEPT ![w] = Idle] /\ \E new : jobs' = Added(Ended(e), new)
  <2>1. /\ jobs' \in [Keys -> Rows]
        /\ \A k \in Keys : jobs'[k].running = jobs[k].running - (IF k = e THEN 1 ELSE 0)
    BY <1>1, <1>6, EndedJobs
  <2>2. CASE ParseUnmatched(w, a) \/ CommitEvidence(w, a)
    <3>1. UNCHANGED <<batch, collects, faults, collected, attached, claims, extracted, verdict, page>>
      BY <2>2 DEF ParseUnmatched, CommitEvidence, data
    <3>2. evidence' \in [Articles -> SUBSET Articles]
      BY <1>2, <1>3, <2>2 DEF ParseUnmatched, CommitEvidence, TypeOK, data
    <3>3. TypeOK'
      BY <1>6, <2>1, <3>1, <3>2 DEF TypeOK
    <3>4. Counted'
      <4>1. \A u \in Workers : u # w => batch'[u] = batch[u] /\ at'[u] = at[u]
        BY <1>6, <3>1 DEF TypeOK
      <4>2. \A k \in Keys : jobs'[k].running = jobs[k].running - Holds(w, k) + Holds(w, k)'
        BY <1>1, <1>6, <2>1, <3>1, RunningCounts DEF Holds, TypeOK, Idle
      <4> QED BY <4>1, <4>2, CountStep
    <3> QED BY <3>3, <3>4
  <2>3. CASE GoesOn(w)
    BY <1>4, <1>6, <2>3 DEF Idle, TypeOK
  <2> QED BY <2>2, <2>3 DEF Commit, ParseAttached, ParseMatched, CommitClaims, CommitVerdict
<1>7. CASE ParseUnmatched(w, a) /\ e[1] = "parse"
  <2>1. Ended(e) = Added(Ended(e), {})
    <3>1. Ended(e) \in [Keys -> Rows]
      BY <1>1, BusyRunning, EndedRows DEF TypeOK
    <3> QED BY <3>1 DEF Added
  <2> QED BY <1>3, <1>6, <1>7, <2>1 DEF ParseUnmatched, Parse
<1>8. CASE e[1] = "retrieve" /\ CommitEvidence(w, a)
  BY <1>3, <1>6, <1>8 DEF CommitEvidence, Retrieve
<1>9. CASE ParseAttached(w, a) \/ ParseMatched(w, a) \/ CommitClaims(w, a) \/ CommitVerdict(w, a)
  BY <1>5, <1>9 DEF ParseAttached, ParseMatched, CommitClaims, CommitVerdict
<1> QED
  BY <1>7, <1>8, <1>9 DEF Commit

LEMMA CommitRefreshRows ==
  ASSUME RowsInv, NEW w \in Workers, CommitRefresh(w)
  PROVE  RowsInv'
<1> USE DEF RowsInv
<1>1. at[w] \in InHandler /\ at[w].stage # "idle"
  BY BusyRunning DEF CommitRefresh
<1>2. /\ jobs' \in [Keys -> Rows]
      /\ \A k \in Keys : jobs'[k].running = jobs[k].running - (IF k = at[w].key THEN 1 ELSE 0)
  BY <1>1, EndedJobs DEF CommitRefresh
<1>3. page' \in Columns
  BY <1>1, WrittenType DEF CommitRefresh, TypeOK
<1>4. TypeOK'
  BY <1>2, <1>3 DEF TypeOK, CommitRefresh
<1>5. Counted'
  <2>1. \A u \in Workers : u # w => batch'[u] = batch[u] /\ at'[u] = at[u]
    BY DEF CommitRefresh, TypeOK
  <2>2. \A k \in Keys : jobs'[k].running = jobs[k].running - Holds(w, k) + Holds(w, k)'
    BY <1>1, <1>2, RunningCounts DEF Holds, CommitRefresh, TypeOK, Idle
  <2> QED BY <2>1, <2>2, CountStep
<1> QED
  BY <1>4, <1>5

LEMMA RowsNext ==
  ASSUME RowsInv, [Next]_vars
  PROVE  RowsInv'
<1>1. ASSUME NEW w \in Workers, Handle(w) \/ Collect(w) \/ Fail(w) \/ Exit(w) PROVE RowsInv'
  BY <1>1, PollRows, StartRows, DecideRows, CommitRows, CommitRefreshRows, CollectRows,
     FailRows, ExitRows DEF Handle
<1>2. ASSUME NEW k \in Keys, Recover(k) PROVE RowsInv'
  BY <1>2, RecoverRows
<1>3. CASE UNCHANGED vars
  <2>1. TypeOK'
    BY <1>3 DEF vars, data, RowsInv, TypeOK
  <2>2. Counted'
    BY <1>3, CountSame DEF vars
  <2> QED BY <2>1, <2>2 DEF RowsInv
<1> QED
  BY <1>1, <1>2, <1>3 DEF Next

(* The rows, the workers and what they remember stay well formed, with any  *)
(* number of workers: no row ends twice, in whatever order exceptions,     *)
(* exits and recoveries come.                                              *)
THEOREM PipelineTypeCorrect == Spec => []TypeOK
<1>1. RowsInv => TypeOK
  BY DEF RowsInv
<1> QED
  BY <1>1, RowsInit, RowsNext, PTL DEF Spec
-----------------------------------------------------------------------------
(* One worker: the rows in status running are what it holds. *)
Accounted == \A w \in Workers : \A k \in Keys : jobs[k].running = Holds(w, k)

BaseInv == TypeOK /\ Accounted

LEMMA OneCounts == ASSUME OneWorker PROVE Counted <=> Accounted
<1>1. PICK w : Workers = {w}
  BY DEF OneWorker
<1>2. ASSUME NEW k \in Keys PROVE Holds(w, k) = Cardinality(Claimed(k)) + Cardinality(Begun(k))
  <2>1. Claimed(k) = (IF k \in batch[w] THEN {w} ELSE {})
    BY <1>1 DEF Claimed
  <2>2. Begun(k) = (IF at[w].stage # "idle" /\ at[w].key = k THEN {w} ELSE {})
    BY <1>1 DEF Begun
  <2>3. Cardinality({w}) = 1 /\ Cardinality({}) = 0
    BY FS_Singleton, FS_EmptySet
  <2> QED BY <2>1, <2>2, <2>3 DEF Holds
<1> QED
  BY <1>1, <1>2 DEF Counted, Accounted

LEMMA BaseInit == ASSUME OneWorker PROVE Init => BaseInv
BY RowsInit, OneCounts DEF RowsInv, BaseInv

LEMMA BaseNext ==
  ASSUME OneWorker, BaseInv, [Next]_vars
  PROVE  BaseInv'
<1>1. RowsInv
  BY OneCounts DEF RowsInv, BaseInv
<1>2. RowsInv'
  BY <1>1, RowsNext
<1>3. Counted' <=> Accounted'
  BY OneCounts, PTL
<1> QED
  BY <1>2, <1>3 DEF RowsInv, BaseInv

(* What the worker is busy with has a row in status running. *)
LEMMA BusyRow ==
  ASSUME BaseInv, NEW w \in Workers, at[w].stage # "idle"
  PROVE  /\ at[w] \in InHandler
         /\ at[w].key \in Keys
         /\ jobs[at[w].key].running > 0
<1>1. at[w] \in InHandler
  BY DEF BaseInv, TypeOK, Idle
<1>2. at[w].key \in Keys
  BY <1>1 DEF InHandler
<1> QED
  BY <1>1, <1>2 DEF BaseInv, Accounted, Holds
-----------------------------------------------------------------------------
(* Why no official article is forgotten.  A job waits if somebody will     *)
(* begin it; it reads what is committed only then.                         *)

Present(k) == jobs[k].queued + jobs[k].running + jobs[k].lost + jobs[k].failed > 0
Waits(k) == \/ jobs[k].queued + jobs[k].lost + jobs[k].failed > 0
            \/ \E w \in Workers : k \in batch[w]
Open(w, k) == at[w].stage \in {"reading", "decided"} /\ at[w].key = k

(* Claims are extracted from attached articles only. *)
Known ==
  /\ extracted \subseteq attached
  /\ \A a \in Articles : Present(Extract(a)) => a \in attached

(* What a handler has decided to insert. *)
NewIs(w) ==
  /\ \A a \in Articles : at[w].stage = "decided" /\ at[w].key = Parse(a) => at[w].new \subseteq {Extract(a)}
  /\ \A c \in Articles : at[w].stage = "decided" /\ at[w].key = Retrieve(c) => at[w].new \subseteq {Verify(c)}
  /\ at[w].stage = "refreshed" => at[w].new \subseteq {PageJob}

(* A verdict in the making considers every article extracted so far. *)
Fresh(w) == \A c \in Articles : Open(w, Verify(c)) => extracted \subseteq at[w].docs

(* Where a handler inserts no job it wants, one that waits is there. *)
Follows(w) ==
  /\ \A a \in Articles : at[w].stage = "decided" /\ at[w].key = Extract(a) =>
       \A c \in IF a \in Official THEN claims \cup {a} ELSE {a} :
         Retrieve(c) \in at[w].new \/ Waits(Retrieve(c))
  /\ \A c \in Articles : at[w].stage = "decided" /\ at[w].key = Retrieve(c) =>
       Verify(c) \in at[w].new \/ Waits(Verify(c))

(* A verdict that has not considered an official article will be renewed. *)
Pending(c) ==
  \/ Waits(Retrieve(c)) \/ Waits(Verify(c))
  \/ \E w \in Workers : Open(w, Retrieve(c)) \/ Open(w, Verify(c))
Owed == \A o \in Official \cap extracted : \A c \in claims : o \in verdict[c] \/ Pending(c)

Handling == \A w \in Workers : NewIs(w) /\ Fresh(w) /\ Follows(w)

PipelineInv == BaseInv /\ Known /\ Handling /\ Owed

(* Steps that move rows between states: what waited waits, what was begun  *)
(* and is no longer open waits, and no row is new.                         *)
LEMMA RowsMove ==
  ASSUME BaseInv, BaseInv', NEW w, Workers = {w},
         Poll(w) \/ Fail(w) \/ Exit(w) \/ \E e \in Keys : Recover(e)
  PROVE  \A k \in Keys :
           /\ Waits(k) => Waits(k)'
           /\ Present(k)' => Present(k)
           /\ Open(w, k) => Open(w, k)' \/ Waits(k)'
<1> USE DEF BaseInv, TypeOK
<1> SUFFICES ASSUME NEW k \in Keys
             PROVE  /\ Waits(k) => Waits(k)'
                    /\ Present(k)' => Present(k)
                    /\ Open(w, k) => Open(w, k)' \/ Waits(k)'
  OBVIOUS
<1>1. /\ jobs[k] \in Rows /\ jobs'[k] \in Rows /\ jobs[k].running = Holds(w, k)
      /\ Holds(w, k) \in Nat /\ (k \in batch[w] => Holds(w, k) > 0)
      /\ (Open(w, k) => Holds(w, k) > 0)
  BY DEF Accounted, Holds, Open
<1>2. CASE Poll(w)
  <2>1. PICK some \in SUBSET {x \in Keys : jobs[x].queued + jobs[x].failed > 0} :
          /\ batch' = [batch EXCEPT ![w] = some]
          /\ jobs'[k] = IF k \in some THEN ClaimedRow(jobs[k]) ELSE jobs[k]
    BY <1>2 DEF Poll
  <2>2. batch[w] = {} /\ at' = at /\ batch'[w] = some
    BY <1>2, <2>1 DEF Poll
  <2>3. k \in some => jobs[k].queued + jobs[k].failed > 0
    OBVIOUS
  <2>4. Waits(k) => Waits(k)'
    BY <1>1, <2>1, <2>2 DEF Waits, ClaimedRow, Row, Rows
  <2>5. Present(k)' => Present(k)
    BY <1>1, <2>1, <2>3 DEF Present, ClaimedRow, Row, Rows
  <2> QED BY <2>2, <2>4, <2>5 DEF Open
<1>3. CASE Fail(w)
  <2>1. /\ jobs'[k] = IF k = at[w].key THEN FailedRow(jobs[k]) ELSE jobs[k]
        /\ batch' = batch
    BY <1>3 DEF Fail
  <2>2. Waits(k) => Waits(k)'
    BY <1>1, <2>1 DEF Waits, FailedRow, Row, Rows
  <2>3. Present(k)' => Present(k)
    <3>1. k = at[w].key => jobs[k].running > 0
      BY <1>3, BusyRow DEF Fail
    <3> QED BY <1>1, <2>1, <3>1 DEF Present, FailedRow, Row, Rows
  <2>4. Open(w, k) => Waits(k)'
    BY <1>1, <2>1 DEF Waits, Open, FailedRow, Row, Rows
  <2> QED BY <2>2, <2>3, <2>4
<1>4. CASE Exit(w)
  <2>1. jobs'[k] = LostRow(jobs[k], Holds(w, k))
    BY <1>4 DEF Exit
  <2>2. Waits(k) => Waits(k)'
    BY <1>1, <2>1 DEF Waits, LostRow, Row, Rows
  <2>3. Present(k)' => Present(k)
    BY <1>1, <2>1 DEF Present, LostRow, Row, Rows
  <2>4. Open(w, k) => Waits(k)'
    BY <1>1, <2>1 DEF Waits, LostRow, Row, Rows
  <2> QED BY <2>2, <2>3, <2>4
<1>5. ASSUME NEW e \in Keys, Recover(e)
      PROVE  /\ Waits(k) => Waits(k)'
             /\ Present(k)' => Present(k)
             /\ Open(w, k) => Open(w, k)' \/ Waits(k)'
  <2>1. /\ jobs'[k] = IF k = e THEN RecoveredRow(jobs[k]) ELSE jobs[k]
        /\ batch' = batch /\ at' = at
        /\ jobs[e].lost > 0
    BY <1>5 DEF Recover
  <2>2. Waits(k) => Waits(k)'
    BY <1>1, <2>1 DEF Waits, RecoveredRow, Row, Rows
  <2>3. Present(k)' => Present(k)
    BY <1>1, <2>1 DEF Present, RecoveredRow, Row, Rows
  <2> QED BY <2>1, <2>2, <2>3 DEF Open
<1> QED
  BY <1>2, <1>3, <1>4, <1>5

(* Steps that insert rows, and end that of the handler. *)
LEMMA RowsGrow ==
  ASSUME BaseInv, BaseInv', NEW w, Workers = {w}, NEW new, batch' = batch,
         \/ jobs' = Added(jobs, new)
         \/ at[w].stage # "idle" /\ jobs' = Added(Ended(at[w].key), new)
  PROVE  \A k \in Keys :
           /\ Waits(k) => Waits(k)'
           /\ k \in new => Waits(k)'
           /\ Present(k)' => Present(k) \/ k \in new
<1> USE DEF BaseInv, TypeOK
<1> SUFFICES ASSUME NEW k \in Keys
             PROVE  /\ Waits(k) => Waits(k)'
                    /\ k \in new => Waits(k)'
                    /\ Present(k)' => Present(k) \/ k \in new
  OBVIOUS
<1>1. jobs[k] \in Rows /\ jobs'[k] \in Rows
  OBVIOUS
<1>2. /\ jobs'[k].queued = jobs[k].queued + (IF k \in new THEN 1 ELSE 0)
      /\ jobs'[k].lost = jobs[k].lost /\ jobs'[k].failed = jobs[k].failed
      /\ jobs'[k].running <= jobs[k].running
  <2>1. CASE jobs' = Added(jobs, new)
    BY <1>1, <2>1, AddedRows DEF Rows
  <2>2. CASE at[w].stage # "idle" /\ jobs' = Added(Ended(at[w].key), new)
    <3>1. at[w].key \in Keys /\ jobs[at[w].key].running > 0
      BY <2>2, BusyRow
    <3>2. /\ Ended(at[w].key) \in [Keys -> Rows]
          /\ Ended(at[w].key)[k].queued = jobs[k].queued
          /\ Ended(at[w].key)[k].lost = jobs[k].lost
          /\ Ended(at[w].key)[k].failed = jobs[k].failed
          /\ Ended(at[w].key)[k].running <= jobs[k].running
      BY <1>1, <3>1, EndedRows DEF Rows
    <3> QED BY <2>2, <3>2, AddedRows
  <2> QED BY <2>1, <2>2
<1> QED
  BY <1>1, <1>2 DEF Waits, Present, Rows

LEMMA JobKeys ==
  ASSUME NEW a \in Articles
  PROVE  {Parse(a), Extract(a), Retrieve(a), Verify(a), PageJob} \subseteq Keys
  BY DEF Keys, Parse, Extract, Retrieve, Verify

LEMMA DifferentJobs ==
  ASSUME NEW a, NEW b
  PROVE  /\ Parse(a) # Extract(b) /\ Parse(a) # Retrieve(b) /\ Parse(a) # Verify(b)
         /\ Extract(a) # Retrieve(b) /\ Extract(a) # Verify(b) /\ Retrieve(a) # Verify(b)
         /\ PageJob \notin {Parse(a), Extract(a), Retrieve(a), Verify(a)}
         /\ (Parse(a) = Parse(b) \/ Extract(a) = Extract(b) \/ Retrieve(a) = Retrieve(b)
              \/ Verify(a) = Verify(b)) => a = b
  BY DEF Parse, Extract, Retrieve, Verify, PageJob

(* Owed survives when every pending claim stays pending. *)
LEMMA OwedKept ==
  ASSUME Owed, NEW w, Workers = {w}, TypeOK,
         UNCHANGED <<extracted, claims, verdict>>,
         \A c \in Articles : Pending(c) => Pending(c)'
  PROVE  Owed'
<1>1. claims \subseteq Articles
  BY DEF TypeOK
<1> QED
  BY <1>1 DEF Owed

LEMMA MoveKeeps ==
  ASSUME PipelineInv, BaseInv', NEW w, Workers = {w},
         Poll(w) \/ Fail(w) \/ Exit(w) \/ \E e \in Keys : Recover(e)
  PROVE  PipelineInv'
<1>1. /\ BaseInv /\ TypeOK /\ Known /\ Owed /\ NewIs(w) /\ Fresh(w) /\ Follows(w)
  BY DEF PipelineInv, Handling, BaseInv
<1>2. UNCHANGED data
  BY DEF Poll, Fail, Exit, Recover
<1>3. at' = at \/ at'[w] = Idle
  BY <1>1 DEF Poll, Fail, Exit, Recover, TypeOK
<1>4. \A k \in Keys : /\ Waits(k) => Waits(k)'
                      /\ Present(k)' => Present(k)
                      /\ Open(w, k) => Open(w, k)' \/ Waits(k)'
  BY <1>1, RowsMove
<1>5. Known'
  BY <1>1, <1>2, <1>4, JobKeys DEF Known, data
<1>6. Owed'
  <2>1. ASSUME NEW c \in Articles, Pending(c) PROVE Pending(c)'
    <3>1. Retrieve(c) \in Keys /\ Verify(c) \in Keys
      BY JobKeys
    <3>2. Pending(c)' <=> \/ Waits(Retrieve(c))' \/ Waits(Verify(c))'
                          \/ Open(w, Retrieve(c))' \/ Open(w, Verify(c))'
      BY DEF Pending
    <3> QED BY <1>4, <2>1, <3>1, <3>2 DEF Pending
  <2> QED BY <1>1, <1>2, <2>1, OwedKept DEF data
<1>7. NewIs(w)' /\ Fresh(w)' /\ Follows(w)'
  <2>1. CASE at'[w] = Idle
    BY <2>1 DEF NewIs, Fresh, Follows, Open, Idle
  <2>2. CASE at' = at
    <3>1. NewIs(w)' /\ Fresh(w)'
      BY <1>1, <1>2, <2>2 DEF NewIs, Fresh, Open, data
    <3>2. claims \subseteq Articles
      BY <1>1 DEF TypeOK
    <3>3. Follows(w)'
      BY <1>1, <1>2, <1>4, <2>2, <3>2, JobKeys DEF Follows, data
    <3> QED BY <3>1, <3>3
  <2> QED BY <1>3, <2>1, <2>2
<1> QED
  BY <1>5, <1>6, <1>7 DEF PipelineInv, Handling

LEMMA StartKeeps ==
  ASSUME PipelineInv, BaseInv', NEW w, Workers = {w}, Start(w)
  PROVE  PipelineInv'
<1>1. /\ BaseInv /\ TypeOK /\ Known /\ Owed
  BY DEF PipelineInv, BaseInv
<1>2. PICK k \in batch[w] :
        /\ batch' = [batch EXCEPT ![w] = @ \ {k}]
        /\ at' = [at EXCEPT ![w] =
             [stage |-> IF IsPage(k) THEN "refreshing" ELSE "reading",
              key |-> k,
              docs |-> IF Judges(k) THEN evidence[k[2]] \cup attached ELSE {},
              view |-> View, loaded |-> page, new |-> {}]]
  BY DEF Start
<1>3. UNCHANGED <<jobs, data>> /\ at[w].stage = "idle"
  BY DEF Start
<1>4. /\ at'[w].key = k /\ at'[w].stage \in {"reading", "refreshing"}
      /\ k # PageJob => at'[w].stage = "reading"
      /\ Judges(k) => attached \subseteq at'[w].docs
      /\ batch'[w] = batch[w] \ {k}
  BY <1>1, <1>2 DEF TypeOK, IsPage
<1>5. Known'
  BY <1>1, <1>3 DEF Known, Present, data
<1>6. NewIs(w)' /\ Follows(w)'
  BY <1>4 DEF NewIs, Follows
<1>7. Fresh(w)'
  BY <1>1, <1>3, <1>4 DEF Fresh, Open, Known, Judges, Verify, data
<1>8. Owed'
  <2>1. ASSUME NEW x \in Keys \ {PageJob}, Waits(x) PROVE Waits(x)' \/ Open(w, x)'
    BY <1>3, <1>4, <2>1 DEF Waits, Open
  <2>2. ASSUME NEW c \in Articles, Pending(c) PROVE Pending(c)'
    <3>1. {Retrieve(c), Verify(c)} \subseteq Keys \ {PageJob}
      BY JobKeys, DifferentJobs
    <3>2. Waits(Retrieve(c)) \/ Waits(Verify(c))
      BY <1>3, <2>2 DEF Pending, Open
    <3>3. Pending(c)' <=> \/ Waits(Retrieve(c))' \/ Waits(Verify(c))'
                          \/ Open(w, Retrieve(c))' \/ Open(w, Verify(c))'
      BY DEF Pending
    <3> QED BY <2>1, <3>1, <3>2, <3>3
  <2> QED BY <1>1, <1>3, <2>2, OwedKept DEF data
<1> QED
  BY <1>5, <1>6, <1>7, <1>8 DEF PipelineInv, Handling

LEMMA CollectKeeps ==
  ASSUME PipelineInv, BaseInv', NEW w, Workers = {w}, Collect(w)
  PROVE  PipelineInv'
<1>1. /\ BaseInv /\ TypeOK /\ Known /\ Owed
  BY DEF PipelineInv, BaseInv
<1>2. PICK a \in Articles : CollectSource(a) \/ SearchNews(a)
  BY DEF Collect
<1>3. PICK new : jobs' = Added(jobs, new) /\ new \subseteq {Parse(a), PageJob}
  BY <1>2 DEF CollectSource, SearchNews
<1>4. /\ UNCHANGED <<batch, at, claims, extracted, verdict>>
      /\ attached \subseteq attached' /\ at[w].stage = "idle"
  BY <1>2 DEF Collect, CollectSource, SearchNews
<1>5. \A k \in Keys : /\ Waits(k) => Waits(k)'
                      /\ Present(k)' => Present(k) \/ k \in new
  BY <1>1, <1>3, <1>4, RowsGrow
<1>6. Known'
  <2>1. ASSUME NEW b \in Articles, Present(Extract(b))' PROVE b \in attached'
    BY <1>1, <1>3, <1>4, <1>5, <2>1, JobKeys, DifferentJobs DEF Known
  <2> QED BY <1>1, <1>4, <2>1 DEF Known
<1>7. NewIs(w)' /\ Fresh(w)' /\ Follows(w)'
  BY <1>4 DEF NewIs, Fresh, Follows, Open
<1>8. Owed'
  <2>1. ASSUME NEW c \in Articles, Pending(c) PROVE Pending(c)'
    BY <1>4, <1>5, <2>1, JobKeys DEF Pending, Open
  <2> QED BY <1>1, <1>4, <2>1, OwedKept
<1> QED
  BY <1>6, <1>7, <1>8 DEF PipelineInv, Handling

(* A job that is not missing waits, unless the worker is at it. *)
LEMMA NotMissing ==
  ASSUME BaseInv, NEW w, Workers = {w}, NEW k \in Keys, ~Missing(k),
         at[w].stage = "idle" \/ at[w].key # k
  PROVE  Waits(k)
<1>1. jobs[k] \in Rows /\ jobs[k].running = Holds(w, k)
  BY DEF BaseInv, TypeOK, Accounted
<1> QED
  BY <1>1 DEF Missing, Waits, Holds, Rows

LEMMA DecideKeeps ==
  ASSUME PipelineInv, BaseInv', NEW w, Workers = {w},
         Decide(w) \/ Reload(w) \/ DecideRefresh(w)
  PROVE  PipelineInv'
<1>1. /\ BaseInv /\ TypeOK /\ Known /\ Owed /\ Fresh(w)
  BY DEF PipelineInv, Handling, BaseInv
<1>2. UNCHANGED <<jobs, batch, data>>
  BY DEF Decide, Reload, DecideRefresh
<1>3. Known'
  BY <1>1, <1>2 DEF Known, Present, data
<1>4. \A k \in Keys : Waits(k)' <=> Waits(k)
  BY <1>2 DEF Waits
<1>5. CASE Decide(w)
  <2> DEFINE new == {k \in Followers(at[w].key) : Missing(k)}
  <2>1. /\ at[w].stage = "reading" /\ at'[w].stage = "decided"
        /\ at'[w].key = at[w].key /\ at'[w].docs = at[w].docs /\ at'[w].new = new
    BY <1>1, <1>5 DEF Decide, Moves, TypeOK
  <2>2. ASSUME NEW k \in Keys, Open(w, k) PROVE Open(w, k)'
    BY <2>1, <2>2 DEF Open
  <2>3. Owed'
    <3>1. ASSUME NEW c \in Articles, Pending(c) PROVE Pending(c)'
      <4>1. Pending(c)' <=> \/ Waits(Retrieve(c))' \/ Waits(Verify(c))'
                            \/ Open(w, Retrieve(c))' \/ Open(w, Verify(c))'
        BY DEF Pending
      <4> QED BY <1>4, <2>2, <3>1, <4>1, JobKeys DEF Pending
    <3> QED BY <1>1, <1>2, <3>1, OwedKept DEF data
  <2>4. Fresh(w)'
    BY <1>1, <1>2, <2>1 DEF Fresh, Open, data
  <2>5. NewIs(w)'
    <3>1. ASSUME NEW a \in Articles, at[w].key = Parse(a) PROVE new \subseteq {Extract(a)}
      BY <3>1 DEF Followers, Parse
    <3>2. ASSUME NEW c \in Articles, at[w].key = Retrieve(c) PROVE new \subseteq {Verify(c)}
      BY <3>2 DEF Followers, Retrieve
    <3> QED BY <2>1, <3>1, <3>2 DEF NewIs
  <2>6. Follows(w)'
    <3>1. ASSUME NEW a \in Articles, at[w].key = Extract(a),
                 NEW c \in IF a \in Official THEN claims \cup {a} ELSE {a}
          PROVE  Retrieve(c) \in new \/ Waits(Retrieve(c))'
      <4>1. c \in Articles
        BY <1>1 DEF TypeOK
      <4>2. Retrieve(c) \in Keys /\ Retrieve(c) # at[w].key
        BY <3>1, <4>1, JobKeys, DifferentJobs
      <4>3. Retrieve(c) \in Followers(at[w].key)
        BY <3>1 DEF Followers, Extract
      <4> QED BY <1>1, <1>4, <4>2, <4>3, NotMissing
    <3>2. ASSUME NEW c \in Articles, at[w].key = Retrieve(c)
          PROVE  Verify(c) \in new \/ Waits(Verify(c))'
      <4>1. Verify(c) \in Keys /\ Verify(c) # at[w].key
        BY <3>2, JobKeys, DifferentJobs
      <4>2. Verify(c) \in Followers(at[w].key)
        BY <3>2 DEF Followers, Retrieve
      <4> QED BY <1>1, <1>4, <4>1, <4>2, NotMissing
    <3> QED BY <1>2, <2>1, <3>1, <3>2 DEF Follows, data
  <2> QED BY <1>3, <2>3, <2>4, <2>5, <2>6 DEF PipelineInv, Handling
<1>6. CASE Reload(w) \/ DecideRefresh(w)
  <2>1. /\ at[w].stage \in {"between", "refreshing"} /\ at'[w].stage \in {"refreshing", "refreshed"}
        /\ at'[w].stage = "refreshed" => at'[w].new \subseteq {PageJob}
    BY <1>1, <1>6 DEF Reload, DecideRefresh, Moves, TypeOK
  <2>2. Owed'
    <3>1. ASSUME NEW c \in Articles, Pending(c) PROVE Pending(c)'
      BY <1>4, <2>1, <3>1, JobKeys DEF Pending, Open
    <3> QED BY <1>1, <1>2, <3>1, OwedKept DEF data
  <2>3. NewIs(w)' /\ Fresh(w)' /\ Follows(w)'
    BY <2>1 DEF NewIs, Fresh, Follows, Open
  <2> QED BY <1>3, <2>2, <2>3 DEF PipelineInv, Handling
<1> QED
  BY <1>5, <1>6

(* The end of a handler: the worker is idle, and rows are only inserted. *)
LEMMA CommitRefreshKeeps ==
  ASSUME PipelineInv, BaseInv', NEW w, Workers = {w}, CommitRefresh(w)
  PROVE  PipelineInv'
<1>1. /\ BaseInv /\ TypeOK /\ Known /\ Owed /\ NewIs(w)
  BY DEF PipelineInv, Handling, BaseInv
<1>2. /\ UNCHANGED <<batch, attached, claims, extracted, verdict>>
      /\ at[w].stage = "refreshed" /\ at'[w] = Idle
      /\ jobs' = Added(Ended(at[w].key), at[w].new)
      /\ at[w].new \subseteq {PageJob}
  BY <1>1 DEF CommitRefresh, NewIs, TypeOK
<1>3. \A k \in Keys : /\ Waits(k) => Waits(k)'
                      /\ Present(k)' => Present(k) \/ k \in at[w].new
  BY <1>1, <1>2, RowsGrow
<1>4. Known'
  <2>1. ASSUME NEW b \in Articles, Present(Extract(b))' PROVE b \in attached'
    BY <1>1, <1>2, <1>3, <2>1, JobKeys, DifferentJobs DEF Known
  <2> QED BY <1>1, <1>2, <2>1 DEF Known
<1>5. NewIs(w)' /\ Fresh(w)' /\ Follows(w)'
  BY <1>2 DEF NewIs, Fresh, Follows, Open, Idle
<1>6. Owed'
  <2>1. ASSUME NEW c \in Articles, Pending(c) PROVE Pending(c)'
    BY <1>2, <1>3, <2>1, JobKeys DEF Pending, Open
  <2> QED BY <1>1, <1>2, <2>1, OwedKept
<1> QED
  BY <1>4, <1>5, <1>6 DEF PipelineInv, Handling

(* After its first commit a handler has nothing open and nothing decided. *)
LEMMA NothingOpen ==
  ASSUME NEW w, Workers = {w}, at'[w].stage \in {"between", "idle"}
  PROVE  /\ NewIs(w)' /\ Fresh(w)' /\ Follows(w)'
         /\ \A c : Pending(c)' <=> Waits(Retrieve(c))' \/ Waits(Verify(c))'
<1>1. NewIs(w)' /\ Fresh(w)' /\ Follows(w)'
  BY DEF NewIs, Fresh, Follows, Open
<1>2. ASSUME NEW c PROVE Pending(c)' <=> Waits(Retrieve(c))' \/ Waits(Verify(c))'
  BY DEF Pending, Open
<1> QED
  BY <1>1, <1>2

LEMMA CommitStage ==
  ASSUME BaseInv, NEW w \in Workers, GoesOn(w)
  PROVE  at'[w].stage = "between"
  BY DEF BaseInv, TypeOK, GoesOn, Moves

LEMMA ParseKeeps ==
  ASSUME PipelineInv, BaseInv', NEW w, Workers = {w}, NEW a \in Articles,
         at[w].stage = "decided", at[w].key = Parse(a),
         ParseAttached(w, a) \/ ParseMatched(w, a) \/ ParseUnmatched(w, a)
  PROVE  PipelineInv'
<1>1. /\ BaseInv /\ TypeOK /\ Known /\ Owed /\ NewIs(w)
  BY DEF PipelineInv, Handling, BaseInv
<1>2. /\ UNCHANGED <<batch, claims, extracted, verdict>>
      /\ attached \subseteq attached' /\ at'[w].stage \in {"between", "idle"}
  BY <1>1, CommitStage DEF ParseAttached, ParseMatched, ParseUnmatched, TypeOK, Idle, data
<1>3. PICK new : /\ new \subseteq {Extract(a)} /\ (new = {} \/ a \in attached')
                 /\ \/ jobs' = Added(jobs, new)
                    \/ jobs' = Added(Ended(at[w].key), new)
  <2>1. CASE ParseAttached(w, a) \/ ParseMatched(w, a)
    <3>1. at[w].new \subseteq {Extract(a)}
      BY <1>1 DEF NewIs
    <3> QED BY <2>1, <3>1 DEF ParseAttached, ParseMatched, data
  <2>2. CASE ParseUnmatched(w, a)
    <3>1. Ended(Parse(a)) \in [Keys -> Rows]
      BY <1>1, BusyRow, EndedRows DEF TypeOK
    <3>2. Ended(Parse(a)) = Added(Ended(Parse(a)), {})
      BY <3>1 DEF Added
    <3> QED BY <2>2, <3>2 DEF ParseUnmatched
  <2> QED BY <2>1, <2>2
<1>4. \A k \in Keys : /\ Waits(k) => Waits(k)'
                      /\ Present(k)' => Present(k) \/ k \in new
  BY <1>1, <1>2, <1>3, RowsGrow
<1>5. Known'
  <2>1. ASSUME NEW b \in Articles, Present(Extract(b))' PROVE b \in attached'
    BY <1>1, <1>2, <1>3, <1>4, <2>1, JobKeys, DifferentJobs DEF Known
  <2> QED BY <1>1, <1>2, <2>1 DEF Known
<1>6. Owed'
  <2>1. ASSUME NEW c \in Articles, Pending(c) PROVE Pending(c)'
    <3>1. Waits(Retrieve(c)) \/ Waits(Verify(c))
      BY <2>1, DifferentJobs DEF Pending, Open
    <3> QED BY <1>2, <1>4, <3>1, JobKeys, NothingOpen
  <2> QED BY <1>1, <1>2, <2>1, OwedKept
<1> QED
  BY <1>2, <1>5, <1>6, NothingOpen DEF PipelineInv, Handling

LEMMA ClaimsKeep ==
  ASSUME PipelineInv, BaseInv', NEW w, Workers = {w}, NEW a \in Articles,
         at[w].stage = "decided", at[w].key = Extract(a), CommitClaims(w, a)
  PROVE  PipelineInv'
<1>1. /\ BaseInv /\ TypeOK /\ Known /\ Owed /\ Follows(w)
  BY DEF PipelineInv, Handling, BaseInv
<1>2. PICK found \in SUBSET {a} :
        /\ claims' = claims \cup found
        /\ jobs' = Added(jobs, at[w].new \cap
             {Retrieve(c) : c \in IF a \in Official THEN claims' ELSE found})
  BY DEF CommitClaims
<1> DEFINE new == at[w].new \cap {Retrieve(c) : c \in IF a \in Official THEN claims' ELSE found}
<1>3. /\ UNCHANGED <<batch, attached, verdict>> /\ extracted' = extracted \cup {a}
      /\ at'[w].stage = "between"
  BY <1>1, CommitStage DEF CommitClaims
<1>4. \A k \in Keys : /\ Waits(k) => Waits(k)'
                      /\ k \in new => Waits(k)'
                      /\ Present(k)' => Present(k) \/ k \in new
  <2> HIDE DEF new
  <2> QED BY <1>1, <1>2, <1>3, RowsGrow DEF new
<1>5. Known'
  <2>1. a \in attached
    <3>1. Extract(a) \in Keys /\ jobs[Extract(a)] \in Rows /\ jobs[Extract(a)].running > 0
      BY <1>1, BusyRow DEF TypeOK
    <3> QED BY <1>1, <3>1 DEF Known, Present, Rows
  <2>2. ASSUME NEW b \in Articles, Present(Extract(b))' PROVE b \in attached'
    <3>1. Extract(b) \in Keys /\ Extract(b) \notin new
      BY JobKeys, DifferentJobs
    <3> QED BY <1>1, <1>3, <1>4, <2>2, <3>1 DEF Known
  <2> QED BY <1>1, <1>3, <2>1, <2>2 DEF Known
<1>6. \A c \in Articles : Waits(Retrieve(c))' \/ Waits(Verify(c))' => Pending(c)'
  BY <1>3, NothingOpen
<1>7. ASSUME NEW c \in claims', c \in found \/ a \in Official PROVE Pending(c)'
  <2>1. c \in Articles
    BY <1>1, <1>2 DEF TypeOK
  <2>2. c \in IF a \in Official THEN claims \cup {a} ELSE {a}
    BY <1>2, <1>7
  <2>3. Retrieve(c) \in at[w].new \/ Waits(Retrieve(c))
    BY <1>1, <2>2 DEF Follows
  <2>4. Retrieve(c) \in at[w].new => Retrieve(c) \in new
    BY <1>7
  <2> HIDE DEF new
  <2> QED BY <1>4, <1>6, <2>1, <2>3, <2>4, JobKeys
<1>8. ASSUME NEW c \in claims, Pending(c) PROVE Pending(c)'
  <2>1. c \in Articles
    BY <1>1 DEF TypeOK
  <2>2. Waits(Retrieve(c)) \/ Waits(Verify(c))
    BY <1>8, DifferentJobs DEF Pending, Open
  <2> HIDE DEF new
  <2> QED BY <1>4, <1>6, <2>1, <2>2, JobKeys
<1>9. Owed'
  <2>1. ASSUME NEW o \in Official \cap extracted', NEW c \in claims'
        PROVE  o \in verdict'[c] \/ Pending(c)'
    <3>1. CASE c \in found \/ a \in Official
      BY <1>7, <3>1
    <3>2. CASE ~(c \in found \/ a \in Official)
      <4>1. c \in claims /\ o \in Official \cap extracted
        BY <1>2, <1>3, <3>2
      <4> QED BY <1>1, <1>3, <1>8, <4>1 DEF Owed
    <3> QED BY <3>1, <3>2
  <2> QED BY <2>1 DEF Owed
<1> QED
  BY <1>3, <1>5, <1>9, NothingOpen DEF PipelineInv, Handling

LEMMA EvidenceKeeps ==
  ASSUME PipelineInv, BaseInv', NEW w, Workers = {w}, NEW r \in Articles,
         at[w].stage = "decided", at[w].key = Retrieve(r), CommitEvidence(w, r)
  PROVE  PipelineInv'
<1>1. /\ BaseInv /\ TypeOK /\ Known /\ Owed /\ NewIs(w) /\ Follows(w)
  BY DEF PipelineInv, Handling, BaseInv
<1>2. /\ UNCHANGED <<batch, attached, claims, extracted, verdict>> /\ at'[w] = Idle
      /\ jobs' = Added(Ended(at[w].key), at[w].new)
  BY <1>1 DEF CommitEvidence, TypeOK
<1>3. \A k \in Keys : /\ Waits(k) => Waits(k)'
                      /\ k \in at[w].new => Waits(k)'
                      /\ Present(k)' => Present(k) \/ k \in at[w].new
  BY <1>1, <1>2, RowsGrow
<1>4. Known'
  <2>1. ASSUME NEW b \in Articles, Present(Extract(b))' PROVE b \in attached'
    <3>1. Extract(b) \in Keys /\ Extract(b) \notin at[w].new
      BY <1>1, JobKeys, DifferentJobs DEF NewIs
    <3> QED BY <1>1, <1>2, <1>3, <2>1, <3>1 DEF Known
  <2> QED BY <1>1, <1>2, <2>1 DEF Known
<1>5. at'[w].stage = "idle"
  BY <1>2 DEF Idle
<1>6. Owed'
  <2>1. ASSUME NEW c \in Articles, Pending(c) PROVE Pending(c)'
    <3>1. CASE c = r
      BY <1>1, <1>3, <1>5, <3>1, JobKeys, NothingOpen DEF Follows
    <3>2. CASE c # r
      <4>1. Waits(Retrieve(c)) \/ Waits(Verify(c))
        BY <2>1, <3>2, DifferentJobs DEF Pending, Open
      <4> QED BY <1>3, <1>5, <4>1, JobKeys, NothingOpen
    <3> QED BY <3>1, <3>2
  <2> QED BY <1>1, <1>2, <2>1, OwedKept
<1> QED
  BY <1>4, <1>5, <1>6, NothingOpen DEF PipelineInv, Handling

LEMMA VerdictKeeps ==
  ASSUME PipelineInv, BaseInv', NEW w, Workers = {w}, NEW v \in Articles,
         at[w].stage = "decided", at[w].key = Verify(v), CommitVerdict(w, v)
  PROVE  PipelineInv'
<1>1. /\ BaseInv /\ TypeOK /\ Known /\ Owed /\ Fresh(w)
  BY DEF PipelineInv, Handling, BaseInv
<1>2. /\ UNCHANGED <<jobs, batch, attached, claims, extracted>> /\ at'[w].stage = "between"
      /\ verdict' = [verdict EXCEPT ![v] = at[w].docs]
  BY <1>1, CommitStage DEF CommitVerdict
<1>3. Known'
  BY <1>1, <1>2 DEF Known, Present
<1>4. Owed'
  <2>1. ASSUME NEW o \in Official \cap extracted, NEW c \in claims
        PROVE  o \in verdict'[c] \/ Pending(c)'
    <3>0. c \in Articles
      BY <1>1 DEF TypeOK
    <3>1. CASE c = v
      BY <1>1, <1>2, <3>0, <3>1 DEF Fresh, Open, TypeOK
    <3>2. CASE c # v
      <4>1. verdict'[c] = verdict[c]
        BY <1>1, <1>2, <3>2, <3>0 DEF TypeOK
      <4>2. Pending(c) => Waits(Retrieve(c)) \/ Waits(Verify(c))
        BY <3>2, DifferentJobs DEF Pending, Open
      <4>3. Waits(Retrieve(c)) \/ Waits(Verify(c)) => Pending(c)'
        BY <1>2, NothingOpen DEF Waits
      <4> QED BY <1>1, <4>1, <4>2, <4>3 DEF Owed
    <3> QED BY <3>1, <3>2
  <2> QED BY <1>2, <2>1 DEF Owed
<1> QED
  BY <1>2, <1>3, <1>4, NothingOpen DEF PipelineInv, Handling

LEMMA CommitKeeps ==
  ASSUME PipelineInv, BaseInv', NEW w, Workers = {w}, Commit(w)
  PROVE  PipelineInv'
<1> DEFINE e == at[w].key
<1>1. at[w].stage = "decided" /\ e \in Keys
  BY BusyRow DEF Commit, PipelineInv
<1>2. e # PageJob
  BY DEF Commit, PageJob
<1>3. e[2] \in Articles /\ e = <<e[1], e[2]>>
  BY <1>1, <1>2, KeyShape
<1>4. CASE e[1] = "parse"
  BY <1>1, <1>3, <1>4, ParseKeeps DEF Commit, Parse
<1>5. CASE e[1] = "extract"
  BY <1>1, <1>3, <1>5, ClaimsKeep DEF Commit, Extract
<1>6. CASE e[1] = "retrieve"
  BY <1>1, <1>3, <1>6, EvidenceKeeps DEF Commit, Retrieve
<1>7. CASE e[1] = "verify"
  BY <1>1, <1>3, <1>7, VerdictKeeps DEF Commit, Verify
<1> QED
  BY <1>4, <1>5, <1>6, <1>7 DEF Commit

LEMMA PipelineNext ==
  ASSUME OneWorker, PipelineInv, [Next]_vars
  PROVE  PipelineInv'
<1>1. PICK w : Workers = {w}
  BY DEF OneWorker
<1>2. BaseInv'
  BY BaseNext DEF PipelineInv
<1>3. ASSUME Handle(w) \/ Collect(w) \/ Fail(w) \/ Exit(w) PROVE PipelineInv'
  BY <1>1, <1>2, <1>3, MoveKeeps, StartKeeps, DecideKeeps, CommitKeeps, CommitRefreshKeeps,
     CollectKeeps DEF Handle
<1>4. ASSUME NEW k \in Keys, Recover(k) PROVE PipelineInv'
  BY <1>1, <1>2, <1>4, MoveKeeps
<1>5. CASE UNCHANGED vars
  BY <1>2, <1>5 DEF vars, data, PipelineInv, Known, Present, Handling, NewIs, Fresh, Follows, Owed,
     Pending, Waits, Open
<1> QED
  BY <1>1, <1>3, <1>4, <1>5 DEF Next

(* When all work is done no job waits. *)
LEMMA SettledWaitsForNothing ==
  ASSUME BaseInv, Settled, NEW k \in Keys
  PROVE  ~Waits(k)
<1>1. jobs[k] = NoJobs /\ \A w \in Workers : k \notin batch[w]
  BY DEF Settled, BaseInv, Accounted, Holds, NoJobs, Row
<1> QED
  BY <1>1 DEF Waits, NoJobs, Row

(* With one worker no official article is forgotten: when all work is done *)
(* every verdict has considered every official article that was extracted. *)
THEOREM OfficialsAreConsidered ==
  ASSUME OneWorker
  PROVE  Spec => []VerdictsKnowOfficials
<1>1. Init => PipelineInv
  <2> SUFFICES ASSUME Init PROVE PipelineInv
    OBVIOUS
  <2>1. Known
    BY JobKeys DEF Init, Known, Present, NoJobs, Row
  <2>2. Handling /\ Owed
    BY DEF Init, Handling, NewIs, Fresh, Follows, Open, Owed, Idle
  <2> QED BY <2>1, <2>2, BaseInit DEF PipelineInv
<1>2. ASSUME PipelineInv, BaseInv PROVE VerdictsKnowOfficials
  <2> SUFFICES ASSUME Settled, NEW o \in Official \cap extracted, NEW c \in claims
               PROVE  o \in verdict[c]
    BY DEF VerdictsKnowOfficials
  <2>1. c \in Articles
    BY <1>2 DEF BaseInv, TypeOK
  <2>2. \A k \in Keys : ~Waits(k)
    BY <1>2, SettledWaitsForNothing
  <2>3. ~Pending(c)
    BY <2>1, <2>2, JobKeys DEF Pending, Settled, Open
  <2> QED BY <1>2, <2>3 DEF PipelineInv, Owed
<1>3. PipelineInv => VerdictsKnowOfficials
  BY <1>2 DEF PipelineInv
<1> QED
  BY <1>1, <1>3, PipelineNext, PTL DEF Spec
-----------------------------------------------------------------------------
(* Why the page ends up current.  A job renews it if its handler, from its *)
(* beginning, comes to refresh_issue_cache: parse_article only if the      *)
(* article is attached by then.                                            *)
Renews(k) ==
  \/ k = PageJob
  \/ \E a \in Articles : k \in {Extract(a), Verify(a)} \/ (k = Parse(a) /\ a \in attached)

BusyWith(w, k) == at[w].stage # "idle" /\ at[w].key = k

(* A page that is out of date is somebody's to renew ... *)
PageOwed ==
  \/ page = View
  \/ \E k \in Keys : Renews(k) /\ (Waits(k) \/ \E w \in Workers : BusyWith(w, k))

(* ... and a refresh has seen all there is to show. *)
Looked ==
  \A w \in Workers : at[w].stage \in {"refreshing", "refreshed"} =>
    at[w].view = View /\ at[w].loaded = page

PageInv == BaseInv /\ Looked /\ PageOwed

(* Whoever was to renew the page still is. *)
LEMMA PageKept ==
  ASSUME PageOwed, NEW w, Workers = {w}, UNCHANGED <<page, attached, claims, verdict>>,
         \A k \in Keys : Renews(k) /\ (Waits(k) \/ BusyWith(w, k)) => Waits(k)' \/ BusyWith(w, k)'
  PROVE  PageOwed'
<1>1. View' = View /\ page' = page
  BY DEF View
<1>2. \A k : Renews(k)' <=> Renews(k)
  BY DEF Renews
<1>3. CASE page = View
  BY <1>1, <1>3 DEF PageOwed
<1>4. CASE page # View
  <2>1. PICK k \in Keys : Renews(k) /\ (Waits(k) \/ BusyWith(w, k))
    BY <1>4 DEF PageOwed
  <2>2. Renews(k)' /\ (Waits(k)' \/ BusyWith(w, k)')
    BY <1>2, <2>1
  <2> QED BY <2>2 DEF PageOwed
<1> QED
  BY <1>3, <1>4

(* A handler that raises, or whose worker exits, leaves its row waiting. *)
LEMMA BusyRowWaits ==
  ASSUME BaseInv, NEW w, Workers = {w}, NEW k \in Keys, BusyWith(w, k), Fail(w) \/ Exit(w)
  PROVE  Waits(k)'
<1>1. jobs[k] \in Rows /\ jobs[k].running = Holds(w, k) /\ Holds(w, k) \in {1, 2}
  BY DEF BaseInv, TypeOK, Accounted, Holds, BusyWith
<1>2. CASE Fail(w)
  <2>1. jobs'[k] = FailedRow(jobs[k])
    BY <1>2 DEF Fail, BusyWith, BaseInv, TypeOK
  <2> QED BY <1>1, <2>1 DEF Waits, FailedRow, Row, Rows
<1>3. CASE Exit(w)
  <2>1. jobs'[k] = LostRow(jobs[k], Holds(w, k))
    BY <1>3 DEF Exit
  <2> QED BY <1>1, <2>1 DEF Waits, LostRow, Row, Rows
<1> QED
  BY <1>2, <1>3

LEMMA MovePage ==
  ASSUME PageInv, BaseInv', NEW w, Workers = {w},
         Poll(w) \/ Fail(w) \/ Exit(w) \/ \E e \in Keys : Recover(e)
  PROVE  PageInv'
<1>1. BaseInv /\ TypeOK /\ Looked /\ PageOwed
  BY DEF PageInv, BaseInv
<1>2. UNCHANGED <<page, attached, claims, verdict>> /\ View' = View
  BY DEF Poll, Fail, Exit, Recover, data, View
<1>3. (at' = at /\ ~Fail(w) /\ ~Exit(w)) \/ (at'[w] = Idle /\ (Fail(w) \/ Exit(w)))
      \/ (at' = at /\ at[w] = Idle)
  BY <1>1 DEF Poll, Fail, Exit, Recover, TypeOK
<1>4. Looked'
  BY <1>1, <1>2, <1>3 DEF Looked, Idle
<1>5. PageOwed'
  <2>1. \A k \in Keys : Waits(k) => Waits(k)'
    BY <1>1, RowsMove
  <2>2. ASSUME NEW k \in Keys, BusyWith(w, k) PROVE Waits(k)' \/ BusyWith(w, k)'
    BY <1>1, <1>3, <2>2, BusyRowWaits DEF BusyWith, Idle
  <2> QED BY <1>1, <1>2, <2>1, <2>2, PageKept
<1> QED
  BY <1>4, <1>5 DEF PageInv

LEMMA StartPage ==
  ASSUME PageInv, BaseInv', NEW w, Workers = {w}, Start(w)
  PROVE  PageInv'
<1>1. BaseInv /\ TypeOK /\ Looked /\ PageOwed
  BY DEF PageInv, BaseInv
<1>2. PICK k \in batch[w] :
        /\ batch' = [batch EXCEPT ![w] = @ \ {k}]
        /\ at' = [at EXCEPT ![w] =
             [stage |-> IF IsPage(k) THEN "refreshing" ELSE "reading",
              key |-> k,
              docs |-> IF Judges(k) THEN evidence[k[2]] \cup attached ELSE {},
              view |-> View, loaded |-> page, new |-> {}]]
  BY DEF Start
<1>3. /\ UNCHANGED <<jobs, page, attached, claims, verdict>> /\ View' = View
      /\ at[w].stage = "idle"
  BY DEF Start, data, View
<1>4. /\ at'[w].key = k /\ at'[w].stage \in {"reading", "refreshing"}
      /\ at'[w].view = View /\ at'[w].loaded = page
      /\ batch'[w] = batch[w] \ {k}
  BY <1>1, <1>2 DEF TypeOK
<1>5. Looked'
  BY <1>3, <1>4 DEF Looked
<1>6. PageOwed'
  <2>1. ASSUME NEW x \in Keys, Waits(x) \/ BusyWith(w, x) PROVE Waits(x)' \/ BusyWith(w, x)'
    BY <1>3, <1>4, <2>1 DEF Waits, BusyWith
  <2> QED BY <1>1, <1>3, <2>1, PageKept
<1> QED
  BY <1>5, <1>6 DEF PageInv

LEMMA DecidePage ==
  ASSUME PageInv, BaseInv', NEW w, Workers = {w}, Decide(w) \/ Reload(w) \/ DecideRefresh(w)
  PROVE  PageInv'
<1>1. BaseInv /\ TypeOK /\ Looked /\ PageOwed
  BY DEF PageInv, BaseInv
<1>2. UNCHANGED <<jobs, batch, page, attached, claims, verdict>> /\ View' = View
  BY DEF Decide, Reload, DecideRefresh, data, View
<1>3. /\ at[w].stage # "idle" /\ at'[w].stage # "idle" /\ at'[w].key = at[w].key
      /\ Decide(w) => at'[w].stage = "decided"
      /\ Reload(w) => at'[w].view = View /\ at'[w].loaded = page
      /\ DecideRefresh(w) => /\ at[w].stage = "refreshing"
                             /\ at'[w].view = at[w].view /\ at'[w].loaded = at[w].loaded
  BY <1>1 DEF Decide, Reload, DecideRefresh, Moves, TypeOK
<1>4. Looked'
  BY <1>1, <1>2, <1>3 DEF Looked
<1>5. PageOwed'
  BY <1>1, <1>2, <1>3, PageKept DEF Waits, BusyWith
<1> QED
  BY <1>4, <1>5 DEF PageInv

(* search_news computes the page in the transaction that changes it. *)
LEMMA CollectPage ==
  ASSUME PageInv, BaseInv', NEW w, Workers = {w}, Collect(w)
  PROVE  PageInv'
<1>1. BaseInv /\ TypeOK /\ Looked /\ PageOwed
  BY DEF PageInv, BaseInv
<1>2. /\ UNCHANGED <<batch, at>> /\ at[w].stage = "idle"
      /\ \E a \in Articles : CollectSource(a) \/ SearchNews(a)
  BY DEF Collect
<1>3. Looked'
  BY <1>2 DEF Looked
<1>4. PageOwed'
  <2>1. ASSUME NEW a \in Articles, CollectSource(a) PROVE PageOwed'
    <3>1. PICK new : jobs' = Added(jobs, new)
      BY <2>1 DEF CollectSource
    <3>2. \A k \in Keys : Waits(k) => Waits(k)'
      BY <1>1, <1>2, <3>1, RowsGrow
    <3> QED BY <1>1, <1>2, <2>1, <3>2, PageKept DEF CollectSource, BusyWith
  <2>2. ASSUME NEW a \in Articles, SearchNews(a) PROVE PageOwed'
    <3>1. page' = View'
      BY <2>2 DEF SearchNews, View
    <3> QED BY <3>1 DEF PageOwed
  <2> QED BY <1>2, <2>1, <2>2
<1> QED
  BY <1>3, <1>4 DEF PageInv

(* A refresh that has seen all there is makes the page current, whichever  *)
(* columns it writes.                                                      *)
LEMMA CommitRefreshPage ==
  ASSUME PageInv, BaseInv', NEW w, Workers = {w}, CommitRefresh(w)
  PROVE  PageInv'
<1>1. BaseInv /\ TypeOK /\ Looked /\ at[w].view = View /\ at[w].loaded = page
  BY DEF PageInv, BaseInv, Looked, CommitRefresh
<1>2. View' = View /\ page' = Written(w) /\ at'[w].stage = "idle"
  BY <1>1 DEF CommitRefresh, View, TypeOK, Idle
<1>3. Written(w) = View
  BY <1>1 DEF Written, View
<1>4. PageOwed' /\ Looked'
  BY <1>2, <1>3 DEF PageOwed, Looked
<1> QED
  BY <1>4 DEF PageInv

(* The first commit of a handler: one that changes what there is to show   *)
(* goes on to refresh the page; one that ends had no page to renew.        *)
LEMMA CommitPage ==
  ASSUME PageInv, BaseInv', NEW w, Workers = {w}, Commit(w)
  PROVE  PageInv'
<1> DEFINE e == at[w].key
           a == at[w].key[2]
<1>1. BaseInv /\ TypeOK /\ PageOwed /\ at[w].stage = "decided" /\ e \in Keys
  BY BusyRow DEF PageInv, BaseInv, Commit
<1>2. e # PageJob
  BY DEF Commit, PageJob
<1>3. a \in Articles /\ e = <<e[1], a>>
  BY <1>1, <1>2, KeyShape
<1>4. ASSUME GoesOn(w) PROVE at'[w].stage = "between" /\ at'[w].key = e
  BY <1>1, <1>4 DEF GoesOn, Moves, TypeOK
<1>5. ASSUME GoesOn(w), NEW k \in Keys, k = e, Renews(k)' PROVE PageInv'
  <2>1. BusyWith(w, k)'
    BY <1>4, <1>5 DEF BusyWith
  <2>2. PageOwed'
    BY <1>1, <1>5, <2>1 DEF PageOwed
  <2>3. Looked'
    BY <1>4, <1>5 DEF Looked
  <2> QED BY <2>2, <2>3 DEF PageInv
<1>6. CASE e[1] = "parse" /\ (ParseAttached(w, a) \/ ParseMatched(w, a))
  <2>1. PICK k \in Keys, b \in Articles : k = e /\ b = a
    BY <1>1, <1>3
  <2>2. b \in attached' /\ GoesOn(w) /\ k = Parse(b)
    BY <1>3, <1>6, <2>1 DEF ParseAttached, ParseMatched, data, Parse
  <2> QED BY <1>5, <2>1, <2>2 DEF Renews
<1>7. CASE (e[1] = "extract" /\ CommitClaims(w, a)) \/ (e[1] = "verify" /\ CommitVerdict(w, a))
  <2>1. PICK k \in Keys, b \in Articles : k = e /\ b = a
    BY <1>1, <1>3
  <2>2. GoesOn(w) /\ k \in {Extract(b), Verify(b)}
    BY <1>3, <1>7, <2>1 DEF CommitClaims, CommitVerdict, Extract, Verify
  <2> QED BY <1>5, <2>1, <2>2 DEF Renews
<1>8. CASE \/ e[1] = "parse" /\ ParseUnmatched(w, a)
           \/ e[1] = "retrieve" /\ CommitEvidence(w, a)
  <2>1. /\ UNCHANGED <<batch, page, attached, claims, verdict>> /\ at'[w].stage = "idle"
        /\ (e = Parse(a) /\ a \notin attached) \/ e = Retrieve(a)
    BY <1>1, <1>3, <1>8 DEF ParseUnmatched, CommitEvidence, data, TypeOK, Idle, Parse, Retrieve
  <2>2. ~Renews(e)
    BY <1>2, <2>1, DifferentJobs DEF Renews
  <2>3. \E new : jobs' = Added(Ended(e), new)
    <3>1. CASE e[1] = "parse" /\ ParseUnmatched(w, a)
      <4>1. Ended(e) \in [Keys -> Rows]
        BY <1>1, BusyRow, EndedRows DEF TypeOK
      <4>2. jobs' = Ended(e) /\ Ended(e) = Added(Ended(e), {})
        BY <1>3, <3>1, <4>1 DEF ParseUnmatched, Parse, Added
      <4> QED BY <4>2
    <3>2. CASE e[1] = "retrieve" /\ CommitEvidence(w, a)
      BY <1>3, <3>2 DEF CommitEvidence, Retrieve
    <3> QED BY <1>8, <3>1, <3>2
  <2>4. \A k \in Keys : Waits(k) => Waits(k)'
    BY <1>1, <2>1, <2>3, RowsGrow
  <2>5. PageOwed'
    BY <1>1, <2>1, <2>2, <2>4, PageKept DEF BusyWith
  <2>6. Looked'
    BY <2>1 DEF Looked
  <2> QED BY <2>5, <2>6 DEF PageInv
<1> QED
  BY <1>6, <1>7, <1>8 DEF Commit

LEMMA PageNext ==
  ASSUME OneWorker, PageInv, [Next]_vars
  PROVE  PageInv'
<1>1. PICK w : Workers = {w}
  BY DEF OneWorker
<1>2. BaseInv'
  BY BaseNext DEF PageInv
<1>3. ASSUME Handle(w) \/ Collect(w) \/ Fail(w) \/ Exit(w) PROVE PageInv'
  BY <1>1, <1>2, <1>3, MovePage, StartPage, DecidePage, CommitPage, CommitRefreshPage, CollectPage
  DEF Handle
<1>4. ASSUME NEW k \in Keys, Recover(k) PROVE PageInv'
  BY <1>1, <1>2, <1>4, MovePage
<1>5. CASE UNCHANGED vars
  BY <1>2, <1>5 DEF vars, data, PageInv, Looked, PageOwed, View, Renews, Waits, BusyWith
<1> QED
  BY <1>1, <1>3, <1>4, <1>5 DEF Next

(* With one worker the page shows, when all work is done, the articles and *)
(* verdicts there are: after any commit that changes them, and any         *)
(* exception or exit between it and the refresh, a job is there that will  *)
(* refresh the page from its beginning.                                    *)
THEOREM PageEndsCurrent ==
  ASSUME OneWorker
  PROVE  Spec => []PageIsCurrent
<1>1. Init => PageInv
  BY BaseInit DEF Init, PageInv, Looked, PageOwed, Idle
<1>2. PageInv => PageIsCurrent
  BY SettledWaitsForNothing DEF PageInv, PageIsCurrent, PageOwed, BusyWith, Settled
<1> QED
  BY <1>1, <1>2, PageNext, PTL DEF Spec
=============================================================================
