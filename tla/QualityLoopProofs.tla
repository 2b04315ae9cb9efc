-------------------------- MODULE QualityLoopProofs --------------------------
(***************************************************************************)
(* With any number of workers the rows of the queue are counted correctly, *)
(* and only an overlap of two jobs of a kind could make the waves overrun  *)
(* their budget or their cooldown, or the paid searches the limit of the   *)
(* day; with one worker nothing does.                                      *)
(***************************************************************************)
EXTENDS QualityLoop, FiniteSetTheorems, TLAPS

OneWorker == \E w : Workers = {w}

Visit == [at : {"idle", "decided", "collecting", "researching", "ended"},
          job : Kinds \cup {None}, read : SUBSET Signals, row : Row, pending : BOOLEAN,
          round : Nat, spent : Nat]

(* A session that works has a job of the right kind, and what it read or    *)
(* counts is within the settings.                                           *)
Orderly(v) ==
  /\ v.at # "idle" => v.job \in Kinds
  /\ v.at = "decided" => v.job = "assess"
  /\ v.at = "collecting" => v.job \in Signals
  /\ v.at = "researching" => v.job = "research"
  /\ v.at # "researching" => v.spent = 0
  /\ v.row.attempts <= MaxAttempts /\ v.round <= MaxRounds + MaxAttempts

KeywordRow == [status : {"absent", "active", "inactive"}, due : BOOLEAN]

Typed ==
  /\ content \in Contents /\ issue \in Row /\ issue.attempts <= MaxAttempts
  /\ keyword \in [Signals -> KeywordRow]
  /\ charged \in Nat /\ changes \in 0..MaxChanges /\ faults \in 0..MaxFaults
  /\ session \in [Workers -> Visit] /\ \A w \in Workers : Orderly(session[w])

(* A running row for every session that works. *)
JobCount == [queued : Nat, running : Nat, failed : Nat]
On(v, k) == v.at # "idle" /\ v.job = k
Busy(k) == {w \in Workers : On(session[w], k)}

Queue ==
  /\ jobs \in [Kinds -> JobCount]
  /\ \A k \in Kinds : jobs[k].running = Cardinality(Busy(k))

AtMostOne(stage) ==
  \A u, w \in Workers : session[u].at = stage /\ session[w].at = stage => u = w

(* What an assessment read of the issue is what it still holds, except that *)
(* the cooldown may have passed.                                            *)
Fresh(v) ==
  v.at = "decided" =>
    /\ v.row.status = issue.status /\ v.row.attempts = issue.attempts
    /\ issue.next = v.row.next \/ (v.row.next = "future" /\ issue.next = "past")
    /\ v.row.next = "future" => v.pending

WaveInv ==
  /\ waves = issue.attempts
  /\ issue.next = "future" => issue.status = "needs_retry"
  /\ \A w \in Workers : Fresh(session[w])

(* The runs that are committed and those that are not yet. *)
LimitInv ==
  /\ charged <= DailyLimit
  /\ \A w \in Workers : charged + session[w].spent <= DailyLimit
-----------------------------------------------------------------------------
(* The queue's rows. *)

LEMMA KindsDiffer ==
  /\ {"assess", "research"} \subseteq Kinds /\ Signals \subseteq Kinds
  /\ "assess" \notin Signals /\ "research" \notin Signals /\ None \notin Kinds
<1>1. Signals \subseteq AllSignals
  BY DEF Signals, Gaps, Missing
<1>2. QED BY <1>1 DEF Kinds, AllSignals, None

LEMMA RestIsOrderly == Rest \in Visit /\ Orderly(Rest) /\ Rest.at = "idle" /\ Rest.spent = 0
BY QualityAssumption DEF Rest, Visit, Orderly, Row, None

(* What a session is that has entered a job, or done its work in one. *)
LEMMA EnteredIsOrderly ==
  ASSUME NEW k \in Kinds, NEW at \in {"collecting", "ended"}, at = "collecting" => k \in Signals
  PROVE  LET n == [Rest EXCEPT !.at = at, !.job = k]
         IN n \in Visit /\ Orderly(n) /\ n.at = at /\ n.job = k /\ n.spent = 0
<1> DEFINE n == [Rest EXCEPT !.at = at, !.job = k]
<1>1. /\ n.at = at /\ n.job = k /\ n.read = {} /\ n.pending = FALSE /\ n.round = 0 /\ n.spent = 0
      /\ n.row = Rest.row /\ Rest.row \in Row /\ Rest.row.attempts = 0
  BY DEF Rest, Row
<1>2. n \in Visit
  BY RestIsOrderly DEF Visit
<1> HIDE DEF n
<1>3. Orderly(n)
  BY <1>1, QualityAssumption DEF Orderly
<1>4. QED BY <1>1, <1>2, <1>3 DEF n

LEMMA QueuedRows ==
  ASSUME NEW js \in [Kinds -> JobCount], NEW k \in Kinds
  PROVE  /\ Queued(js, k) \in [Kinds -> JobCount]
         /\ \A h \in Kinds : Queued(js, k)[h].running = js[h].running
<1> DEFINE row == [js[k] EXCEPT !.queued = @ + 1]
<1>1. row \in JobCount /\ row.running = js[k].running
  BY DEF JobCount
<1>2. Queued(js, k) = js \/ Queued(js, k) = [js EXCEPT ![k] = row]
  BY DEF Queued
<1> HIDE DEF row
<1>3. QED BY <1>1, <1>2

LEMMA StartedRows ==
  ASSUME jobs \in [Kinds -> JobCount], NEW k \in Kinds, Starts(k)
  PROVE  \E row \in JobCount :
           jobs' = [jobs EXCEPT ![k] = row] /\ row.running = jobs[k].running + 1
<1>1. PICK from \in {"queued", "failed"} :
        /\ jobs[k][from] > 0
        /\ jobs' = [jobs EXCEPT ![k][from] = @ - 1, ![k].running = @ + 1]
  BY DEF Starts
<1>2. jobs[k] \in JobCount
  OBVIOUS
<1>3. CASE from = "queued"
  <2> DEFINE row == [jobs[k] EXCEPT !.queued = @ - 1, !.running = @ + 1]
  <2>1. jobs[k].queued - 1 \in Nat /\ jobs[k].running + 1 \in Nat
    BY <1>1, <1>2, <1>3 DEF JobCount
  <2>2. row \in JobCount /\ row.running = jobs[k].running + 1
    BY <1>2, <2>1 DEF JobCount
  <2>3. jobs' = [jobs EXCEPT ![k] = row]
    BY <1>1, <1>2, <1>3
  <2> HIDE DEF row
  <2>4. QED BY <2>2, <2>3
<1>4. CASE from = "failed"
  <2> DEFINE row == [jobs[k] EXCEPT !.failed = @ - 1, !.running = @ + 1]
  <2>1. jobs[k].failed - 1 \in Nat /\ jobs[k].running + 1 \in Nat
    BY <1>1, <1>2, <1>4 DEF JobCount
  <2>2. row \in JobCount /\ row.running = jobs[k].running + 1
    BY <1>2, <2>1 DEF JobCount
  <2>3. jobs' = [jobs EXCEPT ![k] = row]
    BY <1>1, <1>2, <1>4
  <2> HIDE DEF row
  <2>4. QED BY <2>2, <2>3
<1>5. QED BY <1>1, <1>3, <1>4

(* A row with one executor less, and one failure more or not. *)
LEMMA LeftRow ==
  ASSUME NEW c \in JobCount, c.running > 0
  PROVE  /\ [c EXCEPT !.running = @ - 1] \in JobCount
         /\ [c EXCEPT !.running = @ - 1].running = c.running - 1
         /\ [c EXCEPT !.running = @ - 1, !.failed = @ + 1] \in JobCount
         /\ [c EXCEPT !.running = @ - 1, !.failed = @ + 1].running = c.running - 1
<1>1. c.running - 1 \in Nat /\ c.failed + 1 \in Nat
  BY DEF JobCount
<1>2. QED BY <1>1 DEF JobCount
-----------------------------------------------------------------------------
(* Sessions and the running rows. *)

LEMMA BusyFinite == \A k : IsFiniteSet(Busy(k)) /\ Cardinality(Busy(k)) \in Nat
<1> SUFFICES ASSUME NEW k PROVE IsFiniteSet(Busy(k)) /\ Cardinality(Busy(k)) \in Nat
  OBVIOUS
<1>1. Busy(k) \subseteq Workers
  BY DEF Busy
<1>2. QED BY <1>1, FS_Subset, FS_CardinalityType, QualityAssumption

LEMMA BusyRuns ==
  ASSUME Queue, NEW w \in Workers, NEW k \in Kinds, On(session[w], k)
  PROVE  jobs[k].running > 0
<1>1. w \in Busy(k) /\ IsFiniteSet(Busy(k)) /\ jobs[k].running = Cardinality(Busy(k))
  BY BusyFinite DEF Queue, Busy
<1>2. Cardinality(Busy(k)) # 0 /\ Cardinality(Busy(k)) \in Nat
  BY <1>1, FS_EmptySet, FS_CardinalityType
<1>3. QED BY <1>1, <1>2

(* Nobody begins or leaves a job; rows may be queued. *)
LEMMA QueueStep ==
  ASSUME Queue, jobs' \in [Kinds -> JobCount],
         \A k \in Kinds : jobs'[k].running = jobs[k].running,
         \A k \in Kinds, u \in Workers : On(session'[u], k) <=> On(session[u], k)
  PROVE  Queue'
<1>1. \A k \in Kinds : Busy(k)' = Busy(k)
  BY DEF Busy, On
<1>2. QED BY <1>1 DEF Queue

LEMMA JoinJob ==
  ASSUME Queue, Typed, NEW w \in Workers, NEW k \in Kinds, NEW n,
         Starts(k), session[w].at = "idle", session' = [session EXCEPT ![w] = n], On(n, k)
  PROVE  Queue'
<1>1. PICK row \in JobCount :
        jobs' = [jobs EXCEPT ![k] = row] /\ row.running = jobs[k].running + 1
  BY StartedRows DEF Queue
<1>2. ASSUME NEW h \in Kinds PROVE jobs'[h].running = Cardinality(Busy(h)')
  <2>1. w \notin Busy(h) /\ IsFiniteSet(Busy(h)) /\ jobs[h].running = Cardinality(Busy(h))
    BY BusyFinite DEF Queue, Busy, On
  <2>2. CASE h = k
    <3>1. Busy(h)' = Busy(h) \cup {w}
      BY <2>2 DEF Busy, Typed
    <3>2. Cardinality(Busy(h) \cup {w}) = Cardinality(Busy(h)) + 1
      BY <2>1, FS_AddElement
    <3>3. QED BY <1>1, <2>1, <2>2, <3>1, <3>2 DEF Queue
  <2>3. CASE h # k
    <3>1. Busy(h)' = Busy(h)
      BY <2>1, <2>3 DEF Busy, On, Typed
    <3>2. QED BY <1>1, <2>1, <2>3, <3>1 DEF Queue
  <2>4. QED BY <2>2, <2>3
<1>3. QED BY <1>1, <1>2 DEF Queue

(* The rows before the session leaves may have gained queued ones. *)
LEMMA LeaveJob ==
  ASSUME Queue, Typed, NEW w \in Workers, NEW k \in Kinds, On(session[w], k),
         session' = [session EXCEPT ![w] = Rest], NEW js \in [Kinds -> JobCount],
         \A h \in Kinds : js[h].running = jobs[h].running,
         \/ jobs' = [js EXCEPT ![k].running = @ - 1]
         \/ jobs' = [js EXCEPT ![k].running = @ - 1, ![k].failed = @ + 1]
  PROVE  Queue'
<1>1. w \in Busy(k) /\ IsFiniteSet(Busy(k)) /\ jobs[k].running = Cardinality(Busy(k))
  BY BusyFinite DEF Queue, Busy
<1>2. js[k] \in JobCount /\ js[k].running > 0
  BY BusyRuns
<1>3. PICK row \in JobCount : jobs' = [js EXCEPT ![k] = row] /\ row.running = jobs[k].running - 1
  <2> DEFINE a == [js[k] EXCEPT !.running = @ - 1]
             b == [js[k] EXCEPT !.running = @ - 1, !.failed = @ + 1]
  <2>1. /\ a \in JobCount /\ a.running = js[k].running - 1
        /\ b \in JobCount /\ b.running = js[k].running - 1
    BY <1>2, LeftRow
  <2>2. jobs' = [js EXCEPT ![k] = a] \/ jobs' = [js EXCEPT ![k] = b]
    OBVIOUS
  <2> HIDE DEF a, b
  <2>3. QED BY <2>1, <2>2
<1>4. Busy(k)' = Busy(k) \ {w}
  BY RestIsOrderly DEF Busy, On, Typed
<1>5. Cardinality(Busy(k) \ {w}) = Cardinality(Busy(k)) - 1
  BY <1>1, FS_RemoveElement
<1>6. \A h \in Kinds : h # k => Busy(h)' = Busy(h)
  BY RestIsOrderly DEF Busy, On, Typed
<1>7. QED BY <1>1, <1>3, <1>4, <1>5, <1>6 DEF Queue-----------------------------------------------------------------------------
(* Types. *)

LEMMA TypedStep ==
  ASSUME Typed, NEW w \in Workers, NEW n \in Visit, Orderly(n), session' = [session EXCEPT ![w] = n],
         content' \in Contents, issue' \in Row, issue'.attempts <= MaxAttempts,
         keyword' \in [Signals -> KeywordRow], charged' \in Nat,
         changes' \in 0..MaxChanges, faults' \in 0..MaxFaults
  PROVE  Typed'
BY DEF Typed

(* What Ends leaves of a session that works. *)
LEMMA EndsSession ==
  ASSUME Typed, NEW w \in Workers, session[w].at # "idle", Ends(w)
  PROVE  \E n \in Visit : /\ session' = [session EXCEPT ![w] = n] /\ Orderly(n)
                          /\ n.at = "ended" /\ n.spent = 0 /\ n.job = session[w].job
<1>1. session[w].job \in Kinds
  BY DEF Typed, Orderly
<1>2. QED BY <1>1, EnteredIsOrderly DEF Ends

LEMMA UpdatedIssue ==
  ASSUME issue \in Row, issue.attempts <= MaxAttempts, NEW old \in Row,
         NEW new \in Row, new.attempts <= MaxAttempts
  PROVE  /\ Updated(old, new) \in Row
         /\ Updated(old, new).attempts <= MaxAttempts
BY DEF Updated, Row

LEMMA KeywordsChanged ==
  ASSUME keyword \in [Signals -> KeywordRow]
  PROVE  /\ Deactivated \in [Signals -> KeywordRow]
         /\ \A S : [s \in Signals |-> IF s \in S THEN [keyword[s] EXCEPT !.status = "active"]
                                     ELSE keyword[s]] \in [Signals -> KeywordRow]
         /\ \A s : [keyword EXCEPT ![s].status = "inactive"] \in [Signals -> KeywordRow]
         /\ \A s : [keyword EXCEPT ![s].due = FALSE] \in [Signals -> KeywordRow]
         /\ \A s : [keyword EXCEPT ![s].due = TRUE] \in [Signals -> KeywordRow]
<1>1. ASSUME NEW c \in KeywordRow
      PROVE  /\ [c EXCEPT !.status = "active"] \in KeywordRow
             /\ [c EXCEPT !.status = "inactive"] \in KeywordRow
             /\ [c EXCEPT !.due = FALSE] \in KeywordRow
             /\ [c EXCEPT !.due = TRUE] \in KeywordRow
  BY DEF KeywordRow
<1>2. Deactivated \in [Signals -> KeywordRow]
  BY <1>1 DEF Deactivated
<1>3. ASSUME NEW S
      PROVE  [s \in Signals |-> IF s \in S THEN [keyword[s] EXCEPT !.status = "active"]
                                ELSE keyword[s]] \in [Signals -> KeywordRow]
  BY <1>1
<1>4. ASSUME NEW s
      PROVE  /\ [keyword EXCEPT ![s].status = "inactive"] \in [Signals -> KeywordRow]
             /\ [keyword EXCEPT ![s].due = FALSE] \in [Signals -> KeywordRow]
             /\ [keyword EXCEPT ![s].due = TRUE] \in [Signals -> KeywordRow]
  BY <1>1
<1>5. QED BY <1>2, <1>3, <1>4

LEMMA FaultCounts == ASSUME Typed, faults < MaxFaults, faults' = faults + 1 PROVE faults' \in 0..MaxFaults
BY QualityAssumption DEF Typed

LEMMA ChargedAfter ==
  ASSUME Typed, NEW w \in Workers,
         charged' = charged + session[w].spent + (IF WebSearch(w) THEN 1 ELSE 0)
  PROVE  charged' \in Nat
<1>1. session[w].spent \in Nat /\ charged \in Nat
  BY DEF Typed, Visit
<1>2. QED BY <1>1-----------------------------------------------------------------------------
(* Every action keeps the types and the count of running rows. *)

(* A session does something, with its job or without one. *)
LEMMA QueueKept ==
  ASSUME Queue, Typed, NEW w \in Workers, NEW n, session' = [session EXCEPT ![w] = n],
         \A k \in Kinds : On(n, k) <=> On(session[w], k),
         \/ UNCHANGED jobs
         \/ \E k \in {"assess", "research"} : jobs' = Queued(jobs, k)
  PROVE  Queue'
<1>1. \A k \in Kinds, u \in Workers : On(session'[u], k) <=> On(session[u], k)
  BY DEF Typed
<1>2. /\ jobs' \in [Kinds -> JobCount]
      /\ \A k \in Kinds : jobs'[k].running = jobs[k].running
  BY QueuedRows, KindsDiffer DEF Queue
<1>3. QED BY <1>1, <1>2, QueueStep

LEMMA ReadOfIssue ==
  ASSUME Typed, NEW w \in Workers, StartAssess(w)
  PROVE  \E n \in Visit :
           /\ session' = [session EXCEPT ![w] = n] /\ Orderly(n) /\ n.at = "decided"
           /\ n.job = "assess" /\ n.row = issue /\ n.spent = 0
           /\ issue.next = "future" => n.pending
<1> DEFINE gaps == Gaps(content)
           wait == WavePending
           n == [Rest EXCEPT !.at = "decided", !.job = "assess", !.read = gaps,
                             !.row = issue, !.pending = wait]
<1>1. gaps \in SUBSET Signals
  BY DEF Typed, Signals
<1>2. wait \in BOOLEAN /\ (issue.next = "future" => wait)
  BY DEF WavePending
<1>3. session' = [session EXCEPT ![w] = n]
  BY DEF StartAssess
<1> HIDE DEF gaps, wait
<1>4. /\ n.at = "decided" /\ n.job = "assess" /\ n.read = gaps /\ n.row = issue
      /\ n.pending = wait /\ n.round = 0 /\ n.spent = 0
  BY DEF Rest
<1>5. n \in Visit
  BY <1>1, <1>2, KindsDiffer, RestIsOrderly DEF Visit, Typed
<1> HIDE DEF n
<1>6. Orderly(n)
  BY <1>4, KindsDiffer, QualityAssumption DEF Orderly, Typed
<1>7. QED BY <1>2, <1>3, <1>4, <1>5, <1>6

LEMMA StartKeeps ==
  ASSUME Typed, Queue, NEW w \in Workers, Start(w)
  PROVE  Typed' /\ Queue'
<1>1. CASE StartAssess(w)
  <2>1. PICK n \in Visit : /\ session' = [session EXCEPT ![w] = n] /\ Orderly(n)
                           /\ n.at = "decided" /\ n.job = "assess"
    BY <1>1, ReadOfIssue
  <2>2. Typed'
    BY <1>1, <2>1, TypedStep DEF StartAssess, Typed
  <2>3. On(n, "assess") /\ "assess" \in Kinds
    BY <2>1, KindsDiffer DEF On
  <2>4. QED BY <1>1, <2>1, <2>2, <2>3, JoinJob DEF StartAssess
<1>2. CASE StartResearch(w)
  <2>1. PICK first \in 1..issue.attempts : session' = [session EXCEPT ![w] = [Rest EXCEPT
          !.at = "researching", !.job = "research", !.round = first]]
    BY <1>2 DEF StartResearch
  <2> DEFINE n == [Rest EXCEPT !.at = "researching", !.job = "research", !.round = first]
  <2>2. first \in Nat /\ first <= MaxRounds + MaxAttempts
    BY <2>1, QualityAssumption DEF Typed, Row
  <2>3. /\ n.at = "researching" /\ n.job = "research" /\ n.round = first /\ n.row = Rest.row
        /\ Rest.row.attempts = 0
    BY DEF Rest
  <2>4. n \in Visit
    BY <2>2, KindsDiffer, RestIsOrderly DEF Visit
  <2> HIDE DEF n
  <2>5. Orderly(n)
    BY <2>2, <2>3, KindsDiffer, QualityAssumption DEF Orderly
  <2>6. session' = [session EXCEPT ![w] = n]
    BY <2>1 DEF n
  <2>7. Typed'
    BY <1>2, <2>4, <2>5, <2>6, TypedStep DEF StartResearch, Typed
  <2>8. On(n, "research") /\ "research" \in Kinds
    BY <2>3, KindsDiffer DEF On
  <2>9. QED BY <1>2, <2>6, <2>7, <2>8, JoinJob DEF StartResearch
<1>3. ASSUME NEW s \in Signals, StartSearch(w, s) PROVE Typed' /\ Queue'
  <2>1. PICK at \in {"collecting", "ended"} : Enters(w, s, at)
    BY <1>3 DEF StartSearch
  <2> DEFINE n == [Rest EXCEPT !.at = at, !.job = s]
  <2>2. n \in Visit /\ Orderly(n) /\ n.at = at /\ n.job = s /\ s \in Kinds
    BY <2>1, KindsDiffer, EnteredIsOrderly, ZenonT(30)
  <2>3. session' = [session EXCEPT ![w] = n]
    BY <2>1 DEF Enters
  <2> HIDE DEF n
  <2>4. keyword' \in [Signals -> KeywordRow]
    BY <1>3, KeywordsChanged DEF StartSearch, Typed
  <2>5. Typed'
    BY <1>3, <2>2, <2>3, <2>4, TypedStep DEF StartSearch, Typed
  <2>6. On(n, s)
    BY <2>1, <2>2 DEF On
  <2>7. QED BY <1>3, <2>2, <2>3, <2>5, <2>6, JoinJob DEF StartSearch
<1>4. QED BY <1>1, <1>2, <1>3 DEF Start

(* The commit of an assessment: what becomes of the issue and its keywords. *)
LEMMA AssessedIssue ==
  ASSUME Typed, NEW w \in Workers, CommitAssess(w)
  PROVE  /\ issue' \in Row /\ issue'.attempts <= MaxAttempts
         /\ keyword' \in [Signals -> KeywordRow]
         /\ UNCHANGED jobs \/ jobs' = Queued(jobs, "research")
<1> DEFINE old == session[w].row
<1>1. old \in Row /\ old.attempts <= MaxAttempts /\ issue \in Row /\ issue.attempts <= MaxAttempts
  BY DEF Typed, Visit, Orderly
<1>2. ASSUME NEW status \in Settled, Settle(w, status)
      PROVE  issue' \in Row /\ issue'.attempts <= MaxAttempts /\ keyword' \in [Signals -> KeywordRow]
             /\ UNCHANGED jobs
  <2> DEFINE new == [status |-> status, attempts |-> old.attempts, next |-> "unset"]
  <2>1. new \in Row /\ new.attempts <= MaxAttempts
    BY <1>1 DEF Row
  <2>2. issue' = Updated(old, new) /\ keyword' = Deactivated /\ UNCHANGED jobs
    BY <1>2 DEF Settle
  <2> HIDE DEF old, new
  <2>3. QED BY <1>1, <2>1, <2>2, UpdatedIssue, KeywordsChanged DEF Typed
<1>3. ASSUME ~Spent(w), SendWave(w)
      PROVE  issue' \in Row /\ issue'.attempts <= MaxAttempts /\ keyword' \in [Signals -> KeywordRow]
             /\ jobs' = Queued(jobs, "research")
  <2> DEFINE new == [status |-> "needs_retry", attempts |-> old.attempts + 1, next |-> "future"]
  <2>1. new \in Row /\ new.attempts <= MaxAttempts
    BY <1>1, <1>3, QualityAssumption DEF Row, Spent
  <2>2. /\ issue' = Updated(old, new) /\ jobs' = Queued(jobs, "research")
        /\ keyword' = [s \in Signals |-> IF s \in session[w].read
                         THEN [keyword[s] EXCEPT !.status = "active"] ELSE keyword[s]]
    BY <1>3 DEF SendWave, QueuesResearch
  <2> HIDE DEF old, new
  <2>3. QED BY <1>1, <2>1, <2>2, UpdatedIssue, KeywordsChanged DEF Typed
<1>4. {"sufficient", "exhausted"} = Settled
  BY DEF Settled
<1>5. QED BY <1>1, <1>2, <1>3, <1>4 DEF CommitAssess, Typed

LEMMA StepKeeps ==
  ASSUME Typed, Queue, NEW w \in Workers, Step(w)
  PROVE  Typed' /\ Queue'
<1> DEFINE v == session[w]
<1>1. v \in Visit /\ Orderly(v) /\ jobs \in [Kinds -> JobCount]
  BY DEF Typed, Queue
<1>2. ASSUME v.at # "idle", Ends(w), content' \in Contents, issue' \in Row,
             issue'.attempts <= MaxAttempts, keyword' \in [Signals -> KeywordRow],
             charged' \in Nat, UNCHANGED <<changes, faults>>,
             UNCHANGED jobs \/ \E k \in {"assess", "research"} : jobs' = Queued(jobs, k)
      PROVE  Typed' /\ Queue'
  <2>1. PICK n \in Visit : /\ session' = [session EXCEPT ![w] = n] /\ Orderly(n)
                           /\ n.at = "ended" /\ n.job = v.job
    BY <1>2, EndsSession
  <2>2. Typed'
    BY <1>2, <2>1, TypedStep DEF Typed
  <2>3. \A k \in Kinds : On(n, k) <=> On(v, k)
    BY <1>2, <2>1 DEF On
  <2>4. QED BY <1>2, <2>1, <2>2, <2>3, QueueKept
<1>3. CASE CommitAssess(w)
  <2>1. v.at # "idle" /\ Ends(w) /\ UNCHANGED <<content, charged, changes, faults>>
    BY <1>3 DEF CommitAssess, Settle, SendWave
  <2>2. QED BY <1>2, <1>3, <2>1, AssessedIssue DEF Typed
<1>4. CASE CommitSearch(w)
  <2>1. keyword' \in [Signals -> KeywordRow]
    BY <1>4, KeywordsChanged DEF CommitSearch, Typed
  <2>2. QED BY <1>2, <1>4, <2>1 DEF CommitSearch, Found, QueuesAssessment, Typed
<1>5. CASE CommitResearch(w)
  <2>1. charged' \in Nat
    BY <1>5, ChargedAfter DEF CommitResearch
  <2>2. QED BY <1>2, <1>5, <2>1 DEF CommitResearch, Found, QueuesAssessment, Typed
<1>6. CASE EmptyRound(w)
  <2> DEFINE more == IF WebSearch(w) THEN v.spent + 1 ELSE v.spent
             n == [v EXCEPT !.round = @ + 1, !.spent = more]
  <2>1. session' = [session EXCEPT ![w] = n] /\ v.at = "researching"
    BY <1>1, <1>6 DEF EmptyRound, Visit
  <2>2. v.round + 1 \in Nat /\ v.round + 1 <= MaxRounds + MaxAttempts
    BY <1>1, <1>6, QualityAssumption DEF EmptyRound, LastRound, Visit
  <2>3. more \in Nat
    BY <1>1 DEF Visit
  <2> HIDE DEF more
  <2>4. n \in Visit /\ n.at = v.at /\ n.job = v.job /\ n.row = v.row /\ n.round = v.round + 1
    BY <1>1, <2>2, <2>3 DEF Visit
  <2> HIDE DEF n
  <2>5. Orderly(n)
    BY <1>1, <2>1, <2>2, <2>4 DEF Orderly
  <2>6. Typed'
    BY <1>6, <2>1, <2>4, <2>5, TypedStep DEF EmptyRound, Typed
  <2>7. \A k \in Kinds : On(n, k) <=> On(v, k)
    BY <2>4 DEF On
  <2>8. QED BY <1>6, <2>1, <2>6, <2>7, QueueKept DEF EmptyRound
<1>7. CASE EndJob(w)
  <2>1. v.job \in Kinds /\ On(v, v.job)
    BY <1>1, <1>7 DEF EndJob, Orderly, On
  <2>2. Typed'
    BY <1>7, RestIsOrderly, TypedStep DEF EndJob, Typed
  <2>3. QED BY <1>1, <1>7, <2>1, <2>2, LeaveJob DEF EndJob
<1>8. QED BY <1>3, <1>4, <1>5, <1>6, <1>7 DEF Step

LEMMA FailureKeeps ==
  ASSUME Typed, Queue, NEW w \in Workers, SearchFails(w) \/ ResearchFails(w) \/ Fault(w)
  PROVE  Typed' /\ Queue'
<1> DEFINE k == session[w].job
<1>1. k \in Kinds /\ On(session[w], k) /\ jobs \in [Kinds -> JobCount]
  BY DEF SearchFails, ResearchFails, Fault, Typed, Orderly, On, Queue
<1>2. session' = [session EXCEPT ![w] = Rest] /\ faults' \in 0..MaxFaults
  BY FaultCounts DEF SearchFails, ResearchFails, Fault, RowFails
<1>3. keyword' \in [Signals -> KeywordRow]
  BY KeywordsChanged DEF SearchFails, ResearchFails, Fault, Typed
<1>4. charged' \in Nat
  BY ChargedAfter DEF SearchFails, ResearchFails, Fault, Typed
<1>5. content' \in Contents /\ UNCHANGED <<issue, changes>>
  BY DEF SearchFails, ResearchFails, Fault, Found, Typed
<1>6. Typed'
  BY <1>2, <1>3, <1>4, <1>5, RestIsOrderly, TypedStep DEF Typed
<1>7. PICK js \in [Kinds -> JobCount] :
        /\ \A h \in Kinds : js[h].running = jobs[h].running
        /\ jobs' = [js EXCEPT ![k].running = @ - 1, ![k].failed = @ + 1]
  <2>1. CASE RowFails(w)
    BY <1>1, <2>1 DEF RowFails
  <2>2. CASE ResearchFails(w)
    <3>1. jobs' = [Queued(jobs, "assess") EXCEPT ![k].running = @ - 1, ![k].failed = @ + 1]
      BY <2>2 DEF ResearchFails
    <3>2. QED BY <1>1, <3>1, QueuedRows, KindsDiffer
  <2>3. QED BY <2>1, <2>2 DEF SearchFails, Fault
<1>8. QED BY <1>1, <1>2, <1>6, <1>7, LeaveJob

LEMMA OutsideKeeps ==
  ASSUME Typed, Queue, (\E s \in Signals : BecomesDue(s)) \/ Tick \/ CoolDown \/ Change
  PROVE  Typed' /\ Queue'
<1>1. UNCHANGED <<session, charged, faults>>
  BY DEF BecomesDue, Tick, CoolDown, Change
<1>2. keyword' \in [Signals -> KeywordRow]
  BY KeywordsChanged DEF BecomesDue, Tick, CoolDown, Change, Typed
<1>3. issue' \in Row /\ issue'.attempts <= MaxAttempts
  BY DEF BecomesDue, Tick, CoolDown, Change, Typed, Row
<1>4. content' \in Contents /\ changes' \in 0..MaxChanges
  BY QualityAssumption DEF BecomesDue, Tick, CoolDown, Change, Found, Typed
<1>5. Typed'
  BY <1>1, <1>2, <1>3, <1>4 DEF Typed
<1>6. /\ jobs' \in [Kinds -> JobCount]
      /\ \A k \in Kinds : jobs'[k].running = jobs[k].running
  <2>1. CASE UNCHANGED jobs
    BY <2>1 DEF Queue
  <2>2. CASE Tick
    <3>1. ASSUME NEW k \in Kinds
          PROVE  LET r == IF k \in Due THEN [jobs[k] EXCEPT !.queued = @ + 1] ELSE jobs[k]
                 IN r \in JobCount /\ r.running = jobs[k].running
      <4>1. jobs[k] \in JobCount
        BY DEF Queue
      <4>2. QED BY <4>1 DEF JobCount
    <3>2. CASE jobs' = [k \in Kinds |-> IF k \in Due THEN [jobs[k] EXCEPT !.queued = @ + 1]
                                        ELSE jobs[k]]
      BY <3>1, <3>2
    <3>3. QED BY <2>1, <2>2, <3>2 DEF Tick
  <2>3. CASE Change
    BY <2>3, QueuedRows, KindsDiffer DEF Change, QueuesAssessment, Queue
  <2>4. QED BY <2>1, <2>2, <2>3 DEF BecomesDue, CoolDown
<1>7. QED BY <1>1, <1>5, <1>6, QueueStep DEF On
Base == Typed /\ Queue

LEMMA BaseInit == Init => Base
<1> SUFFICES ASSUME Init PROVE Base
  OBVIOUS
<1>1. issue \in Row /\ issue.attempts = 0 /\ keyword \in [Signals -> KeywordRow]
  BY DEF Init, Row, KeywordRow
<1>2. jobs \in [Kinds -> JobCount] /\ \A k \in Kinds : jobs[k].running = 0
  BY DEF Init, JobCount
<1>3. \A k \in Kinds : Busy(k) = {}
  BY RestIsOrderly DEF Init, Busy, On
<1>4. Typed
  BY <1>1, RestIsOrderly, QualityAssumption DEF Init, Typed
<1>5. QED BY <1>2, <1>3, <1>4, FS_EmptySet DEF Base, Queue

LEMMA BaseNext == Base /\ [Next]_vars => Base'
<1> SUFFICES ASSUME Base, [Next]_vars PROVE Base'
  OBVIOUS
<1>1. CASE UNCHANGED vars
  <2>1. UNCHANGED <<content, issue, keyword, charged, jobs, session, changes, faults>>
    BY <1>1 DEF vars
  <2>2. Typed'
    BY <2>1 DEF Base, Typed
  <2>3. QED BY <2>1, <2>2, QueueStep DEF Base, Queue, On
<1>2. CASE Next
  BY <1>2, StartKeeps, StepKeeps, FailureKeeps, OutsideKeeps DEF Next, Base
<1>3. QED BY <1>1, <1>2

(* The variables have their types, with any number of workers: a running    *)
(* row for every session that works, so that no count drops below zero,     *)
(* whatever fails; the attempts stay within the setting even when           *)
(* assessments overlap.                                                     *)
THEOREM QualityTypeCorrect == Spec => []TypeOK
<1>1. Base => TypeOK
  <2> SUFFICES ASSUME Base PROVE TypeOK
    OBVIOUS
  <2>1. \A w \in Workers : session[w].round \in 0..(MaxRounds + MaxAttempts)
    BY QualityAssumption DEF Base, Typed, Visit, Orderly
  <2>2. QED BY <2>1 DEF Base, Typed, Queue, Visit, KeywordRow, JobCount, TypeOK
<1>2. QED BY <1>1, BaseInit, BaseNext, PTL DEF Spec
-----------------------------------------------------------------------------
(* The waves. *)

(* Nothing touches the issue but a commit of an assessment and the cooldown. *)
LEMMA OthersLeaveIssue ==
  ASSUME [Next]_vars, ~CoolDown, \A w \in Workers : ~CommitAssess(w)
  PROVE  UNCHANGED <<issue, waves>>
BY DEF Next, Start, Step, StartAssess, StartResearch, StartSearch, CommitSearch, EmptyRound,
       CommitResearch, EndJob, SearchFails, ResearchFails, Fault, BecomesDue, Tick, Change, vars

(* A wave is sent by a session that read what the issue still holds, after  *)
(* the cooldown.                                                            *)
LEMMA CommitWave ==
  ASSUME Typed, NEW w \in Workers, CommitAssess(w), Fresh(session[w])
  PROVE  /\ \/ issue'.attempts = issue.attempts /\ UNCHANGED waves
            \/ /\ issue'.attempts = issue.attempts + 1 /\ waves' = waves + 1
               /\ issue.next = "future" => issue.status # "needs_retry"
         /\ issue'.next = "future" =>
               UNCHANGED issue \/ issue'.status = "needs_retry"
<1> DEFINE old == session[w].row
<1>1. /\ old \in Row /\ issue \in Row /\ session[w].at = "decided"
      /\ old.status = issue.status /\ old.attempts = issue.attempts
      /\ issue.next = old.next \/ (old.next = "future" /\ issue.next = "past")
      /\ old.next = "future" => session[w].pending
  BY DEF Typed, Visit, CommitAssess, Fresh
<1>2. ASSUME NEW status, Settle(w, status)
      PROVE  issue'.attempts = issue.attempts /\ issue'.next = "unset" /\ UNCHANGED waves
  BY <1>1, <1>2 DEF Settle, Updated
<1>3. ASSUME SendWave(w), ~(old.status = "needs_retry" /\ session[w].pending)
      PROVE  /\ issue'.attempts = issue.attempts + 1 /\ waves' = waves + 1
             /\ issue'.status = "needs_retry"
             /\ issue.next = "future" => issue.status # "needs_retry"
  BY <1>1, <1>3 DEF SendWave, Updated, Row
<1>4. QED BY <1>2, <1>3 DEF CommitAssess

(* Only StartAssess brings a session to its decision. *)
LEMMA DecidedSessions ==
  ASSUME session \in [Workers -> Visit], Typed, [Next]_vars, NEW w \in Workers, ~CommitAssess(w)
  PROVE  session'[w].at = "decided" => session'[w] = session[w] \/ StartAssess(w)
<1>1. ASSUME NEW u \in Workers, u # w,
             Start(u) \/ Step(u) \/ SearchFails(u) \/ ResearchFails(u) \/ Fault(u)
      PROVE  session'[w] = session[w]
  BY <1>1 DEF Start, StartAssess, StartResearch, StartSearch, Enters, Step, CommitAssess, Settle,
              SendWave, CommitSearch, EmptyRound, CommitResearch, EndJob, Ends, SearchFails,
              ResearchFails, Fault, RowFails
<1>2. CASE StartResearch(w) \/ \E s \in Signals : StartSearch(w, s)
  BY <1>2 DEF StartResearch, StartSearch, Enters, Rest
<1>3. CASE EmptyRound(w)
  BY <1>3 DEF EmptyRound, Visit
<1>4. CASE CommitSearch(w) \/ CommitResearch(w)
  <2>1. session'[w].at = "ended"
    BY <1>4, EndsSession DEF CommitSearch, CommitResearch
  <2>2. QED BY <2>1
<1>5. CASE EndJob(w) \/ SearchFails(w) \/ ResearchFails(w) \/ Fault(w)
  BY <1>5, RestIsOrderly DEF EndJob, SearchFails, ResearchFails, Fault, RowFails
<1>6. CASE UNCHANGED session
  BY <1>6
<1>7. QED BY <1>1, <1>2, <1>3, <1>4, <1>5, <1>6
          DEF Next, Start, Step, BecomesDue, Tick, CoolDown, Change, vars

LEMMA WaveNext ==
  ASSUME Typed, WaveInv, AtMostOne("decided"), [Next]_vars
  PROVE  /\ WaveInv'
         /\ issue'.attempts > issue.attempts => issue.next # "future"
<1>1. issue \in Row /\ session \in [Workers -> Visit] /\ \A u \in Workers : Fresh(session[u])
  BY DEF Typed, WaveInv
<1>2. ASSUME NEW w \in Workers, CommitAssess(w)
      PROVE  WaveInv' /\ (issue'.attempts > issue.attempts => issue.next # "future")
  <2>1. PICK n \in Visit : session' = [session EXCEPT ![w] = n] /\ n.at = "ended"
    BY <1>2, EndsSession DEF CommitAssess, Settle, SendWave
  <2>2. \A u \in Workers : session'[u].at # "decided"
    BY <1>1, <1>2, <2>1 DEF AtMostOne, CommitAssess
  <2>3. \A u \in Workers : Fresh(session[u])'
    BY <2>2 DEF Fresh
  <2>4. QED BY <1>1, <1>2, <2>3, CommitWave DEF WaveInv, Row
<1>3. CASE CoolDown
  <2>1. /\ issue'.status = issue.status /\ issue'.attempts = issue.attempts
        /\ issue.next = "future" /\ issue'.next = "past" /\ UNCHANGED <<session, waves>>
    BY <1>1, <1>3 DEF CoolDown, Row
  <2>2. \A u \in Workers : Fresh(session[u])'
    BY <1>1, <2>1 DEF Fresh
  <2>3. QED BY <1>1, <2>1, <2>2 DEF WaveInv, Row
<1>4. CASE ~CoolDown /\ \A w \in Workers : ~CommitAssess(w)
  <2>1. UNCHANGED <<issue, waves>>
    BY <1>4, OthersLeaveIssue
  <2>2. ASSUME NEW w \in Workers
        PROVE  session'[w].at = "decided" => session'[w] = session[w] \/ StartAssess(w)
    BY <1>1, <1>4, DecidedSessions
  <2>3. ASSUME NEW w \in Workers PROVE Fresh(session[w])'
    <3>1. CASE session'[w] = session[w]
      BY <1>1, <2>1, <3>1 DEF Fresh
    <3>2. CASE StartAssess(w)
      BY <1>1, <2>1, <3>2, ReadOfIssue DEF Fresh
    <3>3. QED BY <2>2, <3>1, <3>2 DEF Fresh
  <2>4. QED BY <1>1, <2>1, <2>3 DEF WaveInv, Row
<1>5. QED BY <1>2, <1>3, <1>4

LEMMA WaveInit == Init => WaveInv
BY RestIsOrderly DEF Init, WaveInv, Fresh

(* Whatever fails and is repeated, with any number of workers: as long as   *)
(* no two assessments overlap, the retry keywords of an issue are sent out  *)
(* at most as often as issue_quality_max_attempts says                      *)
(* (assess_issue_quality), every wave being one attempt counted, and no     *)
(* attempt is counted during the cooldown of the one before                 *)
(* (_has_pending_retry_wave), although a session decides on what it read at *)
(* its start.                                                               *)
THEOREM WavesNeedOverlapToOverrun ==
  Spec /\ []AtMostOne("decided") => []WavesWithinBudget /\ AttemptsSpaced
<1>1. Base /\ WaveInv => WavesWithinBudget
  BY DEF Base, Typed, WaveInv, WavesWithinBudget
<1>2. WaveInv /\ Base /\ AtMostOne("decided") /\ [Next]_vars => WaveInv'
  BY WaveNext DEF Base
<1>3. WaveInv /\ Base /\ AtMostOne("decided") /\ [Next]_vars =>
        [issue'.attempts > issue.attempts => issue.next # "future"]_vars
  BY WaveNext DEF Base
<1>4. QED BY <1>1, <1>2, <1>3, BaseInit, BaseNext, WaveInit, PTL DEF Spec, AttemptsSpaced

LEMMA OneIsAlone == ASSUME OneWorker PROVE \A stage : AtMostOne(stage)
BY DEF OneWorker, AtMostOne

(* One worker, the default, never assesses twice at once.                   *)
THEOREM WavesKeepToBudget == ASSUME OneWorker PROVE Spec => []WavesWithinBudget
<1>1. AtMostOne("decided")
  BY OneIsAlone
<1>2. QED BY <1>1, WavesNeedOverlapToOverrun, PTL

(* With one worker no attempt is counted during the cooldown of the one     *)
(* before.                                                                  *)
THEOREM AttemptsAwaitCooldown == ASSUME OneWorker PROVE Spec => AttemptsSpaced
<1>1. AtMostOne("decided")
  BY OneIsAlone
<1>2. QED BY <1>1, WavesNeedOverlapToOverrun, PTL
-----------------------------------------------------------------------------
(* The paid searches of the day. *)

LEMMA LimitNext == ASSUME Typed, LimitInv, AtMostOne("researching"), [Next]_vars PROVE LimitInv'
<1>1. /\ session \in [Workers -> Visit] /\ charged \in Nat /\ DailyLimit \in Nat
      /\ \A u \in Workers : /\ session[u] \in Visit /\ Orderly(session[u]) /\ session[u].spent \in Nat
                            /\ charged + session[u].spent <= DailyLimit
  BY QualityAssumption DEF Typed, LimitInv, Visit
<1>2. CASE UNCHANGED <<charged, session>>
  BY <1>2 DEF LimitInv
<1>3. ASSUME NEW w \in Workers, UNCHANGED charged, session'[w].spent = 0,
             \A u \in Workers : u # w => session'[u] = session[u]
      PROVE  LimitInv'
  <2>1. charged <= DailyLimit
    BY DEF LimitInv
  <2>2. ASSUME NEW u \in Workers PROVE charged' + session'[u].spent <= DailyLimit
    BY <1>1, <1>3, <2>1
  <2>3. QED BY <1>3, <2>1, <2>2 DEF LimitInv
<1>4. ASSUME NEW w \in Workers, EmptyRound(w) PROVE LimitInv'
  <2>1. /\ UNCHANGED charged /\ \A u \in Workers : u # w => session'[u] = session[u]
        /\ session'[w].spent = (IF WebSearch(w) THEN session[w].spent + 1 ELSE session[w].spent)
    BY <1>1, <1>4 DEF EmptyRound, Visit
  <2>2. charged + session'[w].spent <= DailyLimit
    BY <1>1, <2>1 DEF WebSearch
  <2>3. QED BY <1>1, <2>1, <2>2 DEF LimitInv
<1>5. ASSUME NEW w \in Workers, CommitResearch(w) \/ ResearchFails(w) PROVE LimitInv'
  <2>1. charged' = charged + session[w].spent + (IF WebSearch(w) THEN 1 ELSE 0)
    BY <1>5 DEF CommitResearch, ResearchFails
  <2>2. session'[w].spent = 0 /\ \A u \in Workers : u # w => session'[u] = session[u]
    BY <1>1, <1>5, EndsSession, RestIsOrderly DEF CommitResearch, ResearchFails, Ends
  <2>3. \A u \in Workers : u # w => session[u].spent = 0
    BY <1>1, <1>5 DEF AtMostOne, Orderly, CommitResearch, ResearchFails
  <2>4. charged' \in Nat /\ charged' <= DailyLimit
    BY <1>1, <2>1 DEF WebSearch
  <2>5. \A u \in Workers : session'[u].spent = 0
    BY <2>2, <2>3
  <2>6. QED BY <2>4, <2>5 DEF LimitInv
<1>6. ASSUME NEW w \in Workers,
             Start(w) \/ CommitAssess(w) \/ CommitSearch(w) \/ EndJob(w) \/ SearchFails(w) \/ Fault(w)
      PROVE  LimitInv'
  <2>1. UNCHANGED charged
    BY <1>6 DEF Start, StartAssess, StartResearch, StartSearch, CommitAssess, CommitSearch,
                EndJob, SearchFails, Fault
  <2>2. session'[w].spent = 0 /\ \A u \in Workers : u # w => session'[u] = session[u]
    <3>1. CASE Start(w)
      <4>1. CASE StartAssess(w)
        BY <1>1, <4>1, ReadOfIssue
      <4>2. CASE StartResearch(w)
        BY <1>1, <4>2 DEF StartResearch, Rest
      <4>3. CASE \E s \in Signals : StartSearch(w, s)
        <5>1. PICK s \in Signals, at \in {"collecting", "ended"} : Enters(w, s, at)
          BY <4>3 DEF StartSearch
        <5>2. [Rest EXCEPT !.at = at, !.job = s].spent = 0
          BY DEF Rest
        <5>3. QED BY <1>1, <5>1, <5>2 DEF Enters
      <4>4. QED BY <3>1, <4>1, <4>2, <4>3 DEF Start
    <3>2. CASE CommitAssess(w) \/ CommitSearch(w)
      BY <1>1, <3>2, EndsSession DEF CommitAssess, Settle, SendWave, CommitSearch
    <3>3. CASE EndJob(w) \/ SearchFails(w) \/ Fault(w)
      BY <1>1, <3>3, RestIsOrderly DEF EndJob, SearchFails, Fault, RowFails
    <3>4. QED BY <1>6, <3>1, <3>2, <3>3
  <2>3. QED BY <1>3, <2>1, <2>2
<1>7. QED BY <1>2, <1>4, <1>5, <1>6 DEF Next, Step, BecomesDue, Tick, CoolDown, Change, vars

LEMMA LimitInit == Init => LimitInv
BY RestIsOrderly, QualityAssumption DEF Init, LimitInv

(* As long as no two research jobs of the issue overlap, the paid web       *)
(* search is not recorded more often in a day than                          *)
(* openai_web_search_daily_issue_limit (_maybe_append_openai_route), for    *)
(* any number of workers and of rounds that a job counts before it commits. *)
THEOREM LimitNeedsOverlapToOverrun ==
  Spec /\ []AtMostOne("researching") => []WithinDailyLimit
<1>1. LimitInv => WithinDailyLimit
  BY DEF LimitInv, WithinDailyLimit
<1>2. Base /\ LimitInv /\ AtMostOne("researching") /\ [Next]_vars => LimitInv'
  BY LimitNext DEF Base
<1>3. QED BY <1>1, <1>2, BaseInit, BaseNext, LimitInit, PTL DEF Spec

(* One worker, the default, never runs two research jobs at once.           *)
THEOREM PaidSearchesKeepToLimit == ASSUME OneWorker PROVE Spec => []WithinDailyLimit
<1>1. AtMostOne("researching")
  BY OneIsAlone
<1>2. QED BY <1>1, LimitNeedsOverlapToOverrun, PTL
=============================================================================
