------------------------- MODULE IssueDeskProofs -------------------------
(***************************************************************************)
(* A hidden issue stays hidden, for every number of issues, articles,      *)
(* workers, requests and faults, unless older work was under way when it   *)
(* was hidden.                                                             *)
(*                                                                         *)
(* Without such work no row of the queue is about the issue (Quiet), and   *)
(* every session that could publish it holds a running row (Counted); no   *)
(* tick adds a row, because the status is hidden and stays so.             *)
(***************************************************************************)
EXTENDS IssueDesk, FiniteSetTheorems, TLAPS

JobRow == [queued : Nat, running : Nat, failed : Nat]
Session == [at : {"idle", "loaded", "sourced", "collected"},
            issue : Issues \cup {None}, force : BOOLEAN, row : Row,
            articles : SUBSET Articles, cached : Nat]

(* The sessions, as s has them, that execute a backfill of i. *)
Busy(s, i, f) == {w \in Workers : s[w].at # "idle" /\ s[w].issue = i /\ s[w].force = f}

(* A running row for every session. *)
Counted ==
  /\ \A i \in Issues, f \in BOOLEAN : jobs[i][f].running = Cardinality(Busy(session, i, f))
  /\ \A w \in Workers : session[w].at # "idle" => session[w].issue \in Issues

NoRow(i) == \A f \in BOOLEAN :
  jobs[i][f].queued = 0 /\ jobs[i][f].running = 0 /\ jobs[i][f].failed = 0

(* An issue that was hidden when nothing older was under way. *)
Quiet == \A i \in Issues : word[i] = "hidden" /\ ~owed[i] =>
  issue[i].status = "hidden" /\ ~issue[i].public /\ NoRow(i)

IInv == TypeOK /\ Counted /\ Quiet
-----------------------------------------------------------------------------
LEMMA CountType == \A h, i : Count(h, i) \in Nat
<1> SUFFICES ASSUME NEW h, NEW i PROVE Count(h, i) \in Nat
  OBVIOUS
<1>1. IsFiniteSet({a \in Articles : h[a] = i})
  BY FS_Subset, DeskAssumption
<1>2. QED BY <1>1, FS_CardinalityType DEF Count

LEMMA BusyFinite == \A s, i, f :
  IsFiniteSet(Busy(s, i, f)) /\ Cardinality(Busy(s, i, f)) \in Nat
<1> SUFFICES ASSUME NEW s, NEW i, NEW f
             PROVE  IsFiniteSet(Busy(s, i, f)) /\ Cardinality(Busy(s, i, f)) \in Nat
  OBVIOUS
<1>1. Busy(s, i, f) \subseteq Workers
  BY DEF Busy
<1>2. QED BY <1>1, FS_Subset, FS_CardinalityType, DeskAssumption

(* The sessions s and t differ in that of w alone. *)
Others(s, t, w) == \A v \in Workers : v # w => t[v] = s[v]

(* A session that becomes busy, idle, or neither. *)
LEMMA BusyChange ==
  ASSUME NEW s, NEW t, NEW w \in Workers, Others(s, t, w), NEW i, NEW f
  PROVE  /\ w \in Busy(s, i, f) /\ w \notin Busy(t, i, f)
              => Cardinality(Busy(t, i, f)) = Cardinality(Busy(s, i, f)) - 1
         /\ w \notin Busy(s, i, f) /\ w \in Busy(t, i, f)
              => Cardinality(Busy(t, i, f)) = Cardinality(Busy(s, i, f)) + 1
         /\ (w \in Busy(s, i, f) <=> w \in Busy(t, i, f)) => Busy(t, i, f) = Busy(s, i, f)
<1>1. IsFiniteSet(Busy(s, i, f)) /\ Cardinality(Busy(s, i, f)) \in Nat
  BY BusyFinite
<1>2. ASSUME w \in Busy(s, i, f), w \notin Busy(t, i, f)
      PROVE  Cardinality(Busy(t, i, f)) = Cardinality(Busy(s, i, f)) - 1
  <2>1. Busy(t, i, f) = Busy(s, i, f) \ {w}
    BY <1>2 DEF Busy, Others
  <2>2. QED BY <1>1, <1>2, <2>1, FS_RemoveElement
<1>3. ASSUME w \notin Busy(s, i, f), w \in Busy(t, i, f)
      PROVE  Cardinality(Busy(t, i, f)) = Cardinality(Busy(s, i, f)) + 1
  <2>1. Busy(t, i, f) = Busy(s, i, f) \cup {w}
    BY <1>3 DEF Busy, Others
  <2>2. QED BY <1>1, <1>3, <2>1, FS_AddElement
<1>4. ASSUME w \in Busy(s, i, f) <=> w \in Busy(t, i, f)
      PROVE  Busy(t, i, f) = Busy(s, i, f)
  BY <1>4 DEF Busy, Others
<1>5. QED BY <1>2, <1>3, <1>4
-----------------------------------------------------------------------------
(* Steps that leave the queue alone. *)

LEMMA RowEdits ==
  ASSUME NEW row \in Row, NEW n \in Nat, NEW st \in Status, NEW b \in BOOLEAN
  PROVE  /\ row.status \in Status /\ row.public \in BOOLEAN /\ row.cached \in Nat
         /\ [row EXCEPT !.cached = n] \in Row
         /\ [row EXCEPT !.cached = n].status = row.status
         /\ [row EXCEPT !.cached = n].public = row.public
         /\ [row EXCEPT !.status = st, !.public = b] \in Row
         /\ [row EXCEPT !.status = st, !.public = b].status = st
         /\ [row EXCEPT !.status = st, !.public = b].public = b
BY DEF Row

LEMMA AttachType ==
  ASSUME TypeOK, NEW S \in SUBSET Articles, NEW i \in Issues, NEW row \in Row, Attach(S, i, row)
  PROVE  /\ home' \in [Articles -> Issues \cup {None, Uncollected}]
         /\ issue' \in [Issues -> Row]
         /\ issue'[i].status = row.status /\ issue'[i].public = row.public
         /\ \A j \in Issues : j # i => issue'[j] = issue[j]
         /\ recent' \in [Issues -> BOOLEAN]
<1>1. home' \in [Articles -> Issues \cup {None, Uncollected}]
  BY DEF Attach, Moved, TypeOK
<1> DEFINE n == Count(home', i)
           new == [row EXCEPT !.cached = n]
<1>2. new \in Row /\ new.status = row.status /\ new.public = row.public
  <2>1. n \in Nat
    BY CountType
  <2> HIDE DEF n
  <2>2. QED BY <2>1 DEF Row
<1>3. issue' = [issue EXCEPT ![i] = new]
  BY DEF Attach
<1> HIDE DEF new
<1>4. recent' \in [Issues -> BOOLEAN]
  BY DEF Attach, TypeOK
<1>5. QED BY <1>1, <1>2, <1>3, <1>4 DEF TypeOK

(* The queue, the sessions and the bounds stay; an issue that is hidden and *)
(* owes nothing after the step was so before, and did not change.           *)
LEMMA DeskStep ==
  ASSUME IInv, UNCHANGED <<jobs, session>>,
         home' \in [Articles -> Issues \cup {None, Uncollected}], issue' \in [Issues -> Row],
         recent' \in [Issues -> BOOLEAN], candidate' \subseteq Issues, desk' \in [issue : Issues \cup {None}, row : Row],
         changes' \in 0..MaxChanges, faults' \in 0..MaxFaults,
         word' \in [Issues -> {"none", "hidden", "published"}], owed' \in [Issues -> BOOLEAN],
         \A i \in Issues : word'[i] = "hidden" /\ ~owed'[i] =>
           /\ word[i] = "hidden" /\ ~owed[i]
           /\ issue'[i].status = issue[i].status /\ issue'[i].public = issue[i].public
  PROVE  IInv'
<1>1. TypeOK'
  BY DEF IInv, TypeOK
<1>2. Counted'
  BY DEF IInv, Counted, Busy
<1>3. Quiet'
  BY DEF IInv, Quiet, NoRow
<1>4. QED BY <1>1, <1>2, <1>3 DEF IInv

(* Articles are attached to an issue whose row keeps what it says, or is new. *)
LEMMA AttachKeeps ==
  ASSUME IInv, NEW S \in SUBSET Articles, NEW i \in Issues, NEW row \in Row, Attach(S, i, row),
         Exists(i) => row.status = issue[i].status /\ row.public = issue[i].public,
         changes' \in 0..MaxChanges,
         UNCHANGED <<candidate, jobs, session, desk, faults, word, owed>>
  PROVE  IInv'
<1>1. TypeOK
  BY DEF IInv
<1>2. /\ home' \in [Articles -> Issues \cup {None, Uncollected}]
      /\ issue' \in [Issues -> Row]
      /\ issue'[i].status = row.status /\ issue'[i].public = row.public
      /\ \A j \in Issues : j # i => issue'[j] = issue[j]
      /\ recent' \in [Issues -> BOOLEAN]
  BY <1>1, AttachType
<1>3. \A j \in Issues : word[j] = "hidden" /\ ~owed[j] =>
        issue'[j].status = issue[j].status /\ issue'[j].public = issue[j].public
  BY <1>2 DEF IInv, Quiet, Exists
<1>4. QED BY <1>1, <1>2, <1>3, DeskStep DEF TypeOK

(* An issue is published, or loses its standing in a merge or a split: its  *)
(* word is no longer that it is hidden.                                     *)
LEMMA WordKeeps ==
  ASSUME IInv, NEW i \in Issues,
         home' \in [Articles -> Issues \cup {None, Uncollected}], issue' \in [Issues -> Row],
         recent' \in [Issues -> BOOLEAN],
         \A j \in Issues : j # i =>
           issue'[j].status = issue[j].status /\ issue'[j].public = issue[j].public,
         NEW said \in {"none", "published"}, word' = [word EXCEPT ![i] = said],
         owed' \in {owed, [owed EXCEPT ![i] = FALSE]},
         changes' \in 0..MaxChanges,
         UNCHANGED <<candidate, jobs, session, desk, faults>>
  PROVE  IInv'
<1>1. /\ word' \in [Issues -> {"none", "hidden", "published"}] /\ owed' \in [Issues -> BOOLEAN]
      /\ word'[i] # "hidden" /\ \A j \in Issues : j # i => word'[j] = word[j] /\ owed'[j] = owed[j]
  BY DEF IInv, TypeOK
<1>2. QED BY <1>1, DeskStep DEF IInv, TypeOK

LEMMA PublishKeeps ==
  ASSUME IInv, changes' \in 0..MaxChanges, NEW i \in Issues,
         NEW S \in SUBSET Unassigned, NEW n \in Nat, Publish(i, S, n)
  PROVE  IInv'
<1>1. TypeOK
  BY DEF IInv
<1> DEFINE row == [status |-> "checking", public |-> TRUE, cached |-> n]
<1>2. row \in Row
  BY DEF Row, Status
<1>3. issue' = [issue EXCEPT ![i] = row] /\ home' = Moved(S, i)
  BY DEF Publish
<1> HIDE DEF row
<1>4. /\ home' \in [Articles -> Issues \cup {None, Uncollected}]
      /\ issue' \in [Issues -> Row]
      /\ \A j \in Issues : j # i => issue'[j] = issue[j]
      /\ recent' \in [Issues -> BOOLEAN]
  <2>1. home' \in [Articles -> Issues \cup {None, Uncollected}]
    BY <1>1, <1>3 DEF TypeOK, Moved
  <2>2. issue' \in [Issues -> Row] /\ \A j \in Issues : j # i => issue'[j] = issue[j]
    BY <1>1, <1>2, <1>3 DEF TypeOK
  <2>3. recent' \in [Issues -> BOOLEAN]
    BY <1>1 DEF TypeOK, Publish
  <2>4. QED BY <2>1, <2>2, <2>3
<1>5. QED BY <1>4, WordKeeps DEF Publish

LEMMA HandlersKeep ==
  ASSUME IInv, changes' \in 0..MaxChanges, NEW i \in Issues, Handlers(i) \/ \E a \in Articles : CollectSource(a)
  PROVE  IInv'
<1>1. TypeOK /\ issue[i] \in Row
  BY DEF IInv, TypeOK
<1>2. CASE \E a \in Articles : CollectSource(a)
  BY <1>2, DeskStep DEF CollectSource, IInv, TypeOK
<1>3. ASSUME NEW row \in Row, NEW S \in SUBSET Articles, Attach(S, i, row),
             UNCHANGED <<candidate, jobs, session, desk, faults, word, owed>>,
             Exists(i) => row = issue[i]
      PROVE  IInv'
  BY <1>3, AttachKeeps
<1>4. CASE Search(i)
  <2>1. Ensured(i) \in Row /\ (Exists(i) => Ensured(i) = issue[i])
    BY <1>1 DEF Ensured, Row, Status
  <2>2. QED BY <1>3, <1>4, <2>1 DEF Search, Free
<1>5. CASE Discover(i)
  <2>1. Discovered(i) \in Row /\ (Exists(i) => Discovered(i) = issue[i])
    BY <1>1 DEF Discovered, Row, Status
  <2>2. QED BY <1>3, <1>5, <2>1 DEF Discover
<1>6. CASE Match(i)
  BY <1>1, <1>3, <1>6 DEF Match, Unassigned
<1>7. CASE Propose(i)
  BY <1>7, DeskStep DEF Propose, IInv, TypeOK
<1>8. CASE AutoPublish(i)
  BY <1>8, CountType, PublishKeeps DEF AutoPublish
<1>9. QED BY <1>2, <1>4, <1>5, <1>6, <1>7, <1>8 DEF Handlers

(* A session's UPDATE writes whole rows of the type. *)
LEMMA SavedRow ==
  ASSUME TypeOK, NEW i \in Issues, NEW old \in Row, NEW new \in Row
  PROVE  /\ Saved(i, old, new) \in Row
         /\ Saved(i, old, new).status = Written(old.status, new.status, issue[i].status)
         /\ Saved(i, old, new).public = Written(old.public, new.public, issue[i].public)
<1> DEFINE now == issue[i]
<1>1. now \in Row
  BY DEF TypeOK
<1>2. /\ Written(old.status, new.status, now.status) \in Status
      /\ Written(old.public, new.public, now.public) \in BOOLEAN
      /\ Written(old.cached, new.cached, now.cached) \in Nat
  BY <1>1 DEF Row, Written
<1>3. Saved(i, old, new) =
        [status |-> Written(old.status, new.status, now.status),
         public |-> Written(old.public, new.public, now.public),
         cached |-> Written(old.cached, new.cached, now.cached)]
  <2>1. DOMAIN now = {"status", "public", "cached"}
    BY <1>1 DEF Row
  <2>2. Saved(i, old, new) = [c \in {"status", "public", "cached"} |-> Written(old[c], new[c], now[c])]
    BY <2>1 DEF Saved
  <2>3. QED BY <2>2
<1>4. QED BY <1>2, <1>3 DEF Row

LEMMA RepairKeeps == ASSUME IInv, changes' \in 0..MaxChanges, Repair PROVE IInv'
<1>1. PICK S \in SUBSET {a \in Articles : home[a] \in Issues /\ ~Fits(home[a], a)} :
        /\ home' = Moved(S, None)
        /\ issue' = [i \in Issues |-> IF Exists(i) THEN [issue[i] EXCEPT !.cached = Count(home', i)]
                                                  ELSE issue[i]]
        /\ recent' = [i \in Issues |-> Exists(i)]
        /\ UNCHANGED <<candidate, jobs, session, desk, faults, word, owed>>
  BY DEF Repair
<1>2. home' \in [Articles -> Issues \cup {None, Uncollected}]
  BY <1>1 DEF IInv, TypeOK, Moved
<1>3. ASSUME NEW i \in Issues
      PROVE  /\ issue'[i] \in Row
             /\ issue'[i].status = issue[i].status /\ issue'[i].public = issue[i].public
  <2> DEFINE n == Count(home', i)
  <2>1. n \in Nat /\ issue[i] \in Row
    BY CountType DEF IInv, TypeOK
  <2>2. issue'[i] = IF Exists(i) THEN [issue[i] EXCEPT !.cached = n] ELSE issue[i]
    BY <1>1
  <2> HIDE DEF n
  <2>3. QED BY <2>1, <2>2 DEF Row
<1>4. issue' \in [Issues -> Row]
  BY <1>1, <1>3
<1>5. recent' \in [Issues -> BOOLEAN]
  BY <1>1 DEF Exists
<1>6. QED BY <1>1, <1>2, <1>3, <1>4, <1>5, DeskStep DEF IInv, TypeOK

LEMMA ApproveKeeps ==
  ASSUME IInv, changes' \in 0..MaxChanges, NEW i \in Issues, Approve(i) PROVE IInv'
<1>1. CASE ApproveCandidate(i)
  <2>1. \A S : PublishedCount(i, S) \in SUBSET Nat
    BY CountType DEF PublishedCount
  <2>2. QED BY <1>1, <2>1, PublishKeeps DEF ApproveCandidate
<1>2. CASE ~ApproveCandidate(i)
  <2> DEFINE row == [issue[i] EXCEPT !.status = "approved", !.public = TRUE]
  <2>1. issue' = [issue EXCEPT ![i] = row]
    BY <1>2 DEF Approve
  <2>2. row \in Row
    <3>1. issue[i] \in Row /\ "approved" \in Status
      BY DEF IInv, TypeOK, Status
    <3>2. QED BY <3>1, RowEdits
  <2> HIDE DEF row
  <2>3. issue' \in [Issues -> Row] /\ \A j \in Issues : j # i => issue'[j] = issue[j]
    BY <2>1, <2>2 DEF IInv, TypeOK
  <2>4. UNCHANGED <<home, recent, candidate, jobs, session, desk, faults>>
    BY <1>2 DEF Approve
  <2>5. word' = [word EXCEPT ![i] = "published"] /\ owed' = [owed EXCEPT ![i] = FALSE]
    BY <1>2 DEF Approve
  <2>6. QED BY <2>3, <2>4, <2>5, WordKeeps DEF IInv, TypeOK
<1>3. QED BY <1>1, <1>2

LEMMA SplitKeeps ==
  ASSUME IInv, changes' \in 0..MaxChanges, NEW a \in DOMAIN SplitOf, Split(a) PROVE IInv'
<1> DEFINE i == SplitOf[a]
           row == [issue[i] EXCEPT !.status = "split", !.public = FALSE]
<1>1. i \in Issues /\ {a} \in SUBSET Articles
  BY DeskAssumption DEF SplitIds
<1>2. TypeOK /\ issue[i] \in Row
  BY <1>1 DEF IInv, TypeOK
<1>3. row \in Row
  BY <1>2, RowEdits DEF Status
<1>4. /\ Attach({a}, i, row) /\ word' = [word EXCEPT ![i] = "none"]
      /\ UNCHANGED <<candidate, jobs, session, desk, faults, owed>>
  BY DEF Split
<1> HIDE DEF i, row
<1>5. /\ home' \in [Articles -> Issues \cup {None, Uncollected}]
      /\ issue' \in [Issues -> Row]
      /\ \A j \in Issues : j # i => issue'[j] = issue[j]
      /\ recent' \in [Issues -> BOOLEAN]
  BY <1>1, <1>2, <1>3, <1>4, AttachType
<1>6. QED BY <1>1, <1>4, <1>5, WordKeeps

LEMMA MergeKeeps ==
  ASSUME IInv, changes' \in 0..MaxChanges, NEW i \in Issues, NEW j \in Issues, Merge(i, j) PROVE IInv'
<1> DEFINE row(k) == IF k = i THEN [issue[i] EXCEPT !.status = "merged", !.public = FALSE] ELSE issue[k]
           n == Count(home', j)
<1>1. issue' = [k \in Issues |-> IF k = j THEN [row(k) EXCEPT !.cached = n] ELSE row(k)]
  BY DEF Merge
<1>2. home' \in [Articles -> Issues \cup {None, Uncollected}]
  BY DEF Merge, Moved, IInv, TypeOK
<1>3. n \in Nat
  BY CountType
<1>4. ASSUME NEW k \in Issues
      PROVE  row(k) \in Row /\ (k # i => row(k) = issue[k])
  <2>1. issue[i] \in Row /\ issue[k] \in Row /\ "merged" \in Status
    BY DEF IInv, TypeOK, Status
  <2>2. [issue[i] EXCEPT !.status = "merged", !.public = FALSE] \in Row
    BY <2>1, RowEdits
  <2>3. QED BY <2>1, <2>2
<1> HIDE DEF row, n
<1>5. ASSUME NEW k \in Issues
      PROVE  /\ issue'[k] \in Row
             /\ k # i => issue'[k].status = issue[k].status /\ issue'[k].public = issue[k].public
  BY <1>1, <1>3, <1>4 DEF Row
<1>6. issue' \in [Issues -> Row]
  BY <1>1, <1>5
<1>7. /\ word' = [word EXCEPT ![i] = "none"] /\ recent' \in [Issues -> BOOLEAN]
      /\ UNCHANGED <<candidate, jobs, session, desk, faults, owed>>
  BY DEF Merge, IInv, TypeOK
<1>8. QED BY <1>2, <1>5, <1>6, <1>7, WordKeeps

LEMMA AgesKeep == ASSUME IInv, NEW i \in Issues, Ages(i) PROVE IInv'
<1>1. recent' \in [Issues -> BOOLEAN]
  BY DEF Ages, IInv, TypeOK
<1>2. QED BY <1>1, DeskStep DEF Ages, IInv, TypeOK

LEMMA AskKeeps ==
  ASSUME IInv, changes' \in 0..MaxChanges, NEW i \in Issues, AskToHide(i) PROVE IInv'
<1>1. desk' \in [issue : Issues \cup {None}, row : Row]
  BY DEF AskToHide, IInv, TypeOK
<1>2. QED BY <1>1, DeskStep DEF AskToHide, IInv, TypeOK

(* Hiding: if nothing owes the issue a change, its row becomes hidden.      *)
LEMMA HideKeeps == ASSUME IInv, Hide PROVE IInv'
<1> DEFINE i == desk.issue
           old == desk.row
           new == [old EXCEPT !.status = "hidden", !.public = FALSE]
           row == Saved(i, old, new)
           o == Work(i) \/ issue[i].status # old.status \/ issue[i].public # old.public
<1>1. i \in Issues /\ old \in Row /\ TypeOK
  BY DEF Hide, IInv, TypeOK
<1>2. new \in Row /\ new.status = "hidden" /\ new.public = FALSE
  BY <1>1, RowEdits DEF Status
<1>3. /\ issue' = [issue EXCEPT ![i] = row] /\ word' = [word EXCEPT ![i] = "hidden"]
      /\ owed' = [owed EXCEPT ![i] = o] /\ desk' = NoRequest
      /\ UNCHANGED <<home, recent, candidate, jobs, session, changes, faults>>
  BY DEF Hide
<1>4. o \in BOOLEAN
  BY DEF Work
<1>5. NoRequest \in [issue : Issues \cup {None}, row : Row]
  BY DEF NoRequest, Absent, Row, Status
<1> HIDE DEF i, old, new, row
<1>6. /\ row \in Row
      /\ row.status = Written(old.status, new.status, issue[i].status)
      /\ row.public = Written(old.public, new.public, issue[i].public)
  BY <1>1, <1>2, SavedRow DEF row
<1>7. ~o => row.status = "hidden" /\ row.public = FALSE
  BY <1>2, <1>6 DEF Written
<1>8. ~o => NoRow(i)
  <2> SUFFICES ASSUME ~Work(i), NEW f \in BOOLEAN
               PROVE  jobs[i][f].queued = 0 /\ jobs[i][f].running = 0 /\ jobs[i][f].failed = 0
    BY DEF NoRow
  <2>1. jobs[i][f] \in JobRow
    BY <1>1 DEF TypeOK, JobRow
  <2> DEFINE q == jobs[i][f].queued
             x == jobs[i][f].running
             y == jobs[i][f].failed
  <2>2. q \in Nat /\ x \in Nat /\ y \in Nat
    BY <2>1 DEF JobRow
  <2>3. ~(q + x + y > 0)
    BY DEF Work
  <2> HIDE DEF q, x, y
  <2>4. q = 0 /\ x = 0 /\ y = 0
    BY <2>2, <2>3
  <2>5. QED BY <2>4 DEF q, x, y
<1> HIDE DEF o
<1>9. TypeOK'
  BY <1>1, <1>3, <1>4, <1>5, <1>6 DEF TypeOK
<1>10. Counted'
  BY <1>3 DEF IInv, Counted, Busy
<1>11. ASSUME NEW k \in Issues, word'[k] = "hidden", ~owed'[k]
       PROVE  issue'[k].status = "hidden" /\ ~issue'[k].public /\ NoRow(k)'
  <2>1. CASE k = i
    BY <1>1, <1>3, <1>7, <1>8, <1>11, <2>1 DEF TypeOK, NoRow
  <2>2. CASE k # i
    BY <1>1, <1>3, <1>11, <2>2 DEF IInv, Quiet, TypeOK, NoRow
  <2>3. QED BY <2>1, <2>2
<1>12. QED BY <1>9, <1>10, <1>11 DEF IInv, Quiet
-----------------------------------------------------------------------------
(* Steps of the queue. *)

(* Home, the issues and what was said of them stay; no row is added for a   *)
(* quiet issue.                                                             *)
LEMMA QueueStep ==
  ASSUME IInv, UNCHANGED <<issue, candidate, desk, changes, word, owed>>,
         home' \in [Articles -> Issues \cup {None, Uncollected}], faults' \in 0..MaxFaults,
         session' \in [Workers -> Session], recent' \in [Issues -> BOOLEAN],
         jobs' \in [Issues -> [BOOLEAN -> JobRow]],
         Counted',
         \A i \in Issues : word[i] = "hidden" /\ ~owed[i] => jobs'[i] = jobs[i]
  PROVE  IInv'
<1>1. TypeOK'
  BY DEF IInv, TypeOK, Session, JobRow
<1>2. Quiet'
  BY DEF IInv, Quiet, NoRow
<1>3. QED BY <1>1, <1>2 DEF IInv

LEMMA TickKeeps == ASSUME IInv, NEW F \in SUBSET Issues, Tick(F) PROVE IInv'
<1>1. /\ jobs' = [i \in Issues |-> [f \in BOOLEAN |->
           IF Schedules(i, f, F) THEN [jobs[i][f] EXCEPT !.queued = @ + 1] ELSE jobs[i][f]]]
      /\ UNCHANGED <<home, issue, recent, candidate, session, desk, changes, faults, word, owed>>
  BY DEF Tick
<1>2. ASSUME NEW i \in Issues, NEW f \in BOOLEAN
      PROVE  jobs'[i][f] \in JobRow /\ jobs'[i][f].running = jobs[i][f].running
  <2>1. jobs[i][f] \in JobRow
    BY DEF IInv, TypeOK, JobRow
  <2>2. jobs'[i][f] = IF Schedules(i, f, F) THEN [jobs[i][f] EXCEPT !.queued = @ + 1] ELSE jobs[i][f]
    BY <1>1
  <2>3. CASE Schedules(i, f, F)
    <3>1. jobs'[i][f] = [jobs[i][f] EXCEPT !.queued = @ + 1]
      BY <2>2, <2>3
    <3>2. QED BY <2>1, <3>1 DEF JobRow
  <2>4. CASE ~Schedules(i, f, F)
    BY <2>1, <2>2, <2>4
  <2>5. QED BY <2>3, <2>4
<1>3. jobs' \in [Issues -> [BOOLEAN -> JobRow]]
  BY <1>1, <1>2
<1>4. Counted'
  BY <1>1, <1>2 DEF IInv, Counted, Busy
<1>5. ASSUME NEW i \in Issues, word[i] = "hidden", ~owed[i]
      PROVE  jobs'[i] = jobs[i]
  <2>1. issue[i].status = "hidden"
    BY <1>5 DEF IInv, Quiet
  <2>2. \A f \in BOOLEAN : ~Schedules(i, f, F)
    BY <2>1 DEF Schedules, Lacking, FollowUp, Open
  <2>3. jobs[i] \in [BOOLEAN -> JobRow]
    BY DEF IInv, TypeOK, JobRow
  <2>4. QED BY <1>1, <2>2, <2>3
<1>6. QED BY <1>1, <1>3, <1>4, <1>5, QueueStep DEF IInv, TypeOK, Session

(* A session with a job: its issue is not quiet. *)
LEMMA BusyIsOwed ==
  ASSUME IInv, NEW w \in Workers, session[w].at # "idle"
  PROVE  LET i == session[w].issue
             f == session[w].force
         IN /\ i \in Issues /\ f \in BOOLEAN /\ jobs[i][f].running > 0
            /\ ~(word[i] = "hidden" /\ ~owed[i])
<1> DEFINE i == session[w].issue
           f == session[w].force
<1>1. i \in Issues /\ f \in BOOLEAN
  BY DEF IInv, TypeOK, Counted
<1>2. w \in Busy(session, i, f)
  BY DEF Busy
<1>3. jobs[i][f].running = Cardinality(Busy(session, i, f))
  BY <1>1 DEF IInv, Counted
<1>4. Cardinality(Busy(session, i, f)) # 0 /\ Cardinality(Busy(session, i, f)) \in Nat
  BY <1>2, BusyFinite, FS_EmptySet
<1>5. jobs[i][f].running > 0
  BY <1>3, <1>4
<1>6. QED BY <1>1, <1>5 DEF IInv, Quiet, NoRow

LEMMA RestSession == Rest \in Session /\ Rest.at = "idle"
BY DEF Rest, Session, Absent, Row, Status

(* A session leaves its job: one running row less. *)
LEMMA LeaveCounted ==
  ASSUME IInv, NEW w \in Workers, session[w].at # "idle",
         session' = [session EXCEPT ![w] = Rest],
         \A k \in Issues, g \in BOOLEAN : jobs'[k][g].running =
           IF k = session[w].issue /\ g = session[w].force THEN jobs[k][g].running - 1
                                                           ELSE jobs[k][g].running
  PROVE  Counted' /\ session' \in [Workers -> Session]
<1>1. session \in [Workers -> Session]
  BY DEF IInv, TypeOK, Session
<1>2. /\ session' \in [Workers -> Session]
      /\ \A v \in Workers : session'[v].at # "idle" => session'[v] = session[v]
      /\ Others(session, session', w)
  BY <1>1, RestSession DEF Others
<1>3. ASSUME NEW k \in Issues, NEW g \in BOOLEAN
      PROVE  jobs'[k][g].running = Cardinality(Busy(session', k, g))
  <2>1. jobs[k][g].running = Cardinality(Busy(session, k, g))
    BY DEF IInv, Counted
  <2>2. CASE k = session[w].issue /\ g = session[w].force
    <3>1. w \in Busy(session, k, g) /\ w \notin Busy(session', k, g)
      BY <1>1, <2>2, RestSession DEF Busy
    <3>2. Cardinality(Busy(session', k, g)) = Cardinality(Busy(session, k, g)) - 1
      BY <1>2, <3>1, BusyChange
    <3>3. QED BY <2>1, <2>2, <3>2
  <2>3. CASE ~(k = session[w].issue /\ g = session[w].force)
    <3>1. Busy(session', k, g) = Busy(session, k, g)
      <4>1. w \notin Busy(session, k, g) /\ w \notin Busy(session', k, g)
        BY <1>1, <2>3, RestSession DEF Busy
      <4>2. QED BY <1>2, <4>1, BusyChange
    <3>2. QED BY <2>1, <2>3, <3>1
  <2>4. QED BY <2>2, <2>3
<1>4. QED BY <1>2, <1>3 DEF IInv, Counted

(* A row that loses its executor, and may be failed. *)
Leaves(i, f) ==
  \/ jobs' = [jobs EXCEPT ![i][f].running = @ - 1]
  \/ jobs' = [jobs EXCEPT ![i][f].running = @ - 1, ![i][f].failed = @ + 1]

LEMMA LeaveRows ==
  ASSUME IInv, NEW i \in Issues, NEW f \in BOOLEAN, jobs[i][f].running > 0, Leaves(i, f)
  PROVE  /\ jobs' \in [Issues -> [BOOLEAN -> JobRow]]
         /\ \A k \in Issues, g \in BOOLEAN : jobs'[k][g].running =
              IF k = i /\ g = f THEN jobs[k][g].running - 1 ELSE jobs[k][g].running
         /\ \A k \in Issues : k # i => jobs'[k] = jobs[k]
<1>1. jobs \in [Issues -> [BOOLEAN -> JobRow]]
  BY DEF IInv, TypeOK, JobRow
<1>2. PICK new \in JobRow : /\ new.running = jobs[i][f].running - 1
                            /\ jobs' = [jobs EXCEPT ![i] = [@ EXCEPT ![f] = new]]
  <2>1. jobs[i][f] \in JobRow
    BY <1>1
  <2>2. CASE jobs' = [jobs EXCEPT ![i][f].running = @ - 1]
    <3> DEFINE new == [jobs[i][f] EXCEPT !.running = @ - 1]
    <3>1. new \in JobRow /\ new.running = jobs[i][f].running - 1
      BY <2>1 DEF JobRow
    <3>2. jobs' = [jobs EXCEPT ![i] = [@ EXCEPT ![f] = new]]
      BY <2>2
    <3> HIDE DEF new
    <3>3. QED BY <3>1, <3>2
  <2>3. CASE jobs' = [jobs EXCEPT ![i][f].running = @ - 1, ![i][f].failed = @ + 1]
    <3> DEFINE new == [jobs[i][f] EXCEPT !.running = @ - 1, !.failed = @ + 1]
    <3>1. jobs[i][f].running - 1 \in Nat /\ jobs[i][f].failed + 1 \in Nat
      BY <2>1 DEF JobRow
    <3>2. new \in JobRow /\ new.running = jobs[i][f].running - 1
      BY <2>1, <3>1 DEF JobRow
    <3>3. jobs' = [jobs EXCEPT ![i] = [@ EXCEPT ![f] = new]]
      BY <1>1, <2>3
    <3> HIDE DEF new
    <3>4. QED BY <3>2, <3>3
  <2>4. QED BY <2>2, <2>3 DEF Leaves
<1>3. QED BY <1>1, <1>2

LEMMA FaultKeeps == ASSUME IInv, NEW w \in Workers, Fault(w) PROVE IInv'
<1> DEFINE i == session[w].issue
           f == session[w].force
<1>1. /\ session[w].at # "idle" /\ faults < MaxFaults /\ faults' = faults + 1
      /\ jobs' = [jobs EXCEPT ![i][f].running = @ - 1, ![i][f].failed = @ + 1]
      /\ session' = [session EXCEPT ![w] = Rest]
      /\ UNCHANGED <<home, issue, recent, candidate, desk, changes, word, owed>>
  BY DEF Fault
<1>2. /\ i \in Issues /\ f \in BOOLEAN /\ jobs[i][f].running > 0
      /\ ~(word[i] = "hidden" /\ ~owed[i])
      /\ Leaves(i, f)
  BY <1>1, BusyIsOwed DEF Leaves
<1> HIDE DEF i, f
<1>3. /\ jobs' \in [Issues -> [BOOLEAN -> JobRow]]
      /\ \A k \in Issues, g \in BOOLEAN : jobs'[k][g].running =
           IF k = i /\ g = f THEN jobs[k][g].running - 1 ELSE jobs[k][g].running
      /\ \A k \in Issues : k # i => jobs'[k] = jobs[k]
  BY <1>2, LeaveRows
<1>4. Counted' /\ session' \in [Workers -> Session]
  BY <1>1, <1>3, LeaveCounted DEF i, f
<1>5. /\ faults' \in 0..MaxFaults /\ home' \in [Articles -> Issues \cup {None, Uncollected}]
      /\ recent' \in [Issues -> BOOLEAN]
  BY <1>1, DeskAssumption DEF IInv, TypeOK
<1>6. \A k \in Issues : word[k] = "hidden" /\ ~owed[k] => jobs'[k] = jobs[k]
  BY <1>2, <1>3
<1>7. QED BY <1>1, <1>3, <1>4, <1>5, <1>6, QueueStep

LEMMA CommitKeeps == ASSUME IInv, NEW w \in Workers, Commit(w) PROVE IInv'
<1> DEFINE me == session[w]
           i == me.issue
           f == me.force
           enough == me.at = "sourced" \/ Count(Moved(me.articles, me.issue), me.issue) >= MinSources
           new == Judged(me.row, enough, me.cached)
<1>1. /\ me.at # "idle"
      /\ home' = Moved(me.articles, i)
      /\ issue' = [issue EXCEPT ![i] = Saved(i, me.row, new)]
      /\ jobs' = [jobs EXCEPT ![i][f].running = @ - 1]
      /\ session' = [session EXCEPT ![w] = Rest]
      /\ UNCHANGED <<candidate, desk, changes, faults, word, owed>>
  BY DEF Commit
<1>2. /\ i \in Issues /\ f \in BOOLEAN /\ jobs[i][f].running > 0
      /\ ~(word[i] = "hidden" /\ ~owed[i])
      /\ Leaves(i, f)
  BY <1>1, BusyIsOwed DEF Leaves
<1> HIDE DEF i, f
<1>3. /\ jobs' \in [Issues -> [BOOLEAN -> JobRow]]
      /\ \A k \in Issues, g \in BOOLEAN : jobs'[k][g].running =
           IF k = i /\ g = f THEN jobs[k][g].running - 1 ELSE jobs[k][g].running
      /\ \A k \in Issues : k # i => jobs'[k] = jobs[k]
  BY <1>2, LeaveRows
<1>4. Counted' /\ session' \in [Workers -> Session]
  BY <1>1, <1>3, LeaveCounted DEF i, f
<1>5. TypeOK /\ me.row \in Row /\ me.cached \in Nat /\ me.articles \in SUBSET Articles
  BY <1>2 DEF IInv, TypeOK, i
<1>6. home' \in [Articles -> Issues \cup {None, Uncollected}]
  BY <1>1, <1>2, <1>5 DEF Moved, TypeOK
<1> HIDE DEF enough
<1>7. new \in Row
  BY <1>5 DEF Judged, Row, Status
<1> HIDE DEF new
<1>8. Saved(i, me.row, new) \in Row
  BY <1>2, <1>5, <1>7, SavedRow
<1> HIDE DEF me, i, f
<1>9. issue' \in [Issues -> Row] /\ \A k \in Issues : k # i => issue'[k] = issue[k]
  BY <1>1, <1>5, <1>8 DEF TypeOK
<1>10. TypeOK'
  <2>1. recent' \in [Issues -> BOOLEAN]
    BY <1>5 DEF Commit, TypeOK
  <2>2. QED BY <1>1, <1>3, <1>4, <1>5, <1>6, <1>9, <2>1 DEF TypeOK, Session, JobRow
<1>11. Quiet'
  <2> SUFFICES ASSUME NEW k \in Issues, word[k] = "hidden", ~owed[k]
               PROVE  issue'[k].status = "hidden" /\ ~issue'[k].public /\ NoRow(k)'
    BY <1>1 DEF Quiet
  <2>1. k # i /\ issue'[k] = issue[k] /\ jobs'[k] = jobs[k]
    BY <1>2, <1>3, <1>9
  <2>2. QED BY <2>1 DEF IInv, Quiet, NoRow
<1>12. QED BY <1>4, <1>10, <1>11 DEF IInv

(* A row that gains an executor. *)
Enters(i, f) == \E from \in {"queued", "failed"} :
  /\ jobs[i][f][from] > 0
  /\ jobs' = [jobs EXCEPT ![i][f][from] = @ - 1, ![i][f].running = @ + 1]

LEMMA EnterRows ==
  ASSUME IInv, NEW i \in Issues, NEW f \in BOOLEAN, Enters(i, f)
  PROVE  /\ jobs' \in [Issues -> [BOOLEAN -> JobRow]]
         /\ \A k \in Issues, g \in BOOLEAN : jobs'[k][g].running =
              IF k = i /\ g = f THEN jobs[k][g].running + 1 ELSE jobs[k][g].running
         /\ \A k \in Issues : k # i => jobs'[k] = jobs[k]
         /\ ~NoRow(i)
<1>1. jobs \in [Issues -> [BOOLEAN -> JobRow]] /\ jobs[i][f] \in JobRow
  BY DEF IInv, TypeOK, JobRow
<1>2. PICK new \in JobRow : /\ new.running = jobs[i][f].running + 1
                            /\ jobs' = [jobs EXCEPT ![i] = [@ EXCEPT ![f] = new]]
  <2>1. CASE /\ jobs[i][f].queued > 0
             /\ jobs' = [jobs EXCEPT ![i][f].queued = @ - 1, ![i][f].running = @ + 1]
    <3> DEFINE new == [jobs[i][f] EXCEPT !.queued = @ - 1, !.running = @ + 1]
    <3>1. jobs[i][f].queued - 1 \in Nat /\ jobs[i][f].running + 1 \in Nat
      BY <1>1, <2>1 DEF JobRow
    <3>2. new \in JobRow /\ new.running = jobs[i][f].running + 1
      BY <1>1, <3>1 DEF JobRow
    <3>3. jobs' = [jobs EXCEPT ![i] = [@ EXCEPT ![f] = new]]
      BY <1>1, <2>1
    <3> HIDE DEF new
    <3>4. QED BY <3>2, <3>3
  <2>2. CASE /\ jobs[i][f].failed > 0
             /\ jobs' = [jobs EXCEPT ![i][f].failed = @ - 1, ![i][f].running = @ + 1]
    <3> DEFINE new == [jobs[i][f] EXCEPT !.failed = @ - 1, !.running = @ + 1]
    <3>1. jobs[i][f].failed - 1 \in Nat /\ jobs[i][f].running + 1 \in Nat
      BY <1>1, <2>2 DEF JobRow
    <3>2. new \in JobRow /\ new.running = jobs[i][f].running + 1
      BY <1>1, <3>1 DEF JobRow
    <3>3. jobs' = [jobs EXCEPT ![i] = [@ EXCEPT ![f] = new]]
      BY <1>1, <2>2
    <3> HIDE DEF new
    <3>4. QED BY <3>2, <3>3
  <2>3. QED BY <2>1, <2>2 DEF Enters
<1>3. ~NoRow(i)
  BY DEF Enters, NoRow
<1>4. QED BY <1>1, <1>2, <1>3

LEMMA LoadKeeps ==
  ASSUME IInv, NEW w \in Workers, NEW i \in Issues, NEW f \in BOOLEAN, Load(w, i, f)
  PROVE  IInv'
<1> DEFINE n == Count(home, i)
           at == IF n >= MinSources /\ ~f THEN "sourced" ELSE "loaded"
           me == [Rest EXCEPT !.at = at, !.issue = i, !.force = f, !.row = issue[i], !.cached = n]
<1>1. /\ session[w].at = "idle" /\ session' = [session EXCEPT ![w] = me]
      /\ UNCHANGED <<home, issue, recent, candidate, desk, changes, faults, word, owed>>
      /\ Enters(i, f)
  BY DEF Load, Enters
<1>2. TypeOK /\ session \in [Workers -> Session] /\ issue[i] \in Row /\ n \in Nat
  BY CountType DEF IInv, TypeOK, Session
<1>3. at \in {"loaded", "sourced"}
  OBVIOUS
<1> HIDE DEF n, at
<1>4. me \in Session /\ me.at # "idle" /\ me.issue = i /\ me.force = f
  BY <1>2, <1>3 DEF Rest, Session
<1> HIDE DEF me
<1>5. /\ jobs' \in [Issues -> [BOOLEAN -> JobRow]]
      /\ \A k \in Issues, g \in BOOLEAN : jobs'[k][g].running =
           IF k = i /\ g = f THEN jobs[k][g].running + 1 ELSE jobs[k][g].running
      /\ \A k \in Issues : k # i => jobs'[k] = jobs[k]
      /\ ~NoRow(i)
  BY <1>1, EnterRows
<1>6. /\ session' \in [Workers -> Session] /\ session'[w] = me
      /\ Others(session, session', w)
  BY <1>1, <1>2, <1>4 DEF Others
<1>7. ASSUME NEW k \in Issues, NEW g \in BOOLEAN
      PROVE  jobs'[k][g].running = Cardinality(Busy(session', k, g))
  <2>1. jobs[k][g].running = Cardinality(Busy(session, k, g)) /\ w \notin Busy(session, k, g)
    BY <1>1 DEF IInv, Counted, Busy
  <2>2. CASE k = i /\ g = f
    <3>1. w \in Busy(session', k, g)
      BY <1>4, <1>6, <2>2 DEF Busy
    <3>2. Cardinality(Busy(session', k, g)) = Cardinality(Busy(session, k, g)) + 1
      BY <1>6, <2>1, <3>1, BusyChange
    <3>3. QED BY <1>5, <2>1, <2>2, <3>2
  <2>3. CASE ~(k = i /\ g = f)
    <3>1. w \notin Busy(session', k, g)
      BY <1>4, <1>6, <2>3 DEF Busy
    <3>2. Busy(session', k, g) = Busy(session, k, g)
      BY <1>6, <2>1, <3>1, BusyChange
    <3>3. QED BY <1>5, <2>1, <2>3, <3>2
  <2>4. QED BY <2>2, <2>3
<1>8. Counted'
  BY <1>4, <1>6, <1>7 DEF IInv, Counted, Others
<1>9. \A k \in Issues : word[k] = "hidden" /\ ~owed[k] => jobs'[k] = jobs[k]
  BY <1>5 DEF IInv, Quiet
<1>10. QED BY <1>1, <1>2, <1>5, <1>6, <1>8, <1>9, QueueStep DEF TypeOK

LEMMA CollectKeeps == ASSUME IInv, NEW w \in Workers, Collect(w) PROVE IInv'
<1>1. PICK S \in SUBSET Articles :
        session' = [session EXCEPT ![w].at = "collected", ![w].articles = S,
                      ![w].cached = Count(Moved(S, session[w].issue), session[w].issue)]
  BY DEF Collect
<1> DEFINE n == Count(Moved(S, session[w].issue), session[w].issue)
           me == [session[w] EXCEPT !.at = "collected", !.articles = S, !.cached = n]
<1>2. /\ session[w].at = "loaded"
      /\ UNCHANGED <<home, issue, recent, candidate, jobs, desk, changes, faults, word, owed>>
  BY DEF Collect
<1>3. TypeOK /\ session \in [Workers -> Session] /\ session[w] \in Session /\ n \in Nat
  BY CountType DEF IInv, TypeOK, Session
<1>4. session' = [session EXCEPT ![w] = me]
  BY <1>1
<1> HIDE DEF n
<1>5. /\ me \in Session /\ me.at = "collected"
      /\ me.issue = session[w].issue /\ me.force = session[w].force
  BY <1>3 DEF Session
<1> HIDE DEF me
<1>6. session' \in [Workers -> Session] /\ session'[w] = me /\ Others(session, session', w)
  BY <1>3, <1>4, <1>5 DEF Others
<1>7. ASSUME NEW k \in Issues, NEW g \in BOOLEAN
      PROVE  jobs'[k][g].running = Cardinality(Busy(session', k, g))
  <2>1. w \in Busy(session, k, g) <=> w \in Busy(session', k, g)
    BY <1>2, <1>5, <1>6 DEF Busy
  <2>2. Busy(session', k, g) = Busy(session, k, g)
    BY <1>6, <2>1, BusyChange
  <2>3. QED BY <1>2, <2>2 DEF IInv, Counted
<1>8. Counted'
  BY <1>2, <1>5, <1>6, <1>7 DEF IInv, Counted, Others
<1>9. QED BY <1>2, <1>3, <1>6, <1>8, QueueStep DEF TypeOK, JobRow
-----------------------------------------------------------------------------
LEMMA DeskInit == Init => IInv
<1> SUFFICES ASSUME Init PROVE IInv
  OBVIOUS
<1>1. Absent \in Row /\ Rest \in Session /\ Rest.at = "idle"
  BY RestSession DEF Absent, Row, Status
<1>2. TypeOK
  BY <1>1, DeskAssumption DEF Init, TypeOK, NoRequest, Session
<1>3. ASSUME NEW i \in Issues, NEW f \in BOOLEAN
      PROVE  jobs[i][f].running = Cardinality(Busy(session, i, f))
  <2>1. Busy(session, i, f) = {}
    BY <1>1 DEF Init, Busy
  <2>2. jobs[i][f].running = 0
    BY DEF Init
  <2>3. QED BY <2>1, <2>2, FS_EmptySet
<1>4. Counted
  BY <1>1, <1>3 DEF Counted, Init
<1>5. Quiet
  BY DEF Quiet, Init
<1>6. QED BY <1>2, <1>4, <1>5 DEF IInv

LEMMA DeskNext == IInv /\ [Next]_vars => IInv'
<1> SUFFICES ASSUME IInv, [Next]_vars PROVE IInv'
  OBVIOUS
<1>1. CASE UNCHANGED vars
  BY <1>1 DEF vars, IInv, TypeOK, Counted, Quiet, Busy, NoRow
<1>2. CASE \E S \in SUBSET Issues : Tick(S)
  BY <1>2, TickKeeps
<1>3. ASSUME NEW w \in Workers, Step(w) \/ Fault(w) \/ \E i \in Issues, f \in BOOLEAN : Load(w, i, f)
      PROVE  IInv'
  BY <1>3, CollectKeeps, CommitKeeps, FaultKeeps, LoadKeeps DEF Step
<1>4. CASE Hide \/ \E i \in Issues : Ages(i)
  BY <1>4, HideKeeps, AgesKeep
<1>5. CASE
  /\ changes < MaxChanges /\ changes' = changes + 1
  /\ \/ \E a \in Articles : CollectSource(a)
     \/ \E i \in Issues : Handlers(i)
     \/ \E i \in Issues : Approve(i) \/ AskToHide(i) \/ \E j \in Issues : Merge(i, j)
     \/ \E a \in DOMAIN SplitOf : Split(a)
     \/ Repair
  <2>1. changes' \in 0..MaxChanges
    <3>1. changes \in 0..MaxChanges /\ MaxChanges \in Nat
      BY DeskAssumption DEF IInv, TypeOK
    <3>2. QED BY <1>5, <3>1
  <2>2. ASSUME NEW a \in Articles, CollectSource(a) PROVE IInv'
    BY <2>1, <2>2, DeskStep DEF CollectSource, IInv, TypeOK
  <2>3. ASSUME NEW i \in Issues, Handlers(i) PROVE IInv'
    BY <2>1, <2>3, HandlersKeep
  <2>4. ASSUME NEW i \in Issues, Approve(i) \/ AskToHide(i) \/ \E j \in Issues : Merge(i, j) PROVE IInv'
    BY <2>1, <2>4, ApproveKeeps, AskKeeps, MergeKeeps
  <2>5. ASSUME NEW a \in DOMAIN SplitOf, Split(a) PROVE IInv'
    BY <2>1, <2>5, SplitKeeps
  <2>6. CASE Repair
    BY <2>1, <2>6, RepairKeeps
  <2>7. QED BY <1>5, <2>2, <2>3, <2>4, <2>5, <2>6
<1>6. QED BY <1>1, <1>2, <1>3, <1>4, <1>5 DEF Next
-----------------------------------------------------------------------------
(* The variables have their types: counts and rows stay natural numbers,    *)
(* whatever the requests, handlers and backfills do at once.                *)
THEOREM DeskTypeCorrect == Spec => []TypeOK
<1>1. IInv => TypeOK
  BY DEF IInv
<1>2. QED BY <1>1, DeskInit, DeskNext, PTL DEF Spec

(* hide_issue is not undone by the jobs: with no older backfill of the      *)
(* issue and no change while it was served, the issue is not public until   *)
(* it is published anew.                                                    *)
THEOREM HiddenStaysHidden == Spec => []OnlyOldWorkUnhides
<1>1. IInv => OnlyOldWorkUnhides
  BY DEF IInv, Quiet, OnlyOldWorkUnhides, TypeOK
<1>2. QED BY <1>1, DeskInit, DeskNext, PTL DEF Spec
=============================================================================
