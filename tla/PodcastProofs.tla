---------------------------- MODULE PodcastProofs ----------------------------
(***************************************************************************)
(* What is in the feed by the gate's word met no correction since it was   *)
(* committed, and a rebuilt episode is never missing, for every number of  *)
(* issues, sessions, requests and faults.                                  *)
(*                                                                         *)
(* A generation that deleted an episode holds the row that replaces it, or *)
(* is just writing it (Replaced).  The copy of a row that a session has    *)
(* read may be out of date, but whatever publishes itself now did so when  *)
(* it was read (Copies), so writing the copy back vouches for nothing      *)
(* new.  What two sessions deleted or wrote are different rows, and new    *)
(* rows are nobody's copies (Apart); ids name one episode (Unique).        *)
(***************************************************************************)
EXTENDS Podcast, FiniteSetTheorems, TLAPS

Typed ==
  /\ content \in [Issues -> 0..MaxContent] /\ shape \in [Issues -> Formats]
  /\ visible \subseteq Issues /\ episodes \subseteq Episode
  /\ session \in [Sessions -> Transaction]

(* Two rows of the same episode, before and after an edit. *)
Twin(r, q) == r.about = q.about /\ r.variant = q.variant
Same(r, q) == r.id = q.id /\ Twin(r, q)

Unique == \A r, q \in episodes : r.id = q.id => r = q

Sound(r) == r.auto => r.gate = "publishable" /\ ~r.held

(* A row that has not been committed is what the gate made it. *)
AsGated(r) == Sound(r) /\ (r.by = "gate" => r.auto)

Orderly(v) ==
  /\ v.at \in {"found", "build"} => v.cur \in Subjects
  /\ v.at = "found" => \A c \in v.found : c.about = v.cur /\ c.variant = v.variant
  /\ v.at \in {"choose", "found", "build"} => v.job \in Targets \cup {"request"}
  /\ v.at = "ended" => v.job \in Targets
  /\ v.at \notin {"choose", "found", "build"} => v.made = {} /\ v.gone = {}

FreshRows(v) == \A q \in v.made :
  /\ q.id \notin IdsOf(episodes) /\ AsGated(q)
  /\ \A p \in v.made : p.id = q.id => p = q

Replaced(v) == \A r \in episodes : r.id \in v.gone =>
  \/ \E q \in v.made : Twin(r, q)
  \/ v.at = "build" /\ v.cur = r.about /\ v.variant = r.variant

(* c was read of the row that is now r. *)
Read(c, r) == Same(r, c) /\ (r.auto => c.auto)
Copied(v) == v.found \cup v.kept
Copies(v) == \A c \in Copied(v) : Sound(c) /\ \A r \in episodes : r.id = c.id => Read(c, r)

Good(v) ==
  Orderly(v) /\ FreshRows(v) /\ Replaced(v) /\ Copies(v) /\ v.gone \subseteq IdsOf(episodes)

Distinct(v, u) ==
  v.gone \cap u.gone = {} /\ \A q \in v.made, p \in u.made : q.id # p.id
Clear(v, u) == \A q \in v.made, c \in Copied(u) : q.id # c.id

Apart == \A s, t \in Sessions :
  /\ s # t => Distinct(session[s], session[t])
  /\ Clear(session[s], session[t])

IInv == Typed /\ (\A s \in Sessions : Good(session[s])) /\ Unique /\ Apart /\ FeedPassedGate
-----------------------------------------------------------------------------
LEMMA RestIsTyped ==
  /\ Rest \in Transaction /\ Rest.at = "idle" /\ Rest.job = None
  /\ Rest.made = {} /\ Rest.gone = {} /\ Rest.kept = {} /\ Rest.found = {} /\ Rest.todo = {}
BY PodcastAssumption DEF Rest, Transaction

LEMMA RestIsGood == Good(Rest)
BY RestIsTyped DEF Good, Orderly, FreshRows, Replaced, Copies, Copied

LEMMA StoredIsSound == ASSUME IInv PROVE \A r \in episodes : r \in Episode /\ Sound(r)
BY DEF IInv, Typed, FeedPassedGate, Sound

LEMMA SameReflexive == \A r : Same(r, r)
BY DEF Same, Twin

(* Steps of one session that store nothing. *)
LEMMA SessionStep ==
  ASSUME IInv, UNCHANGED <<content, shape, visible, episodes>>, NEW s \in Sessions,
         NEW n \in Transaction, session' = [session EXCEPT ![s] = n], Good(n), Clear(n, n),
         \A t \in Sessions : t # s =>
           Distinct(n, session[t]) /\ Clear(n, session[t]) /\ Clear(session[t], n)
  PROVE  IInv'
<1>1. Typed'
  BY DEF IInv, Typed
<1>2. session'[s] = n /\ \A t \in Sessions : t # s => session'[t] = session[t]
  BY DEF IInv, Typed
<1>3. ASSUME NEW t \in Sessions PROVE Good(session[t])'
  <2>1. Good(session'[t])
    BY <1>2 DEF IInv
  <2>2. QED BY <2>1 DEF Good, Orderly, FreshRows, Replaced, Copies, IdsOf
<1>4. Apart'
  <2> SUFFICES ASSUME NEW t \in Sessions, NEW u \in Sessions
               PROVE  /\ t # u => Distinct(session'[t], session'[u])
                      /\ Clear(session'[t], session'[u])
    BY DEF Apart
  <2>1. CASE t # s /\ u # s
    BY <1>2, <2>1 DEF IInv, Apart
  <2>2. CASE t = s /\ u = s
    BY <1>2, <2>2
  <2>3. CASE t = s /\ u # s
    BY <1>2, <2>3
  <2>4. CASE u = s /\ t # s
    BY <1>2, <2>4 DEF Distinct
  <2>5. QED BY <2>1, <2>2, <2>3, <2>4
<1>5. Unique' /\ FeedPassedGate'
  BY DEF IInv, Unique, FeedPassedGate
<1>6. QED BY <1>1, <1>3, <1>4, <1>5 DEF IInv

(* Copies are those it had, or of rows that are stored. *)
LEMMA CopiesOfRows ==
  ASSUME IInv, NEW s \in Sessions, NEW n, \A c \in Copied(n) : c \in Copied(session[s]) \cup episodes
  PROVE  /\ Copies(n)
         /\ \A t \in Sessions : Clear(session[t], n)
<1>1. Good(session[s])
  BY DEF IInv
<1>2. ASSUME NEW c \in Copied(n)
      PROVE  Sound(c) /\ \A r \in episodes : r.id = c.id => Read(c, r)
  <2>1. CASE c \in Copied(session[s])
    BY <1>1, <2>1 DEF Good, Copies
  <2>2. CASE c \in episodes
    <3>1. Sound(c)
      BY <2>2, StoredIsSound
    <3>2. ASSUME NEW r \in episodes, r.id = c.id PROVE Read(c, r)
      BY <2>2, <3>2, SameReflexive DEF IInv, Unique, Read
    <3>3. QED BY <3>1, <3>2
  <2>3. QED BY <2>1, <2>2
<1>3. ASSUME NEW t \in Sessions, NEW q \in session[t].made, NEW c \in Copied(n) PROVE q.id # c.id
  <2>1. CASE c \in Copied(session[s])
    BY <2>1 DEF IInv, Apart, Clear
  <2>2. CASE c \in episodes
    BY <2>2 DEF IInv, Good, FreshRows, IdsOf
  <2>3. QED BY <2>1, <2>2
<1>4. QED BY <1>2, <1>3 DEF Copies, Clear

(* A session that holds nothing but copies. *)
LEMMA EmptyStep ==
  ASSUME IInv, UNCHANGED <<content, shape, visible, episodes>>, NEW s \in Sessions,
         NEW n \in Transaction, session' = [session EXCEPT ![s] = n], Orderly(n),
         n.made = {}, n.gone = {}, Copied(n) \subseteq episodes
  PROVE  IInv'
<1>1. Copies(n) /\ \A t \in Sessions : Clear(session[t], n)
  BY CopiesOfRows
<1>2. Good(n) /\ Clear(n, n)
  BY <1>1 DEF Good, FreshRows, Replaced, Clear
<1>3. \A t \in Sessions : Distinct(n, session[t]) /\ Clear(n, session[t])
  BY DEF Distinct, Clear
<1>4. QED BY <1>1, <1>2, <1>3, SessionStep

(* A session that goes on with what it holds, and may read rows. *)
LEMMA HoldingStep ==
  ASSUME IInv, UNCHANGED <<content, shape, visible, episodes>>, NEW s \in Sessions,
         NEW n \in Transaction, session' = [session EXCEPT ![s] = n],
         Orderly(n), FreshRows(n), Replaced(n),
         n.gone = session[s].gone, n.made = session[s].made,
         \A c \in Copied(n) : c \in Copied(session[s]) \cup episodes
  PROVE  IInv'
<1>1. Copies(n) /\ \A t \in Sessions : Clear(session[t], n)
  BY CopiesOfRows
<1>2. Good(n) /\ Clear(n, n)
  BY <1>1 DEF Good, IInv, Clear
<1>3. \A t \in Sessions : t # s => Distinct(n, session[t]) /\ Clear(n, session[t])
  BY DEF IInv, Apart, Distinct, Clear
<1>4. QED BY <1>1, <1>2, <1>3, SessionStep

LEMMA BeginKeeps == ASSUME IInv, NEW s \in Sessions, NEW t \in Targets, Begin(s, t) PROVE IInv'
<1> DEFINE force == t \in Issues
           todo == Wanted(t)
           n == [Rest EXCEPT !.at = "choose", !.job = t, !.force = force, !.todo = todo]
<1>1. session' = [session EXCEPT ![s] = n] /\ UNCHANGED <<content, shape, visible, episodes>>
  BY DEF Begin
<1>2. todo \subseteq Subjects /\ force \in BOOLEAN
  BY DEF Wanted, Subjects, IInv, Typed
<1> HIDE DEF force, todo
<1>3. n \in Transaction /\ Orderly(n) /\ n.made = {} /\ n.gone = {} /\ n.found = {} /\ n.kept = {}
  BY <1>2, RestIsTyped DEF Transaction, Orderly
<1> HIDE DEF n
<1>4. QED BY <1>1, <1>3, EmptyStep DEF Copied

LEMMA RequestKeeps == ASSUME IInv, NEW s \in Sessions, Request(s) PROVE IInv'
<1>1. PICK i \in visible, v \in Variants, force \in BOOLEAN :
        session' = [session EXCEPT ![s] = [Rest EXCEPT
          !.at = "choose", !.job = "request", !.force = force, !.todo = {i}, !.variant = v]]
  BY DEF Request
<1> DEFINE n == [Rest EXCEPT
             !.at = "choose", !.job = "request", !.force = force, !.todo = {i}, !.variant = v]
<1>2. session' = [session EXCEPT ![s] = n] /\ UNCHANGED <<content, shape, visible, episodes>>
  BY <1>1 DEF Request
<1>3. i \in Subjects
  BY DEF Subjects, IInv, Typed
<1>4. n \in Transaction /\ Orderly(n) /\ n.made = {} /\ n.gone = {} /\ n.found = {} /\ n.kept = {}
  BY <1>3, RestIsTyped DEF Transaction, Orderly
<1> HIDE DEF n
<1>5. QED BY <1>2, <1>4, EmptyStep DEF Copied

LEMMA KeepKeeps == ASSUME IInv, NEW s \in Sessions, Keep(s) PROVE IInv'
<1> DEFINE v == session[s]
<1>1. PICK b \in v.todo : \E r \in Existing(b, v.variant) :
        session' = [session EXCEPT ![s].todo = @ \ {b}, ![s].kept = @ \cup {r}]
  BY DEF Keep
<1>2. PICK r \in Existing(b, v.variant) :
        session' = [session EXCEPT ![s].todo = @ \ {b}, ![s].kept = @ \cup {r}]
  BY <1>1
<1> DEFINE n == [v EXCEPT !.todo = @ \ {b}, !.kept = @ \cup {r}]
<1>3. v \in Transaction /\ Good(v) /\ v.at = "choose" /\ r \in episodes /\ r \in Episode
  BY <1>2 DEF IInv, Typed, Existing, Keep
<1>4. session' = [session EXCEPT ![s] = n] /\ UNCHANGED <<content, shape, visible, episodes>>
  BY <1>2 DEF Keep
<1>5. /\ n \in Transaction /\ n.at = v.at /\ n.cur = v.cur /\ n.job = v.job
      /\ n.variant = v.variant /\ n.made = v.made /\ n.gone = v.gone
      /\ n.found = v.found /\ n.kept = v.kept \cup {r}
  BY <1>3 DEF Transaction
<1> HIDE DEF n
<1>6. Orderly(n) /\ FreshRows(n) /\ Replaced(n)
  BY <1>3, <1>5 DEF Good, Orderly, FreshRows, Replaced
<1>7. \A c \in Copied(n) : c \in Copied(v) \cup episodes
  BY <1>3, <1>5 DEF Copied
<1>8. QED BY <1>4, <1>5, <1>6, <1>7, HoldingStep

LEMMA LookKeeps == ASSUME IInv, NEW s \in Sessions, Look(s) PROVE IInv'
<1> DEFINE v == session[s]
<1>1. PICK b \in v.todo :
        \E found \in IF Existing(b, v.variant) = {} THEN {{}} ELSE {{r} : r \in Existing(b, v.variant)} :
          session' = [session EXCEPT ![s].at = "found", ![s].cur = b,
            ![s].format = FormatFor(b, v.variant), ![s].found = found]
  BY DEF Look
<1>2. PICK found \in IF Existing(b, v.variant) = {} THEN {{}} ELSE {{r} : r \in Existing(b, v.variant)} :
          session' = [session EXCEPT ![s].at = "found", ![s].cur = b,
            ![s].format = FormatFor(b, v.variant), ![s].found = found]
  BY <1>1
<1> DEFINE format == FormatFor(b, v.variant)
           n == [v EXCEPT !.at = "found", !.cur = b, !.format = format, !.found = found]
<1>3. v \in Transaction /\ Good(v) /\ v.at = "choose" /\ b \in Subjects /\ episodes \subseteq Episode
  BY DEF IInv, Typed, Look, Transaction
<1>4. session' = [session EXCEPT ![s] = n] /\ UNCHANGED <<content, shape, visible, episodes>>
  BY <1>2, ZenonT(30) DEF Look
<1>5. \A c \in found : c \in Existing(b, v.variant)
  BY <1>2
<1>6. \A c \in found : c \in episodes /\ c.about = b /\ c.variant = v.variant
  BY <1>5 DEF Existing, Key, KeyOf
<1>7. format \in Formats \cup {"solo", "panel_3"}
  BY <1>3, PodcastAssumption DEF FormatFor, Subjects, IInv, Typed
<1>8. found \in SUBSET Episode
  BY <1>3, <1>6
<1> HIDE DEF format
<1>9. /\ n \in Transaction /\ n.at = "found" /\ n.cur = b /\ n.job = v.job
      /\ n.variant = v.variant /\ n.made = v.made /\ n.gone = v.gone
      /\ n.found = found /\ n.kept = v.kept
  BY <1>3, <1>7, <1>8 DEF Transaction
<1> HIDE DEF n
<1>10. Orderly(n) /\ FreshRows(n) /\ Replaced(n)
  BY <1>3, <1>6, <1>9 DEF Good, Orderly, FreshRows, Replaced
<1>11. \A c \in Copied(n) : c \in Copied(v) \cup episodes
  BY <1>6, <1>9 DEF Copied
<1>12. QED BY <1>4, <1>9, <1>10, <1>11, HoldingStep

LEMMA WriteKeeps == ASSUME IInv, NEW s \in Sessions, Write(s) PROVE IInv'
<1> DEFINE v == session[s]
<1>1. PICK id \in (Unwritten(s) \ Locked(s)) \cap IdsOf(episodes) :
        session' = [session EXCEPT ![s].wrote = @ \cup {id}]
  BY DEF Write
<1> DEFINE n == [v EXCEPT !.wrote = @ \cup {id}]
<1>2. v \in Transaction /\ Good(v) /\ id \in Ids
  BY DEF IInv, Typed, IdsOf, Episode
<1>3. session' = [session EXCEPT ![s] = n] /\ UNCHANGED <<content, shape, visible, episodes>>
  BY <1>1 DEF Write
<1>4. /\ n \in Transaction /\ n.at = v.at /\ n.cur = v.cur /\ n.job = v.job
      /\ n.variant = v.variant /\ n.made = v.made /\ n.gone = v.gone
      /\ n.found = v.found /\ n.kept = v.kept
  BY <1>2 DEF Transaction
<1> HIDE DEF n
<1>5. Orderly(n) /\ FreshRows(n) /\ Replaced(n)
  BY <1>2, <1>4 DEF Good, Orderly, FreshRows, Replaced
<1>6. \A c \in Copied(n) : c \in Copied(v) \cup episodes
  BY <1>4 DEF Copied
<1>7. QED BY <1>3, <1>4, <1>5, <1>6, HoldingStep

LEMMA StartBuildKeeps == ASSUME IInv, NEW s \in Sessions, StartBuild(s) PROVE IInv'
<1> DEFINE v == session[s]
           dropped == IdsOf(v.found) \cap IdsOf(episodes)
           built == IF v.cur = Daily THEN 0 ELSE content[v.cur]
           n == [v EXCEPT !.at = "build", !.found = {}, !.built = built, !.gone = @ \cup dropped]
<1>1. v \in Transaction /\ Good(v) /\ v.at = "found" /\ IdsOf(v.found) \cap Locked(s) = {}
  BY DEF IInv, Typed, StartBuild
<1>2. session' = [session EXCEPT ![s] = n] /\ UNCHANGED <<content, shape, visible, episodes>>
  BY ZenonT(30) DEF StartBuild
<1>3. v.cur \in Subjects /\ \A c \in v.found : c.about = v.cur /\ c.variant = v.variant
  BY <1>1 DEF Good, Orderly
<1>4. dropped \subseteq Ids /\ dropped \subseteq IdsOf(episodes) /\ dropped \cap Locked(s) = {}
  BY <1>1 DEF IInv, Typed, Episode, IdsOf
<1>5. built \in 0..MaxContent
  BY <1>3, PodcastAssumption DEF Subjects, IInv, Typed
<1>6. ASSUME NEW r \in episodes, r.id \in dropped PROVE v.cur = r.about /\ v.variant = r.variant
  <2>1. PICK c \in v.found : c.id = r.id
    BY <1>6 DEF IdsOf
  <2>2. Same(r, c)
    BY <1>1, <2>1 DEF Good, Copies, Copied, Read
  <2>3. QED BY <1>3, <2>1, <2>2 DEF Same, Twin
<1> HIDE DEF dropped, built
<1>7. /\ n \in Transaction /\ n.at = "build" /\ n.cur = v.cur /\ n.job = v.job
      /\ n.variant = v.variant /\ n.made = v.made /\ n.gone = v.gone \cup dropped
      /\ n.found = {} /\ n.kept = v.kept
  BY <1>1, <1>4, <1>5 DEF Transaction
<1> HIDE DEF n
<1>8. Replaced(n)
  <2> SUFFICES ASSUME NEW r \in episodes, r.id \in n.gone
               PROVE  (\E q \in n.made : Twin(r, q)) \/ (n.cur = r.about /\ n.variant = r.variant)
    BY <1>7 DEF Replaced
  <2>1. CASE r.id \in v.gone
    BY <1>1, <1>7, <2>1 DEF Good, Replaced
  <2>2. CASE r.id \in dropped
    BY <1>6, <1>7, <2>2
  <2>3. QED BY <1>7, <2>1, <2>2
<1>9. \A c \in Copied(n) : c \in Copied(v) \cup episodes
  BY <1>7 DEF Copied
<1>10. Copies(n) /\ \A t \in Sessions : Clear(session[t], n)
  BY <1>9, CopiesOfRows
<1>11. Orderly(n) /\ FreshRows(n)
  BY <1>1, <1>3, <1>7 DEF Good, Orderly, FreshRows
<1>12. Good(n) /\ Clear(n, n)
  BY <1>1, <1>4, <1>7, <1>8, <1>10, <1>11 DEF Good, Clear
<1>13. ASSUME NEW t \in Sessions, t # s PROVE Distinct(n, session[t]) /\ Clear(n, session[t])
  <2>1. dropped \cap session[t].gone = {}
    BY <1>4, <1>13 DEF Locked, Locks
  <2>2. Distinct(v, session[t]) /\ Clear(v, session[t])
    BY <1>13 DEF IInv, Apart
  <2>3. QED BY <1>7, <2>1, <2>2 DEF Distinct, Clear
<1>14. QED BY <1>2, <1>7, <1>10, <1>12, <1>13, SessionStep

LEMMA FreeIdIsFree == ASSUME Ids \ UsedIds # {} PROVE FreeId \in Ids /\ FreeId \notin UsedIds
BY DEF FreeId

LEMMA OutcomeType ==
  \A o \in Outcomes : o.gate \in {"publishable", "blocked"} /\ o.told \in BOOLEAN
<1>1. \A ev \in Evidence : Gate(ev, Settings) \in {"publishable", "blocked"} /\ ev.told \in BOOLEAN
  BY PodcastAssumption DEF Gate, EpisodeEvidence
<1>2. QED BY <1>1 DEF Outcomes

LEMMA NewRowType ==
  ASSUME IInv, NEW s \in Sessions, session[s].at = "build", Ids \ UsedIds # {},
         NEW o \in Outcomes
  PROVE  /\ NewRow(s, o) \in Episode /\ AsGated(NewRow(s, o)) /\ NewRow(s, o).id = FreeId
         /\ NewRow(s, o).about = session[s].cur /\ NewRow(s, o).variant = session[s].variant
<1> DEFINE v == session[s]
           ok == o.gate = "publishable"
           st == IF ok THEN "published" ELSE "draft"
           by == IF ok THEN "gate" ELSE "nobody"
<1>1. v \in Transaction /\ v.cur \in Subjects
  BY DEF IInv, Typed, Good, Orderly
<1>2. NewRow(s, o) =
        [id |-> FreeId, about |-> v.cur, format |-> v.format, variant |-> v.variant,
         status |-> st, gate |-> o.gate, held |-> FALSE, auto |-> ok, by |-> by,
         audio |-> FALSE, told |-> o.told, built |-> v.built, seen |-> v.built]
  BY DEF NewRow
<1>3. /\ st \in {"draft", "published", "archived"} /\ by \in {"nobody", "gate", "operator"}
      /\ ok \in BOOLEAN /\ (ok => o.gate = "publishable") /\ (by = "gate" => ok)
  OBVIOUS
<1> HIDE DEF ok, st, by
<1>4. NewRow(s, o) \in Episode
  BY <1>1, <1>2, <1>3, FreeIdIsFree, OutcomeType DEF Episode, Transaction
<1>5. QED BY <1>2, <1>3, <1>4 DEF AsGated, Sound

LEMMA InsertKeeps == ASSUME IInv, NEW s \in Sessions, Insert(s) PROVE IInv'
<1> DEFINE v == session[s]
<1>1. PICK o \in Outcomes :
        session' = [session EXCEPT ![s].at = "choose", ![s].cur = None, ![s].format = "solo",
          ![s].built = 0, ![s].todo = @ \ {v.cur}, ![s].made = @ \cup {NewRow(s, o)}]
  BY DEF Insert
<1> DEFINE row == NewRow(s, o)
           n == [v EXCEPT !.at = "choose", !.cur = None, !.format = "solo",
                          !.built = 0, !.todo = @ \ {v.cur}, !.made = @ \cup {row}]
<1>2. v \in Transaction /\ Good(v) /\ v.at = "build" /\ Ids \ UsedIds # {}
  BY DEF IInv, Typed, Insert
<1>3. session' = [session EXCEPT ![s] = n] /\ UNCHANGED <<content, shape, visible, episodes>>
  BY <1>1, ZenonT(30) DEF Insert
<1>4. /\ row \in Episode /\ AsGated(row) /\ row.id = FreeId
      /\ row.about = v.cur /\ row.variant = v.variant
  BY <1>2, NewRowType
<1> HIDE DEF row
<1>5. /\ row.id \notin IdsOf(episodes)
      /\ \A t \in Sessions : \A p \in session[t].made \cup Copied(session[t]) : p.id # row.id
  <2>1. FreeId \notin UsedIds
    BY <1>2, FreeIdIsFree
  <2>2. QED BY <1>4, <2>1 DEF UsedIds, IdsOf, Holds, Copied
<1>6. /\ n \in Transaction /\ n.at = "choose" /\ n.job = v.job
      /\ n.variant = v.variant /\ n.made = v.made \cup {row} /\ n.gone = v.gone
      /\ n.found = v.found /\ n.kept = v.kept
  <2>1. 0 \in 0..MaxContent
    BY PodcastAssumption
  <2>2. v.made \cup {row} \in SUBSET Episode /\ v.todo \ {v.cur} \in SUBSET Subjects
    BY <1>2, <1>4 DEF Transaction
  <2>3. QED BY <1>2, <2>1, <2>2 DEF Transaction
<1> HIDE DEF n
<1>7. FreshRows(n)
  BY <1>2, <1>4, <1>5, <1>6 DEF Good, FreshRows
<1>8. Replaced(n)
  BY <1>2, <1>4, <1>6 DEF Good, Replaced, Twin
<1>9. Copied(n) = Copied(v) /\ Copies(n)
  BY <1>2, <1>6 DEF Good, Copies, Copied
<1>10. Good(n)
  BY <1>2, <1>6, <1>7, <1>8, <1>9 DEF Good, Orderly
<1>11. \A t \in Sessions : Clear(n, session[t])
  BY <1>5, <1>6 DEF IInv, Apart, Clear
<1>12. Clear(n, n)
  BY <1>9, <1>11 DEF Clear
<1>13. ASSUME NEW t \in Sessions, t # s
       PROVE  Distinct(n, session[t]) /\ Clear(session[t], n)
  BY <1>5, <1>6, <1>9, <1>13 DEF IInv, Apart, Distinct, Clear
<1>14. QED BY <1>3, <1>6, <1>10, <1>11, <1>12, <1>13, SessionStep

(* Sessions that let go of everything. *)
LEMMA RestStep ==
  ASSUME IInv, UNCHANGED <<content, shape, visible, episodes>>, NEW s \in Sessions,
         session' = [session EXCEPT ![s] = Rest]
  PROVE  IInv'
<1>1. Orderly(Rest) /\ Copied(Rest) = {}
  BY RestIsGood, RestIsTyped DEF Good, Copied
<1>2. QED BY <1>1, RestIsTyped, EmptyStep

LEMMA EndJobKeeps == ASSUME IInv, NEW s \in Sessions, EndJob(s) PROVE IInv'
BY RestStep DEF EndJob

LEMMA RollBackKeeps == ASSUME IInv, NEW s \in Sessions, RollBack(s) PROVE IInv'
BY RestStep DEF RollBack

LEMMA StartRenderKeeps == ASSUME IInv, NEW s \in Sessions, StartRender(s) PROVE IInv'
<1>1. PICK r \in episodes : session' = [session EXCEPT ![s] = [Rest EXCEPT !.at = "audio", !.kept = {r}]]
  BY DEF StartRender
<1> DEFINE n == [Rest EXCEPT !.at = "audio", !.kept = {r}]
<1>2. {r} \in SUBSET Episode
  BY DEF IInv, Typed
<1>3. session' = [session EXCEPT ![s] = n] /\ UNCHANGED <<content, shape, visible, episodes>>
  BY <1>1 DEF StartRender
<1>4. /\ n \in Transaction /\ Orderly(n) /\ n.made = {} /\ n.gone = {}
      /\ n.found = {} /\ n.kept = {r}
  BY <1>2, RestIsTyped DEF Transaction, Orderly
<1> HIDE DEF n
<1>5. Copied(n) \subseteq episodes
  BY <1>4 DEF Copied
<1>6. QED BY <1>3, <1>4, <1>5, EmptyStep
-----------------------------------------------------------------------------
(* Edits of rows that are stored. *)

(* Row r becomes f[r], the same episode; it publishes itself only if it did. *)
Edited(r, x) == x \in Episode /\ Same(r, x) /\ (x.auto => r.auto)

LEMMA EditsKeep ==
  ASSUME IInv, content' \in [Issues -> 0..MaxContent], shape' \in [Issues -> Formats],
         visible' \subseteq Issues, session' \in [Sessions -> Transaction],
         \A t \in Sessions : session'[t] \in {session[t], Rest},
         NEW f, episodes' = {f[r] : r \in episodes}, \A r \in episodes : Edited(r, f[r]),
         FeedPassedGate'
  PROVE  IInv'
<1>1. Typed'
  BY DEF Typed, Edited
<1>2. IdsOf(episodes') = IdsOf(episodes)
  BY DEF Edited, Same, IdsOf
<1>3. Unique'
  <2> SUFFICES ASSUME NEW x \in episodes', NEW y \in episodes', x.id = y.id PROVE x = y
    BY DEF Unique
  <2>1. PICK r \in episodes, q \in episodes : x = f[r] /\ y = f[q]
    OBVIOUS
  <2>2. r.id = q.id
    BY <2>1 DEF Edited, Same
  <2>3. QED BY <2>1, <2>2 DEF IInv, Unique
<1>4. ASSUME NEW t \in Sessions PROVE Good(session[t])'
  <2> DEFINE u == session'[t]
  <2>1. Good(u)
    BY RestIsGood DEF IInv
  <2>2. Orderly(u) /\ (\A q \in u.made : q.id \notin IdsOf(episodes')) /\ u.gone \subseteq IdsOf(episodes')
    BY <1>2, <2>1 DEF Good, FreshRows
  <2>3. ASSUME NEW x \in episodes', x.id \in u.gone
        PROVE  \/ \E q \in u.made : Twin(x, q)
               \/ u.at = "build" /\ u.cur = x.about /\ u.variant = x.variant
    <3>1. PICK r \in episodes : Edited(r, x)
      OBVIOUS
    <3>2. r.id \in u.gone
      BY <2>3, <3>1 DEF Edited, Same
    <3>3. QED BY <2>1, <3>1, <3>2 DEF Good, Replaced, Edited, Same, Twin
  <2>4. ASSUME NEW c \in Copied(u), NEW x \in episodes', x.id = c.id PROVE Read(c, x)
    <3>1. PICK r \in episodes : Edited(r, x)
      OBVIOUS
    <3>2. Read(c, r)
      BY <2>1, <2>4, <3>1 DEF Good, Copies, Edited, Same
    <3>3. QED BY <3>1, <3>2 DEF Read, Edited, Same, Twin
  <2>5. \A c \in Copied(u) : Sound(c)
    BY <2>1 DEF Good, Copies
  <2>6. QED BY <2>1, <2>2, <2>3, <2>4, <2>5 DEF Good, Orderly, FreshRows, Replaced, Copies, IdsOf
<1>5. Apart'
  BY RestIsTyped DEF IInv, Apart, Distinct, Clear, Copied
<1>6. QED BY <1>1, <1>3, <1>4, <1>5 DEF IInv

LEMMA Unedited == ASSUME IInv PROVE \A r \in episodes : Edited(r, r)
BY StoredIsSound, SameReflexive DEF Edited

(* Steps that store nothing and let sessions rest. *)
LEMMA UneditedKeep ==
  ASSUME IInv, UNCHANGED <<content, shape, episodes>>, visible' \subseteq Issues,
         session' \in [Sessions -> Transaction],
         \A t \in Sessions : session'[t] \in {session[t], Rest}
  PROVE  IInv'
<1> DEFINE f == [r \in episodes |-> r]
<1>1. episodes' = {f[r] : r \in episodes} /\ \A r \in episodes : Edited(r, f[r])
  BY Unedited
<1>2. FeedPassedGate'
  BY DEF IInv, FeedPassedGate, InFeed
<1> HIDE DEF f
<1>3. QED BY <1>1, <1>2, EditsKeep DEF IInv, Typed

(* The status, the hold, the gate, who published a row and its audio are    *)
(* edited; the rest of a row is not.                                        *)
LEMMA RowFields ==
  ASSUME NEW r \in Episode
  PROVE  /\ r.auto \in BOOLEAN /\ r.held \in BOOLEAN /\ r.audio \in BOOLEAN
         /\ r.about \in Subjects /\ r.seen \in 0..MaxContent /\ r.id \in Ids
BY DEF Episode

LEMMA HeldRow ==
  ASSUME NEW r \in Episode
  PROVE  /\ Hold(r) \in Episode /\ Same(r, Hold(r)) /\ Same(Hold(r), r)
         /\ Hold(r).auto = FALSE /\ Hold(r).status = "draft"
BY DEF Hold, Episode, Same, Twin

LEMMA SetRow ==
  ASSUME NEW r \in Episode, NEW st \in {"draft", "published", "archived"}
  PROVE  LET q == [r EXCEPT !.status = st, !.by = IF st = "published" THEN "operator" ELSE @]
         IN /\ q \in Episode /\ Same(r, q) /\ Same(q, r)
            /\ q.auto = r.auto /\ q.gate = r.gate /\ q.held = r.held /\ q.status = st
            /\ st = "published" => q.by = "operator"
<1> DEFINE by == IF st = "published" THEN "operator" ELSE r.by
<1>1. by \in {"nobody", "gate", "operator"} /\ (st = "published" => by = "operator")
  BY DEF Episode
<1> HIDE DEF by
<1>2. LET q == [r EXCEPT !.status = st, !.by = by]
      IN /\ q \in Episode /\ Same(r, q) /\ Same(q, r)
         /\ q.auto = r.auto /\ q.gate = r.gate /\ q.held = r.held /\ q.status = st /\ q.by = by
  BY <1>1 DEF Episode, Same, Twin
<1>3. QED BY <1>1, <1>2 DEF by

(* Row x is stored for r: only its audio and what the gate and a hold left   *)
(* on record are another's, and what publishes itself stays sound.          *)
Stays(r, x) ==
  /\ x \in Episode /\ Same(r, x) /\ x.auto = r.auto /\ Sound(x)
  /\ x.status = r.status /\ x.by = r.by /\ x.seen = r.seen

LEMMA RenderedRow ==
  ASSUME NEW r \in Episode, NEW c \in Episode, Sound(c), Read(c, r)
  PROVE  Stays(r, Rendered(r, c))
<1> DEFINE a == r.audio \/ Speech
           x == [r EXCEPT !.audio = a, !.gate = c.gate, !.held = c.held]
<1>1. Rendered(r, c) = x
  BY DEF Rendered
<1>2. a \in BOOLEAN
  BY PodcastAssumption, RowFields
<1> HIDE DEF a
<1>3. /\ x \in Episode /\ x.id = r.id /\ x.about = r.about /\ x.variant = r.variant
      /\ x.auto = r.auto /\ x.gate = c.gate /\ x.held = c.held
      /\ x.status = r.status /\ x.by = r.by /\ x.seen = r.seen
  BY <1>2 DEF Episode
<1> HIDE DEF x
<1>4. Sound(x)
  BY <1>3 DEF Sound, Read
<1>5. QED BY <1>1, <1>3, <1>4 DEF Stays, Same, Twin

LEMMA StaysEdited == ASSUME NEW r, NEW x, Stays(r, x) PROVE Edited(r, x)
BY DEF Stays, Edited

LEMMA WrittenRows ==
  ASSUME IInv, NEW copies \in SUBSET Episode,
         \A c \in copies : Sound(c) /\ \A r \in episodes : r.id = c.id => Read(c, r)
  PROVE  \E f : /\ WrittenBack(copies) = {f[r] : r \in episodes}
                /\ \A r \in episodes : Stays(r, f[r])
<1> DEFINE copy(r) == CHOOSE c \in copies : c.id = r.id
           f == [r \in episodes |-> IF r.id \in IdsOf(copies) THEN Rendered(r, copy(r)) ELSE r]
<1>1. WrittenBack(copies) = {f[r] : r \in episodes}
  BY DEF WrittenBack
<1>2. ASSUME NEW r \in episodes PROVE Stays(r, f[r])
  <2>1. r \in Episode /\ Stays(r, r)
    BY StoredIsSound, SameReflexive DEF Stays
  <2>2. CASE r.id \in IdsOf(copies)
    <3>1. copy(r) \in copies /\ copy(r).id = r.id
      BY <2>2 DEF IdsOf
    <3> HIDE DEF copy
    <3>2. Stays(r, Rendered(r, copy(r)))
      BY <2>1, <3>1, RenderedRow
    <3>3. QED BY <2>2, <3>2
  <2>3. CASE r.id \notin IdsOf(copies)
    BY <2>1, <2>3
  <2>4. QED BY <2>2, <2>3
<1> HIDE DEF f
<1>3. QED BY <1>1, <1>2

(* What a session may write back of what it has read. *)
LEMMA OwnCopies ==
  ASSUME IInv, NEW s \in Sessions, NEW copies, copies \subseteq session[s].kept
  PROVE  /\ copies \in SUBSET Episode
         /\ \A c \in copies : Sound(c) /\ \A r \in episodes : r.id = c.id => Read(c, r)
<1>1. session[s] \in Transaction /\ Good(session[s])
  BY DEF IInv, Typed
<1>2. copies \in SUBSET Episode
  BY <1>1 DEF Transaction
<1>3. QED BY <1>1, <1>2 DEF Good, Copies, Copied

LEMMA EndRenderRows ==
  ASSUME IInv, NEW s \in Sessions, EndRender(s)
  PROVE  \E f : /\ episodes' = {f[r] : r \in episodes}
                /\ \A r \in episodes : Stays(r, f[r])
<1>1. CASE UNCHANGED episodes
  <2> DEFINE f == [r \in episodes |-> r]
  <2>1. episodes' = {f[r] : r \in episodes} /\ \A r \in episodes : Stays(r, f[r])
    BY <1>1, StoredIsSound, SameReflexive DEF Stays
  <2> HIDE DEF f
  <2>2. QED BY <2>1
<1>2. CASE episodes' = WrittenBack(session[s].kept)
  BY <1>2, OwnCopies, WrittenRows
<1>3. QED BY <1>1, <1>2 DEF EndRender

LEMMA EndRenderKeeps == ASSUME IInv, NEW s \in Sessions, EndRender(s) PROVE IInv'
<1>1. UNCHANGED <<content, shape, visible>> /\ session' = [session EXCEPT ![s] = Rest]
  BY DEF EndRender
<1>2. PICK f : episodes' = {f[r] : r \in episodes} /\ \A r \in episodes : Stays(r, f[r])
  BY EndRenderRows
<1>3. \A r \in episodes : Edited(r, f[r])
  BY <1>2, StaysEdited
<1>4. FeedPassedGate'
  <2>1. ASSUME NEW x \in episodes'
        PROVE  /\ x.auto => x.gate = "publishable" /\ ~x.held
               /\ InFeed(x) /\ x.by = "gate" =>
                    x.auto /\ (x.about # Daily => x.seen = content[x.about])
    <3>1. PICK r \in episodes : Stays(r, x)
      BY <1>2
    <3>2. QED BY <3>1 DEF IInv, FeedPassedGate, InFeed, Stays, Sound, Same, Twin
  <2>2. QED BY <1>1, <2>1 DEF FeedPassedGate, InFeed
<1>5. /\ session' \in [Sessions -> Transaction]
      /\ \A t \in Sessions : session'[t] \in {session[t], Rest}
  BY <1>1, RestIsTyped DEF IInv, Typed
<1>6. QED BY <1>1, <1>2, <1>3, <1>4, <1>5, EditsKeep DEF IInv, Typed

LEMMA CorrectKeeps == ASSUME IInv, NEW i \in Issues, Correct(i) PROVE IInv'
<1> DEFINE shown == {r \in episodes : r.about = i /\ r.status = "published"}
<1>1. /\ content[i] < MaxContent /\ content' = [content EXCEPT ![i] = @ + 1]
      /\ \E f \in Formats : shape' = [shape EXCEPT ![i] = f]
      /\ episodes' = (episodes \ shown) \cup {Hold(r) : r \in shown}
      /\ UNCHANGED <<visible, session>>
  BY DEF Correct
<1>2. content \in [Issues -> 0..MaxContent] /\ shape \in [Issues -> Formats] /\ episodes \subseteq Episode
  BY DEF IInv, Typed
<1>3. shape' \in [Issues -> Formats]
  BY <1>1, <1>2
<1>4. content' \in [Issues -> 0..MaxContent] /\ \A k \in Issues : k # i => content'[k] = content[k]
  <2>1. content[i] + 1 \in 0..MaxContent
    BY <1>1, <1>2, PodcastAssumption
  <2>2. QED BY <1>1, <1>2, <2>1
<1> DEFINE f == [r \in episodes |-> IF r \in shown THEN Hold(r) ELSE r]
<1>5. episodes' = {f[r] : r \in episodes} /\ \A r \in episodes : Edited(r, f[r])
  <2>1. episodes' = {f[r] : r \in episodes}
    BY <1>1
  <2>2. ASSUME NEW r \in episodes PROVE Edited(r, f[r])
    BY <1>2, HeldRow, Unedited DEF Edited
  <2>3. QED BY <2>1, <2>2
<1> HIDE DEF f
<1>6. FeedPassedGate'
  <2> SUFFICES ASSUME NEW r \in episodes'
               PROVE  /\ r.auto => r.gate = "publishable" /\ ~r.held
                      /\ InFeed(r) /\ r.by = "gate" =>
                           r.auto /\ (r.about # Daily => r.seen = content'[r.about])
    BY DEF FeedPassedGate, InFeed
  <2>1. CASE r \in episodes \ shown
    <3>1. r \in Episode
      BY <1>2, <2>1
    <3>2. InFeed(r) /\ r.about # Daily => content'[r.about] = content[r.about]
      BY <1>4, <2>1, <3>1, RowFields DEF InFeed, Subjects
    <3>3. QED BY <2>1, <3>2 DEF IInv, FeedPassedGate
  <2>2. CASE r \in {Hold(q) : q \in shown}
    BY <1>2, <2>2, HeldRow DEF InFeed
  <2>3. QED BY <1>1, <2>1, <2>2
<1>7. QED BY <1>1, <1>3, <1>4, <1>5, <1>6, EditsKeep DEF IInv, Typed

LEMMA OperatorKeeps == ASSUME IInv, Operator PROVE IInv'
<1>1. ASSUME NEW r \in episodes, NEW st \in {"draft", "published", "archived"}, SetStatus(r, st)
      PROVE  IInv'
  <2> DEFINE q == [r EXCEPT !.status = st, !.by = IF st = "published" THEN "operator" ELSE @]
  <2>1. episodes' = (episodes \ {r}) \cup {q} /\ UNCHANGED <<content, shape, visible, session>>
    BY <1>1 DEF SetStatus
  <2>2. r \in Episode /\ episodes \subseteq Episode
    BY DEF IInv, Typed
  <2>3. /\ q \in Episode /\ Same(r, q) /\ Same(q, r)
        /\ q.auto = r.auto /\ q.gate = r.gate /\ q.held = r.held /\ q.status = st
        /\ st = "published" => q.by = "operator"
    BY <2>2, SetRow
  <2> HIDE DEF q
  <2> DEFINE f == [x \in episodes |-> IF x = r THEN q ELSE x]
  <2>4. episodes' = {f[x] : x \in episodes}
    BY <2>1
  <2>5. \A x \in episodes : Edited(x, f[x])
    BY <2>3, Unedited DEF Edited
  <2>6. FeedPassedGate'
    BY <2>1, <2>3 DEF IInv, FeedPassedGate, InFeed
  <2> HIDE DEF f
  <2>7. QED BY <2>1, <2>4, <2>5, <2>6, EditsKeep DEF IInv, Typed
<1>2. ASSUME NEW i \in Issues, Toggle(i) PROVE IInv'
  BY <1>2, UneditedKeep DEF Toggle, IInv, Typed
<1>3. QED BY <1>1, <1>2 DEF Operator
-----------------------------------------------------------------------------
(* The commit of a generation: what it kept stays, what it deleted goes,    *)
(* what it made appears.                                                    *)

Survivors(s) == {r \in episodes : r.id \notin session[s].gone}

(* Row x is stored for a row q that the session made. *)
Appears(q, x) ==
  /\ x \in Episode /\ Same(q, x) /\ AsGated(x)
  /\ x.about # Daily => x.seen = content[x.about]

(* The rows after the commit.                                               *)
Committed(s) ==
  /\ \A x \in episodes' : \/ \E r \in Survivors(s) : Stays(r, x)
                          \/ \E q \in session[s].made : Appears(q, x)
  /\ \A r \in Survivors(s) : \E x \in episodes' : Stays(r, x)
  /\ \A q \in session[s].made : \E x \in episodes' : Appears(q, x)
  /\ Unique'

LEMMA CommitRows == ASSUME IInv, NEW s \in Sessions, Commit(s) PROVE Committed(s)
<1> DEFINE me == session[s]
           now(b) == IF b = Daily THEN 0 ELSE content[b]
<1>1. PICK asked \in Asked(me.job) :
        episodes' = {r \in WrittenBack({c \in me.kept : asked /\ ~c.audio}) : r.id \notin me.gone}
                    \cup {[r EXCEPT !.audio = asked /\ Speech, !.seen = now(r.about)] : r \in me.made}
  BY DEF Commit
<1> DEFINE a == asked /\ Speech
           copies == {c \in me.kept : asked /\ ~c.audio}
           back == WrittenBack(copies)
           g(r) == [r EXCEPT !.audio = a, !.seen = now(r.about)]
<1>2. a \in BOOLEAN
  BY PodcastAssumption DEF Asked
<1>3. me.made \subseteq Episode /\ Good(me) /\ content \in [Issues -> 0..MaxContent]
  BY DEF IInv, Typed, Transaction
<1>4. episodes' = {r \in back : r.id \notin me.gone} \cup {g(r) : r \in me.made}
  BY <1>1
<1>5. PICK f : back = {f[r] : r \in episodes} /\ \A r \in episodes : Stays(r, f[r])
  <2>1. copies \subseteq me.kept
    OBVIOUS
  <2> HIDE DEF copies
  <2>2. QED BY <2>1, OwnCopies, WrittenRows
<1>6. ASSUME NEW q \in me.made PROVE Appears(q, g(q))
  <2>1. q \in Episode /\ AsGated(q)
    BY <1>3 DEF Good, FreshRows
  <2>2. now(q.about) \in 0..MaxContent /\ (q.about # Daily => now(q.about) = content[q.about])
    <3>1. q.about \in Subjects
      BY <2>1, RowFields
    <3>2. QED BY <1>3, <3>1, PodcastAssumption DEF Subjects
  <2> HIDE DEF now, a
  <2>3. /\ g(q) \in Episode /\ g(q).id = q.id /\ g(q).about = q.about
        /\ g(q).variant = q.variant /\ g(q).auto = q.auto /\ g(q).gate = q.gate
        /\ g(q).by = q.by /\ g(q).held = q.held /\ g(q).seen = now(q.about)
    BY <1>2, <2>1, <2>2 DEF Episode
  <2> HIDE DEF g
  <2>4. QED BY <2>1, <2>2, <2>3 DEF Appears, AsGated, Sound, Same, Twin
<1> HIDE DEF g, back
<1>7. ASSUME NEW x \in episodes'
      PROVE  \/ \E r \in Survivors(s) : Stays(r, x)
             \/ \E q \in me.made : Appears(q, x)
  <2>1. CASE x \in back /\ x.id \notin me.gone
    BY <1>5, <2>1 DEF Survivors, Stays, Same
  <2>2. CASE \E r \in me.made : x = g(r)
    BY <1>6, <2>2
  <2>3. QED BY <1>4, <2>1, <2>2
<1>8. ASSUME NEW r \in Survivors(s) PROVE \E x \in episodes' : Stays(r, x)
  <2>1. f[r] \in back /\ Stays(r, f[r])
    BY <1>5 DEF Survivors
  <2>2. f[r].id \notin me.gone
    BY <2>1 DEF Survivors, Stays, Same
  <2>3. QED BY <1>4, <2>1, <2>2
<1>9. \A q \in me.made : \E x \in episodes' : Appears(q, x)
  BY <1>4, <1>6
<1>10. Unique'
  <2> SUFFICES ASSUME NEW x \in episodes', NEW y \in episodes', x.id = y.id PROVE x = y
    BY DEF Unique
  <2>1. ASSUME NEW r \in episodes, NEW q \in episodes, x = f[r], y = f[q] PROVE x = y
    <3>1. r.id = q.id
      BY <1>5, <2>1 DEF Stays, Same
    <3>2. QED BY <2>1, <3>1 DEF IInv, Unique
  <2>2. ASSUME NEW r \in me.made, NEW q \in me.made, x = g(r), y = g(q) PROVE x = y
    <3>1. r.id = q.id
      BY <1>6, <2>2 DEF Appears, Same
    <3>2. QED BY <1>3, <2>2, <3>1 DEF Good, FreshRows
  <2>3. ASSUME NEW r \in episodes, NEW q \in me.made, r.id = q.id PROVE FALSE
    BY <1>3, <2>3 DEF Good, FreshRows, IdsOf
  <2>4. ASSUME NEW r \in episodes, NEW q \in me.made, f[r].id = g(q).id PROVE FALSE
    <3>1. r.id = f[r].id /\ q.id = g(q).id
      BY <1>5, <1>6 DEF Stays, Appears, Same
    <3>2. QED BY <2>3, <2>4, <3>1
  <2>5. \A z \in episodes' : (\E r \in episodes : z = f[r]) \/ (\E q \in me.made : z = g(q))
    BY <1>4, <1>5
  <2>6. QED BY <2>1, <2>2, <2>4, <2>5
<1>11. QED BY <1>7, <1>8, <1>9, <1>10 DEF Committed

LEMMA CommitKeeps == ASSUME IInv, NEW s \in Sessions, Commit(s) PROVE IInv'
<1> DEFINE me == session[s]
           next == IF me.job = "request" THEN Rest ELSE [Rest EXCEPT !.at = "ended", !.job = me.job]
<1>1. Committed(s) /\ Good(me) /\ me \in Transaction
  BY CommitRows DEF IInv, Typed
<1>2. /\ me.at = "choose" /\ session' = [session EXCEPT ![s] = next]
      /\ UNCHANGED <<content, shape, visible>>
  BY DEF Commit
<1>3. /\ next \in Transaction /\ Orderly(next) /\ next.made = {} /\ next.gone = {}
      /\ next.found = {} /\ next.kept = {}
  <2>1. me.job \in Targets \cup {"request"}
    BY <1>1, <1>2 DEF Good, Orderly
  <2>2. CASE me.job = "request"
    BY <2>2, RestIsTyped, RestIsGood DEF Good
  <2>3. CASE me.job # "request"
    BY <2>1, <2>3, RestIsTyped DEF Transaction, Orderly
  <2>4. QED BY <2>2, <2>3
<1> HIDE DEF next
<1>4. /\ session' \in [Sessions -> Transaction] /\ session'[s] = next
      /\ \A t \in Sessions : t # s => session'[t] = session[t]
  BY <1>2, <1>3 DEF IInv, Typed
<1>5. ASSUME NEW x \in episodes'
      PROVE  \/ \E r \in Survivors(s) : Stays(r, x)
             \/ \E q \in me.made : Appears(q, x)
  BY <1>1 DEF Committed
<1>6. episodes' \subseteq Episode
  BY <1>5 DEF Stays, Appears
<1>7. Unique'
  BY <1>1 DEF Committed
<1>8. FeedPassedGate'
  <2> SUFFICES ASSUME NEW x \in episodes'
               PROVE  /\ x.auto => x.gate = "publishable" /\ ~x.held
                      /\ InFeed(x) /\ x.by = "gate" =>
                           x.auto /\ (x.about # Daily => x.seen = content[x.about])
    BY <1>2 DEF FeedPassedGate, InFeed
  <2>1. ASSUME NEW r \in Survivors(s), Stays(r, x)
        PROVE  /\ x.auto => x.gate = "publishable" /\ ~x.held
               /\ InFeed(x) /\ x.by = "gate" =>
                    x.auto /\ (x.about # Daily => x.seen = content[x.about])
    BY <2>1 DEF Survivors, Stays, Sound, Same, Twin, InFeed, IInv, FeedPassedGate
  <2>2. ASSUME NEW q \in me.made, Appears(q, x)
        PROVE  /\ x.auto => x.gate = "publishable" /\ ~x.held
               /\ InFeed(x) /\ x.by = "gate" =>
                    x.auto /\ (x.about # Daily => x.seen = content[x.about])
    BY <2>2 DEF Appears, AsGated, Sound
  <2>3. QED BY <1>5, <2>1, <2>2
<1>9. ASSUME NEW t \in Sessions PROVE Good(session[t])'
  <2>1. CASE t = s
    BY <1>3, <1>4, <2>1 DEF Good, FreshRows, Replaced, Copies, Copied
  <2>2. CASE t # s
    <3> DEFINE u == session'[t]
    <3>1. /\ u = session[t] /\ Good(u) /\ u.gone \cap me.gone = {}
          /\ \A q \in u.made, p \in me.made : q.id # p.id
          /\ \A p \in me.made, c \in Copied(u) : p.id # c.id
      BY <1>4, <2>2 DEF IInv, Apart, Distinct, Clear
    <3>2. ASSUME NEW q \in u.made, NEW x \in episodes', x.id = q.id PROVE FALSE
      <4>1. \A r \in Survivors(s) : r.id # q.id
        BY <3>1, <3>2 DEF Good, FreshRows, IdsOf, Survivors
      <4>2. QED BY <1>5, <3>1, <3>2, <4>1 DEF Stays, Appears, Same
    <3>3. u.gone \subseteq IdsOf(episodes')
      <4> SUFFICES ASSUME NEW id \in u.gone PROVE \E x \in episodes' : x.id = id
        BY DEF IdsOf
      <4>1. PICK r \in episodes : r.id = id
        BY <3>1 DEF Good, IdsOf
      <4>2. r \in Survivors(s)
        BY <3>1, <4>1 DEF Survivors
      <4>3. QED BY <1>1, <4>1, <4>2 DEF Committed, Stays, Same
    <3>4. ASSUME NEW x \in episodes', x.id \in u.gone
          PROVE  \/ \E q \in u.made : Twin(x, q)
                 \/ u.at = "build" /\ u.cur = x.about /\ u.variant = x.variant
      <4>1. ~\E q \in me.made : Appears(q, x)
        BY <1>1, <3>1, <3>4 DEF Good, FreshRows, Appears, Same
      <4>2. PICK r \in Survivors(s) : Stays(r, x)
        BY <1>5, <4>1
      <4>3. r \in episodes /\ r.id \in u.gone /\ Same(r, x)
        BY <3>4, <4>2 DEF Survivors, Stays, Same
      <4>4. QED BY <3>1, <4>3 DEF Good, Replaced, Same, Twin
    <3>5. ASSUME NEW c \in Copied(u), NEW x \in episodes', x.id = c.id PROVE Read(c, x)
      <4>1. ~\E q \in me.made : Appears(q, x)
        BY <3>1, <3>5 DEF Appears, Same
      <4>2. PICK r \in Survivors(s) : Stays(r, x)
        BY <1>5, <4>1
      <4>3. Read(c, r)
        BY <3>1, <3>5, <4>2 DEF Good, Copies, Survivors, Stays, Same
      <4>4. QED BY <4>2, <4>3 DEF Read, Stays, Same, Twin
    <3>6. \A c \in Copied(u) : Sound(c)
      BY <3>1 DEF Good, Copies
    <3>7. QED BY <3>1, <3>2, <3>3, <3>4, <3>5, <3>6
              DEF Good, Orderly, FreshRows, Replaced, Copies, IdsOf
  <2>3. QED BY <2>1, <2>2
<1>10. Apart'
  <2> SUFFICES ASSUME NEW t \in Sessions, NEW u \in Sessions
               PROVE  /\ t # u => Distinct(session'[t], session'[u])
                      /\ Clear(session'[t], session'[u])
    BY DEF Apart
  <2>1. CASE t # s /\ u # s
    BY <1>4, <2>1 DEF IInv, Apart
  <2>2. CASE t = s \/ u = s
    BY <1>3, <1>4, <2>2 DEF Distinct, Clear, Copied
  <2>3. QED BY <2>1, <2>2
<1>11. QED BY <1>2, <1>4, <1>6, <1>7, <1>8, <1>9, <1>10 DEF IInv, Typed
-----------------------------------------------------------------------------
LEMMA PodcastInit == Init => IInv
<1> SUFFICES ASSUME Init PROVE IInv
  OBVIOUS
<1>1. Typed
  BY RestIsTyped, PodcastAssumption DEF Init, Typed
<1>2. (\A s \in Sessions : Good(session[s])) /\ Apart
  BY RestIsTyped, RestIsGood DEF Init, Apart, Distinct, Clear
<1>3. Unique /\ FeedPassedGate
  BY DEF Init, Unique, FeedPassedGate
<1>4. QED BY <1>1, <1>2, <1>3 DEF IInv

LEMMA PodcastNext == IInv /\ [Next]_vars => IInv'
<1> SUFFICES ASSUME IInv, [Next]_vars PROVE IInv'
  OBVIOUS
<1>1. ASSUME UNCHANGED <<content, shape, visible, episodes, session>> PROVE IInv'
  BY <1>1, UneditedKeep DEF IInv, Typed
<1>2. CASE UNCHANGED vars
  BY <1>1, <1>2 DEF vars
<1>3. ASSUME NEW t \in {"auto", "daily"}, Tick(t) PROVE IInv'
  BY <1>1, <1>3 DEF Tick
<1>4. ASSUME NEW s \in Workers, NEW t \in Targets, Begin(s, t) PROVE IInv'
  BY <1>4, BeginKeeps DEF Sessions
<1>5. ASSUME NEW s \in Requesters, Request(s) \/ StartRender(s) PROVE IInv'
  BY <1>5, RequestKeeps, StartRenderKeeps DEF Sessions
<1>6. ASSUME NEW s \in Sessions, Generation(s) \/ Fault(s) \/ EndRender(s) PROVE IInv'
  BY <1>6, KeepKeeps, LookKeeps, StartBuildKeeps, WriteKeeps, InsertKeeps, CommitKeeps,
     EndJobKeeps, RollBackKeeps, EndRenderKeeps DEF Generation, Fault, Refused
<1>7. ASSUME NEW i \in Issues, Correct(i) PROVE IInv'
  BY <1>7, CorrectKeeps
<1>8. CASE Operator
  BY <1>8, OperatorKeeps
<1>9. QED BY <1>2, <1>3, <1>4, <1>5, <1>6, <1>7, <1>8 DEF Next

(* corrections.py, tts.py and the quality gate: what is in the feed without  *)
(* an operator's word passed the gate, is not held, and met no correction   *)
(* since it was committed; whatever a renderer or a batch writes back of    *)
(* what it read before the correction, it does not put the episode back.    *)
THEOREM FeedIsGated == Spec => []FeedPassedGate
<1>1. IInv => FeedPassedGate
  BY DEF IInv
<1>2. QED BY <1>1, PodcastInit, PodcastNext, PTL DEF Spec
-----------------------------------------------------------------------------
(* No step takes the only episode. *)

NotLost == \A r \in episodes : \E q \in episodes' : q.about = r.about /\ q.variant = r.variant

LEMMA CommitLosesNothing == ASSUME IInv, NEW s \in Sessions, Commit(s) PROVE NotLost
<1>1. Committed(s) /\ Good(session[s]) /\ session[s].at = "choose"
  BY CommitRows DEF IInv, Commit
<1>2. SUFFICES ASSUME NEW r \in episodes
               PROVE  \E q \in episodes' : q.about = r.about /\ q.variant = r.variant
  BY DEF NotLost
<1>3. CASE r \in Survivors(s)
  BY <1>1, <1>3 DEF Committed, Stays, Same, Twin
<1>4. CASE r \notin Survivors(s)
  <2>1. PICK q \in session[s].made : Twin(r, q)
    BY <1>1, <1>4 DEF Survivors, Good, Replaced
  <2>2. PICK x \in episodes' : Appears(q, x)
    BY <1>1 DEF Committed
  <2>3. QED BY <2>1, <2>2 DEF Appears, Same, Twin
<1>5. QED BY <1>3, <1>4

LEMMA NextLosesNothing == IInv /\ [Next]_vars => NotLost
<1> SUFFICES ASSUME IInv, [Next]_vars PROVE NotLost
  OBVIOUS
<1>1. ASSUME UNCHANGED episodes PROVE NotLost
  BY <1>1 DEF NotLost
<1>2. episodes \subseteq Episode
  BY DEF IInv, Typed
<1>3. CASE UNCHANGED vars
  BY <1>1, <1>3 DEF vars
<1>4. ASSUME NEW s \in Sessions, Generation(s) \/ Fault(s) \/ EndRender(s) PROVE NotLost
  <2>1. CASE Commit(s)
    BY <2>1, CommitLosesNothing
  <2>2. CASE EndRender(s)
    BY <2>2, EndRenderRows DEF NotLost, Stays, Same, Twin
  <2>3. CASE \/ Keep(s) \/ Look(s) \/ StartBuild(s) \/ Write(s) \/ Insert(s)
             \/ EndJob(s) \/ RollBack(s)
    BY <1>1, <2>3 DEF Keep, Look, StartBuild, Write, Insert, EndJob, RollBack
  <2>4. QED BY <1>4, <2>1, <2>2, <2>3 DEF Generation, Fault, Refused
<1>5. ASSUME NEW i \in Issues, Correct(i) PROVE NotLost
  <2> DEFINE shown == {r \in episodes : r.about = i /\ r.status = "published"}
  <2>1. episodes' = (episodes \ shown) \cup {Hold(r) : r \in shown}
    BY <1>5 DEF Correct
  <2>2. \A r \in shown : Same(r, Hold(r))
    BY <1>2, HeldRow
  <2>3. QED BY <2>1, <2>2 DEF NotLost, Same, Twin
<1>6. CASE Operator
  <2>1. ASSUME NEW r \in episodes, NEW st \in {"draft", "published", "archived"}, SetStatus(r, st)
        PROVE  NotLost
    <3> DEFINE q == [r EXCEPT !.status = st, !.by = IF st = "published" THEN "operator" ELSE @]
    <3>1. episodes' = (episodes \ {r}) \cup {q}
      BY <2>1 DEF SetStatus
    <3>2. Same(r, q)
      BY <1>2, SetRow
    <3> HIDE DEF q
    <3>3. QED BY <3>1, <3>2 DEF NotLost, Same, Twin
  <2>2. ASSUME NEW i \in Issues, Toggle(i) PROVE NotLost
    BY <1>1, <2>2 DEF Toggle
  <2>3. QED BY <1>6, <2>1, <2>2 DEF Operator
<1>7. ASSUME NEW t \in {"auto", "daily"}, Tick(t) PROVE NotLost
  BY <1>1, <1>7 DEF Tick
<1>8. ASSUME NEW s \in Workers, NEW t \in Targets, Begin(s, t) PROVE NotLost
  BY <1>1, <1>8 DEF Begin
<1>9. ASSUME NEW s \in Requesters, Request(s) \/ StartRender(s) PROVE NotLost
  BY <1>1, <1>9 DEF Request, StartRender
<1>10. QED BY <1>3, <1>4, <1>5, <1>6, <1>7, <1>8, <1>9 DEF Next

(* A forced generation deletes the episode it replaces in the transaction   *)
(* that adds the new one (generator.py): no step, commit or fault, leaves a *)
(* subject that had an episode of a variant without one.                    *)
THEOREM RebuildLosesNoEpisode == Spec => RebuiltNotLost
<1>1. IInv /\ [Next]_vars =>
        [\A r \in episodes : \E q \in episodes' : q.about = r.about /\ q.variant = r.variant]_vars
  BY NextLosesNothing DEF NotLost
<1>2. QED BY <1>1, PodcastInit, PodcastNext, PTL DEF Spec, RebuiltNotLost
-----------------------------------------------------------------------------
(* The queue: a running row for every session that executes a job.          *)

JobCount == [queued : Nat, running : Nat, failed : Nat]
On(v, t) == v.at \in {"choose", "found", "build", "ended"} /\ v.job = t
Busy(t) == {s \in Sessions : On(session[s], t)}

Queue ==
  /\ jobs \in [Targets -> JobCount]
  /\ \A t \in Targets : jobs[t].running = Cardinality(Busy(t))
  /\ requests \in 0..MaxRequests /\ faults \in 0..MaxFaults

LEMMA BusyFinite == \A t : IsFiniteSet(Busy(t)) /\ Cardinality(Busy(t)) \in Nat
<1> SUFFICES ASSUME NEW t PROVE IsFiniteSet(Busy(t)) /\ Cardinality(Busy(t)) \in Nat
  OBVIOUS
<1>1. IsFiniteSet(Sessions)
  BY FS_Union, PodcastAssumption DEF Sessions
<1>2. Busy(t) \subseteq Sessions
  BY DEF Busy
<1>3. QED BY <1>1, <1>2, FS_Subset, FS_CardinalityType

(* Nobody begins or leaves a job; rows may be queued. *)
LEMMA QueueStep ==
  ASSUME Queue, jobs' \in [Targets -> JobCount],
         \A t \in Targets : jobs'[t].running = jobs[t].running,
         \A t \in Targets, s \in Sessions : On(session'[s], t) <=> On(session[s], t),
         requests' \in 0..MaxRequests, faults' \in 0..MaxFaults
  PROVE  Queue'
<1>1. \A t \in Targets : Busy(t)' = Busy(t)
  BY DEF Busy, On
<1>2. QED BY <1>1 DEF Queue

(* Session s does, with a job that it keeps or without one. *)
LEMMA SameJob ==
  ASSUME Queue, Typed, NEW s \in Sessions, NEW n, session' = [session EXCEPT ![s] = n],
         \A t \in Targets : On(n, t) <=> On(session[s], t),
         UNCHANGED jobs, requests' \in 0..MaxRequests, faults' \in 0..MaxFaults
  PROVE  Queue'
<1>1. \A t \in Targets, u \in Sessions : On(session'[u], t) <=> On(session[u], t)
  BY DEF Typed
<1>2. QED BY <1>1, QueueStep DEF Queue

LEMMA JoinJob ==
  ASSUME Queue, Typed, NEW s \in Sessions, NEW k \in Targets, NEW n, NEW row \in JobCount,
         session' = [session EXCEPT ![s] = n], jobs' = [jobs EXCEPT ![k] = row],
         row.running = jobs[k].running + 1, On(n, k), session[s].at = "idle",
         UNCHANGED <<requests, faults>>
  PROVE  Queue'
<1>1. ASSUME NEW t \in Targets PROVE jobs'[t].running = Cardinality(Busy(t)')
  <2>1. s \notin Busy(t) /\ IsFiniteSet(Busy(t)) /\ jobs[t].running = Cardinality(Busy(t))
    BY BusyFinite DEF Queue, Busy, On
  <2>2. CASE t = k
    <3>1. Busy(t)' = Busy(t) \cup {s}
      BY <2>2 DEF Busy, Typed
    <3>2. Cardinality(Busy(t) \cup {s}) = Cardinality(Busy(t)) + 1
      BY <2>1, FS_AddElement
    <3>3. QED BY <2>1, <2>2, <3>1, <3>2 DEF Queue
  <2>3. CASE t # k
    <3>1. Busy(t)' = Busy(t)
      BY <2>1, <2>3 DEF Busy, On, Typed
    <3>2. QED BY <2>1, <2>3, <3>1 DEF Queue
  <2>4. QED BY <2>2, <2>3
<1>2. QED BY <1>1 DEF Queue

LEMMA BusyRuns ==
  ASSUME Queue, NEW s \in Sessions, NEW k \in Targets, On(session[s], k)
  PROVE  jobs[k].running > 0
<1>1. s \in Busy(k) /\ IsFiniteSet(Busy(k)) /\ jobs[k].running = Cardinality(Busy(k))
  BY BusyFinite DEF Queue, Busy
<1>2. Cardinality(Busy(k)) # 0 /\ Cardinality(Busy(k)) \in Nat
  BY <1>1, FS_EmptySet, FS_CardinalityType
<1>3. QED BY <1>1, <1>2

(* A row with one executor less, and one failure more or not. *)
LEMMA LeftRow ==
  ASSUME NEW c \in JobCount, c.running > 0
  PROVE  /\ [c EXCEPT !.running = @ - 1] \in JobCount
         /\ [c EXCEPT !.running = @ - 1].running = c.running - 1
         /\ [c EXCEPT !.running = @ - 1, !.failed = @ + 1] \in JobCount
         /\ [c EXCEPT !.running = @ - 1, !.failed = @ + 1].running = c.running - 1
<1>1. c.running - 1 \in Nat /\ c.failed + 1 \in Nat
  BY DEF JobCount
<1>2. QED BY <1>1 DEF JobCount

LEMMA LeaveJob ==
  ASSUME Queue, Typed, NEW s \in Sessions, NEW k \in Targets, NEW row \in JobCount,
         session' = [session EXCEPT ![s] = Rest], jobs' = [jobs EXCEPT ![k] = row],
         row.running = jobs[k].running - 1,
         On(session[s], k), requests' \in 0..MaxRequests, faults' \in 0..MaxFaults
  PROVE  Queue'
<1>1. s \in Busy(k) /\ IsFiniteSet(Busy(k)) /\ jobs[k].running = Cardinality(Busy(k))
  BY BusyFinite DEF Queue, Busy
<1>2. Busy(k)' = Busy(k) \ {s}
  BY RestIsTyped DEF Busy, On, Typed
<1>3. Cardinality(Busy(k) \ {s}) = Cardinality(Busy(k)) - 1
  BY <1>1, FS_RemoveElement
<1>4. row.running = Cardinality(Busy(k)')
  BY <1>1, <1>2, <1>3
<1>5. \A t \in Targets : t # k => Busy(t)' = Busy(t)
  BY RestIsTyped DEF Busy, On, Typed
<1>6. QED BY <1>4, <1>5 DEF Queue

LEMMA EnqueueQueue ==
  ASSUME Queue, NEW t \in Targets, Enqueue(t), UNCHANGED <<session, requests, faults>>
  PROVE  Queue'
<1> DEFINE row == [jobs[t] EXCEPT !.queued = @ + 1]
<1>1. row \in JobCount /\ row.running = jobs[t].running
  BY DEF Queue, JobCount
<1>2. jobs' = [jobs EXCEPT ![t] = row]
  BY DEF Enqueue
<1> HIDE DEF row
<1>3. /\ jobs' \in [Targets -> JobCount]
      /\ \A u \in Targets : jobs'[u].running = jobs[u].running
  BY <1>1, <1>2 DEF Queue
<1>4. QED BY <1>3, QueueStep DEF Queue, On

LEMMA BeginQueue ==
  ASSUME Queue, IInv, NEW s \in Sessions, NEW t \in Targets, Begin(s, t) PROVE Queue'
<1>1. PICK from \in {"queued", "failed"} :
        /\ jobs[t][from] > 0
        /\ jobs' = [jobs EXCEPT ![t][from] = @ - 1, ![t].running = @ + 1]
  BY DEF Begin
<1> DEFINE force == t \in Issues
           todo == Wanted(t)
           n == [Rest EXCEPT !.at = "choose", !.job = t, !.force = force, !.todo = todo]
<1>2. session' = [session EXCEPT ![s] = n] /\ session[s].at = "idle" /\ UNCHANGED <<requests, faults>>
  BY DEF Begin
<1> HIDE DEF force, todo
<1>3. On(n, t)
  BY DEF On, Rest
<1> HIDE DEF n
<1>4. jobs \in [Targets -> JobCount] /\ jobs[t] \in JobCount
  BY DEF Queue
<1>5. PICK row \in JobCount : row.running = jobs[t].running + 1 /\ jobs' = [jobs EXCEPT ![t] = row]
  <2>1. CASE from = "queued"
    <3> DEFINE row == [jobs[t] EXCEPT !.queued = @ - 1, !.running = @ + 1]
    <3>1. jobs[t].queued - 1 \in Nat /\ jobs[t].running + 1 \in Nat
      BY <1>1, <1>4, <2>1 DEF JobCount
    <3>2. row \in JobCount /\ row.running = jobs[t].running + 1
      BY <1>4, <3>1 DEF JobCount
    <3>3. jobs' = [jobs EXCEPT ![t] = row]
      BY <1>1, <1>4, <2>1
    <3> HIDE DEF row
    <3>4. QED BY <3>2, <3>3
  <2>2. CASE from = "failed"
    <3> DEFINE row == [jobs[t] EXCEPT !.failed = @ - 1, !.running = @ + 1]
    <3>1. jobs[t].failed - 1 \in Nat /\ jobs[t].running + 1 \in Nat
      BY <1>1, <1>4, <2>2 DEF JobCount
    <3>2. row \in JobCount /\ row.running = jobs[t].running + 1
      BY <1>4, <3>1 DEF JobCount
    <3>3. jobs' = [jobs EXCEPT ![t] = row]
      BY <1>1, <1>4, <2>2
    <3> HIDE DEF row
    <3>4. QED BY <3>2, <3>3
  <2>3. QED BY <2>1, <2>2
<1>6. QED BY <1>2, <1>3, <1>5, JoinJob DEF IInv

LEMMA RollBackQueue ==
  ASSUME Queue, IInv, NEW s \in Sessions, RollBack(s),
         session[s].at \in {"choose", "found", "build", "ended"}, faults' \in 0..MaxFaults
  PROVE  Queue'
<1> DEFINE t == session[s].job
<1>1. session' = [session EXCEPT ![s] = Rest] /\ UNCHANGED requests /\ Typed
  BY DEF RollBack, IInv
<1>2. CASE t \in Targets
  <2>1. jobs[t] \in JobCount
    BY <1>2 DEF Queue
  <2> DEFINE row == [jobs[t] EXCEPT !.running = @ - 1, !.failed = @ + 1]
  <2>2. jobs' = [jobs EXCEPT ![t] = row]
    BY <1>2 DEF RollBack
  <2>3. On(session[s], t)
    BY DEF On
  <2>4. row \in JobCount /\ row.running = jobs[t].running - 1
    BY <1>2, <2>1, <2>3, BusyRuns, LeftRow
  <2> HIDE DEF t, row
  <2>5. requests' \in 0..MaxRequests
    BY <1>1 DEF Queue
  <2>6. QED BY <1>1, <1>2, <2>2, <2>3, <2>4, <2>5, LeaveJob
<1>3. CASE t \notin Targets
  <2>1. \A k \in Targets : On(Rest, k) <=> On(session[s], k)
    BY <1>3, RestIsTyped DEF On
  <2>2. UNCHANGED jobs
    BY <1>3 DEF RollBack
  <2>3. requests' \in 0..MaxRequests
    BY <1>1 DEF Queue
  <2>4. QED BY <1>1, <2>1, <2>2, <2>3, SameJob
<1>4. QED BY <1>2, <1>3

(* How a generation that looks, deletes or updates goes on. *)
LEMMA LookShape ==
  ASSUME Typed, NEW s \in Sessions, Look(s)
  PROVE  \E n : /\ session' = [session EXCEPT ![s] = n] /\ n.job = session[s].job
                /\ session[s].at = "choose" /\ n.at = "found"
<1> DEFINE v == session[s]
<1>1. PICK b, found : session' = [session EXCEPT ![s].at = "found", ![s].cur = b,
                        ![s].format = FormatFor(b, v.variant), ![s].found = found]
  BY DEF Look
<1> DEFINE format == FormatFor(b, v.variant)
           n == [v EXCEPT !.at = "found", !.cur = b, !.format = format, !.found = found]
<1>2. session' = [session EXCEPT ![s] = n]
  BY <1>1, ZenonT(30)
<1> HIDE DEF format
<1>3. n.job = v.job /\ n.at = "found"
  BY DEF Typed, Transaction
<1> HIDE DEF n
<1>4. QED BY <1>2, <1>3 DEF Look

LEMMA StartBuildShape ==
  ASSUME Typed, NEW s \in Sessions, StartBuild(s)
  PROVE  \E n : /\ session' = [session EXCEPT ![s] = n] /\ n.job = session[s].job
                /\ session[s].at = "found" /\ n.at = "build"
<1> DEFINE v == session[s]
           built == IF v.cur = Daily THEN 0 ELSE content[v.cur]
           dropped == IdsOf(v.found) \cap IdsOf(episodes)
           n == [v EXCEPT !.at = "build", !.found = {}, !.built = built, !.gone = @ \cup dropped]
<1>1. session' = [session EXCEPT ![s] = n]
  BY ZenonT(30) DEF StartBuild
<1> HIDE DEF built, dropped
<1>2. n.job = v.job /\ n.at = "build"
  BY DEF Typed, Transaction
<1> HIDE DEF n
<1>3. QED BY <1>1, <1>2 DEF StartBuild

LEMMA WriteShape ==
  ASSUME Typed, NEW s \in Sessions, Write(s)
  PROVE  \E n : /\ session' = [session EXCEPT ![s] = n] /\ n.job = session[s].job
                /\ session[s].at \in {"choose", "build"} /\ n.at = session[s].at
<1> DEFINE v == session[s]
<1>1. PICK id \in Unwritten(s) : session' = [session EXCEPT ![s].wrote = @ \cup {id}]
  BY DEF Write
<1> DEFINE n == [v EXCEPT !.wrote = @ \cup {id}]
<1>2. session' = [session EXCEPT ![s] = n]
  BY <1>1
<1>3. n.job = v.job /\ n.at = v.at
  BY DEF Typed, Transaction
<1> HIDE DEF n
<1>4. v.at \in {"choose", "build"}
  BY <1>1 DEF Unwritten
<1>5. QED BY <1>2, <1>3, <1>4

LEMMA GenerationQueue ==
  ASSUME Queue, IInv, NEW s \in Sessions, Generation(s) \/ Fault(s) \/ EndRender(s) PROVE Queue'
<1> DEFINE v == session[s]
<1>1. Typed /\ v \in Transaction /\ Good(v) /\ requests \in 0..MaxRequests /\ faults \in 0..MaxFaults
  BY DEF IInv, Typed, Queue
<1>2. CASE Keep(s)
  <2>1. PICK b, id : session' = [session EXCEPT ![s].todo = @ \ {b}, ![s].kept = @ \cup {id}]
    BY <1>2 DEF Keep
  <2> DEFINE n == [v EXCEPT !.todo = @ \ {b}, !.kept = @ \cup {id}]
  <2>2. session' = [session EXCEPT ![s] = n] /\ n.at = v.at /\ n.job = v.job
    BY <1>1, <2>1 DEF Transaction
  <2> HIDE DEF n
  <2>3. \A t \in Targets : On(n, t) <=> On(v, t)
    BY <2>2 DEF On
  <2>4. QED BY <1>1, <1>2, <2>2, <2>3, SameJob DEF Keep
<1>3. CASE Look(s) \/ StartBuild(s) \/ Write(s)
  <2>1. PICK n : /\ session' = [session EXCEPT ![s] = n] /\ n.job = v.job
                 /\ v.at \in {"choose", "found", "build"} /\ n.at \in {"choose", "found", "build"}
    BY <1>1, <1>3, LookShape, StartBuildShape, WriteShape
  <2>2. \A t \in Targets : On(n, t) <=> On(v, t)
    BY <2>1 DEF On
  <2>3. UNCHANGED <<jobs, requests, faults>>
    BY <1>3 DEF Look, StartBuild, Write
  <2>4. QED BY <1>1, <2>1, <2>2, <2>3, SameJob
<1>4. CASE Insert(s)
  <2>1. PICK row : session' = [session EXCEPT ![s].at = "choose", ![s].cur = None, ![s].format = "solo",
                 ![s].built = 0, ![s].todo = @ \ {v.cur}, ![s].made = @ \cup {row}]
    BY <1>4 DEF Insert
  <2> DEFINE n == [v EXCEPT !.at = "choose", !.cur = None, !.format = "solo",
                            !.built = 0, !.todo = @ \ {v.cur}, !.made = @ \cup {row}]
  <2>2. session' = [session EXCEPT ![s] = n] /\ n.at = "choose" /\ n.job = v.job
    BY <1>1, <2>1 DEF Transaction
  <2> HIDE DEF n
  <2>3. \A t \in Targets : On(n, t) <=> On(v, t)
    BY <1>4, <2>2 DEF On, Insert
  <2>4. QED BY <1>1, <1>4, <2>2, <2>3, SameJob DEF Insert
<1>5. CASE Commit(s)
  <2> DEFINE n == IF v.job = "request" THEN Rest ELSE [Rest EXCEPT !.at = "ended", !.job = v.job]
  <2>1. session' = [session EXCEPT ![s] = n] /\ v.at = "choose"
    BY <1>5 DEF Commit
  <2>2. "request" \notin Targets
    BY PodcastAssumption DEF Targets, Subjects
  <2>3. \A t \in Targets : On(n, t) <=> On(v, t)
    <3>1. CASE v.job = "request"
      BY <2>2, <3>1, RestIsTyped DEF On
    <3>2. CASE v.job # "request"
      BY <2>1, <3>2, RestIsTyped DEF On, Transaction
    <3>3. QED BY <3>1, <3>2
  <2> HIDE DEF n
  <2>4. QED BY <1>1, <1>5, <2>1, <2>3, SameJob DEF Commit
<1>6. CASE EndJob(s)
  <2> DEFINE t == v.job
  <2>1. /\ v.at = "ended" /\ session' = [session EXCEPT ![s] = Rest]
        /\ jobs' = [jobs EXCEPT ![t].running = @ - 1] /\ UNCHANGED <<requests, faults>>
    BY <1>6 DEF EndJob
  <2>2. t \in Targets /\ On(v, t)
    BY <1>1, <2>1 DEF Good, Orderly, On
  <2> HIDE DEF t
  <2>3. jobs[t] \in JobCount
    BY <2>2 DEF Queue
  <2> DEFINE row == [jobs[t] EXCEPT !.running = @ - 1]
  <2>4. jobs' = [jobs EXCEPT ![t] = row]
    BY <2>1
  <2>5. row \in JobCount /\ row.running = jobs[t].running - 1
    BY <2>2, <2>3, BusyRuns, LeftRow
  <2> HIDE DEF row
  <2>6. QED BY <1>1, <2>1, <2>2, <2>4, <2>5, LeaveJob
<1>7. CASE Refused(s)
  <2>1. v.at \in {"choose", "found", "build", "ended"}
    BY <1>7 DEF Refused, Waiting, Unwritten
  <2>2. QED BY <1>1, <1>7, <2>1, RollBackQueue DEF Refused
<1>8. CASE Fault(s)
  <2>1. faults' \in 0..MaxFaults
    BY <1>1, <1>8, PodcastAssumption DEF Fault
  <2>2. QED BY <1>8, <2>1, RollBackQueue DEF Fault
<1>9. CASE EndRender(s)
  <2>1. \A t \in Targets : On(Rest, t) <=> On(v, t)
    BY <1>9, RestIsTyped DEF On, EndRender
  <2>2. QED BY <1>1, <1>9, <2>1, SameJob DEF EndRender
<1>10. QED BY <1>2, <1>3, <1>4, <1>5, <1>6, <1>7, <1>8, <1>9 DEF Generation

LEMMA AsksQueue == ASSUME Queue, Asks PROVE requests' \in 0..MaxRequests
BY PodcastAssumption DEF Queue, Asks

LEMMA RequesterQueue ==
  ASSUME Queue, IInv, NEW s \in Sessions, Request(s) \/ StartRender(s) PROVE Queue'
<1>1. session[s].at = "idle" /\ requests' \in 0..MaxRequests /\ UNCHANGED <<jobs, faults>>
  BY AsksQueue DEF Request, StartRender
<1>2. "request" \notin Targets /\ None \notin Targets
  BY PodcastAssumption DEF Targets, Subjects, None
<1>3. PICK n : session' = [session EXCEPT ![s] = n] /\ n.job \in {"request", None}
  <2>1. CASE Request(s)
    <3>1. PICK i, va, force : session' = [session EXCEPT ![s] = [Rest EXCEPT
            !.at = "choose", !.job = "request", !.force = force, !.todo = {i}, !.variant = va]]
      BY <2>1 DEF Request
    <3>2. [Rest EXCEPT !.at = "choose", !.job = "request", !.force = force, !.todo = {i},
                       !.variant = va].job = "request"
      BY DEF Rest
    <3>3. QED BY <3>1, <3>2
  <2>2. CASE StartRender(s)
    <3>1. PICK k : session' = [session EXCEPT ![s] = [Rest EXCEPT !.at = "audio", !.kept = {k}]]
      BY <2>2 DEF StartRender
    <3>2. [Rest EXCEPT !.at = "audio", !.kept = {k}].job = None
      BY DEF Rest
    <3>3. QED BY <3>1, <3>2
  <2>3. QED BY <2>1, <2>2
<1>4. \A t \in Targets : On(n, t) <=> On(session[s], t)
  BY <1>1, <1>2, <1>3 DEF On
<1>5. QED BY <1>1, <1>3, <1>4, SameJob DEF IInv, Queue

LEMMA QueueInit == Init => Queue
<1> SUFFICES ASSUME Init PROVE Queue
  OBVIOUS
<1>1. \A t \in Targets : Busy(t) = {}
  BY RestIsTyped DEF Init, Busy, On
<1>2. QED BY <1>1, FS_EmptySet, PodcastAssumption DEF Init, Queue, JobCount

LEMMA QueueNext == IInv /\ Queue /\ [Next]_vars => Queue'
<1> SUFFICES ASSUME IInv, Queue, [Next]_vars PROVE Queue'
  OBVIOUS
<1>1. ASSUME UNCHANGED <<jobs, session, faults>>, requests' \in 0..MaxRequests PROVE Queue'
  BY <1>1, QueueStep DEF Queue, On
<1>2. CASE UNCHANGED vars
  BY <1>1, <1>2 DEF vars, Queue
<1>3. ASSUME NEW t \in {"auto", "daily"}, Tick(t) PROVE Queue'
  BY <1>3, EnqueueQueue DEF Tick, Targets
<1>4. ASSUME NEW s \in Workers, NEW t \in Targets, Begin(s, t) PROVE Queue'
  BY <1>4, BeginQueue DEF Sessions
<1>5. ASSUME NEW s \in Requesters, Request(s) \/ StartRender(s) PROVE Queue'
  BY <1>5, RequesterQueue DEF Sessions
<1>6. ASSUME NEW s \in Sessions, Generation(s) \/ Fault(s) \/ EndRender(s) PROVE Queue'
  BY <1>6, GenerationQueue
<1>7. ASSUME NEW i \in Issues, Correct(i) PROVE Queue'
  <2>1. i \in Targets
    BY DEF Targets
  <2>2. CASE Enqueue(i)
    BY <1>7, <2>1, <2>2, EnqueueQueue DEF Correct
  <2>3. CASE UNCHANGED jobs
    BY <1>1, <1>7, <2>3 DEF Correct, Queue
  <2>4. QED BY <1>7, <2>2, <2>3 DEF Correct
<1>8. CASE Operator
  BY <1>1, <1>8, AsksQueue DEF Operator, SetStatus, Toggle
<1>9. QED BY <1>2, <1>3, <1>4, <1>5, <1>6, <1>7, <1>8 DEF Next

(* The variables have their types: a running row for every session that     *)
(* executes a job, whatever fails, so that no count drops below zero, and   *)
(* every id that is given to a row is free.                                 *)
THEOREM PodcastTypeCorrect == Spec => []TypeOK
<1>1. IInv /\ Queue => TypeOK
  BY DEF IInv, Typed, Queue, JobCount, TypeOK
<1>2. QED BY <1>1, PodcastInit, PodcastNext, QueueInit, QueueNext, PTL DEF Spec
=============================================================================
