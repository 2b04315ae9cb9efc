------------------------------ MODULE Podcast ------------------------------
(***************************************************************************)
(* Podcast episodes from the job that writes them to the feed that shows   *)
(* them: generate_podcast_episodes (app/services/podcasts/generator.py),   *)
(* the audio (tts.py), the hold after a correction (corrections.py), the   *)
(* scheduler's jobs (app/services/jobs.py) and the operator's requests     *)
(* (app/api/routes/podcasts.py, admin.py).                                 *)
(*                                                                         *)
(* A generation is one transaction that reads the issues, calls OpenAI for *)
(* script and speech, and commits at the end.  What it deleted (gone) and  *)
(* what it updated (wrote) is locked, what it inserted holds its key in    *)
(* the unique index (made): a session that needs either waits.  Statements *)
(* read committed rows, but a session keeps the copy of a row it has read  *)
(* (found, kept) and never reads it again.                                 *)
(*                                                                         *)
(* The content of an issue is the number of corrections it has had.  An    *)
(* episode's title, script and ranking are left out; what the gate looks   *)
(* at is a record of Evidence.  Job limits are not below the number of     *)
(* issues.  Jobs fail less often than max_attempts, or for ever.  A        *)
(* correction looks for the episodes and commits in one step.              *)
(***************************************************************************)
EXTENDS PodcastGate

CONSTANTS Issues, Daily,  \* what an episode is about; Daily is all issues of the day
          Workers,        \* sessions that execute jobs
          Requesters,     \* sessions of operators' requests and scripts
          Formats,        \* of an issue's standard variant: solo, panel_2, panel_3
          Variants,       \* standard, short, deep
          Evidence,       \* what the gate may find
          Settings,       \* the gate's settings
          Speech,         \* audio is configured and rendered with generated episodes
          MaxContent,     \* bound: corrections of an issue
          MaxRequests,    \* bound: what operators do, in all
          MaxFaults,      \* bound: exceptions and exits while generating
          MaxFailed,      \* bound: failed jobs of a target when the scheduler adds one
          MaxId           \* bound: enough ids for all rows alive at once

Sessions == Workers \cup Requesters
Subjects == Issues \cup {Daily}
Targets == {"auto", "daily"} \cup Issues   \* podcast:correction:<issue> is the issue
Ids == 1..MaxId
None == "none"

ASSUME PodcastAssumption ==
  /\ Daily \notin Issues /\ {"auto", "daily", "request", None} \cap Subjects = {}
  /\ Evidence \subseteq EpisodeEvidence /\ Settings \in GateSettings
  /\ MaxContent \in Nat /\ MaxRequests \in Nat /\ MaxFaults \in Nat
  /\ MaxFailed \in Nat /\ MaxId \in Nat
  /\ "standard" \in Variants /\ Speech \in BOOLEAN
  /\ IsFiniteSet(Workers) /\ IsFiniteSet(Requesters)

VARIABLES content,   \* content[i]: corrections of i so far
          shape,     \* shape[i]: the format its signals call for
          visible,   \* issues that are public, not hidden and not merged
          episodes,  \* the rows of podcast_episodes
          jobs,      \* jobs[t]: generate_podcasts rows of target t by status
          session,   \* session[s]: the generation or rendering s is in
          requests, faults

vars == <<content, shape, visible, episodes, jobs, session, requests, faults>>

(* gate and held are generation_json: the gate's verdict, and whether a     *)
(* correction's hold is on record.  by and seen are history: who last       *)
(* published the row, and the content of its issue when the row was         *)
(* committed; told: what it says is well told.                              *)
Episode == [id : Ids, about : Subjects, format : Formats \cup {"solo", "panel_3"},
            variant : Variants, status : {"draft", "published", "archived"},
            gate : {"publishable", "blocked"}, held : BOOLEAN, auto : BOOLEAN,
            by : {"nobody", "gate", "operator"}, audio : BOOLEAN, told : BOOLEAN,
            built : 0..MaxContent, seen : 0..MaxContent]

Rest == [at |-> "idle", job |-> None, force |-> FALSE, todo |-> {}, variant |-> "standard",
         cur |-> None, format |-> "solo", built |-> 0, made |-> {}, found |-> {}, gone |-> {},
         kept |-> {}, wrote |-> {}]

Transaction == [at : {"idle", "choose", "found", "build", "ended", "audio"},
              job : Targets \cup {"request", None}, force : BOOLEAN,
              todo : SUBSET Subjects, variant : Variants, cur : Subjects \cup {None},
              format : Formats \cup {"solo", "panel_3"}, built : 0..MaxContent,
              made : SUBSET Episode, found : SUBSET Episode, gone : SUBSET Ids,
              kept : SUBSET Episode, wrote : SUBSET Ids]

TypeOK ==
  /\ content \in [Issues -> 0..MaxContent] /\ shape \in [Issues -> Formats]
  /\ visible \subseteq Issues /\ episodes \subseteq Episode
  /\ jobs \in [Targets -> [queued : Nat, running : Nat, failed : Nat]]
  /\ session \in [Sessions -> Transaction]
  /\ requests \in 0..MaxRequests /\ faults \in 0..MaxFaults

Init ==
  /\ content = [i \in Issues |-> 0] /\ shape \in [Issues -> Formats]
  /\ visible = Issues /\ episodes = {}
  /\ jobs = [t \in Targets |-> [queued |-> 0, running |-> 0, failed |-> 0]]
  /\ session = [s \in Sessions |-> Rest]
  /\ requests = 0 /\ faults = 0
-----------------------------------------------------------------------------
(* What the sessions see of each other. *)
IdsOf(rows) == {r.id : r \in rows}
Locks(t) == session[t].gone \cup session[t].wrote
Locked(s) == UNION {Locks(t) : t \in Sessions \ {s}}
Key(r) == <<r.about, r.format, r.variant>>

FormatFor(b, variant) ==
  CASE b = Daily -> "panel_3" [] variant = "short" -> "solo"
    [] variant = "deep" -> "panel_3" [] OTHER -> shape[b]

KeyOf(b, variant) == <<b, FormatFor(b, variant), variant>>

(* Archived rows do not count as existing. *)
Existing(b, variant) ==
  {r \in episodes : Key(r) = KeyOf(b, variant) /\ r.status # "archived"}

(* uq_podcast_episode_issue_format_variant counts every row; the issue of a *)
(* daily episode is NULL, which is not equal to itself.                     *)
Clash(s) ==
  LET me == session[s]
  IN /\ me.cur # Daily
     /\ \E r \in episodes : Key(r) = <<me.cur, me.format, me.variant>> /\ r.id \notin me.gone

(* The new ranking of the rows that are kept is written with the next INSERT *)
(* or at the end of the batch.                                              *)
Unwritten(s) ==
  IF session[s].at = "build" \/ (session[s].at = "choose" /\ session[s].todo = {})
    THEN IdsOf(session[s].kept) \ session[s].wrote ELSE {}

Waiting(s, t) ==
  LET me == session[s]
  IN \/ (IF me.at = "found" THEN IdsOf(me.found) ELSE Unwritten(s)) \cap Locks(t) # {}
     \/ /\ me.at = "build" /\ me.cur # Daily /\ Unwritten(s) = {}
        /\ <<me.cur, me.format, me.variant>> \in {Key(r) : r \in session[t].made}

Holds(v) == v.made \cup v.found \cup v.kept
UsedIds == IdsOf(episodes) \cup UNION {IdsOf(Holds(session[t])) : t \in Sessions}
FreeId == CHOOSE n \in Ids : n \notin UsedIds
-----------------------------------------------------------------------------
(* The scheduler; the interval since the last completed job may be over at *)
(* any time.                                                              *)
Enqueue(t) == jobs' = [jobs EXCEPT ![t].queued = @ + 1]
Pend(t) == jobs[t].queued + jobs[t].running > 0

Tick(t) ==
  /\ visible # {} /\ ~Pend(t) /\ jobs[t].failed < MaxFailed
  /\ Enqueue(t)
  /\ UNCHANGED <<content, shape, visible, episodes, session, requests, faults>>

(* A worker starts a job: _issue_candidates reads the visible issues. *)
Wanted(t) ==
  CASE t = "auto" -> visible
    [] t = "daily" -> IF visible = {} THEN {} ELSE {Daily}
    [] OTHER -> {t} \cap visible

(* Fault for Begin: force is not handed to the handler of a follow-up. *)
BeginUnforced(s, t) ==
  /\ session[s].at = "idle"
  /\ \E from \in {"queued", "failed"} :
       /\ jobs[t][from] > 0
       /\ jobs' = [jobs EXCEPT ![t][from] = @ - 1, ![t].running = @ + 1]
  /\ session' = [session EXCEPT ![s] = [Rest EXCEPT
       !.at = "choose", !.job = t, !.todo = Wanted(t)]]
  /\ UNCHANGED <<content, shape, visible, episodes, requests, faults>>

Begin(s, t) ==
  /\ session[s].at = "idle"
  /\ \E from \in {"queued", "failed"} :
       /\ jobs[t][from] > 0
       /\ jobs' = [jobs EXCEPT ![t][from] = @ - 1, ![t].running = @ + 1]
  /\ session' = [session EXCEPT ![s] = [Rest EXCEPT
       !.at = "choose", !.job = t, !.force = t \in Issues, !.todo = Wanted(t)]]
  /\ UNCHANGED <<content, shape, visible, episodes, requests, faults>>

Asks == requests < MaxRequests /\ requests' = requests + 1

(* POST /podcasts/generate for one issue, or the script an operator runs. *)
Request(s) ==
  /\ session[s].at = "idle" /\ Asks
  /\ \E i \in visible, v \in Variants, force \in BOOLEAN :
       session' = [session EXCEPT ![s] = [Rest EXCEPT
         !.at = "choose", !.job = "request", !.force = force, !.todo = {i}, !.variant = v]]
  /\ UNCHANGED <<content, shape, visible, episodes, jobs, faults>>
-----------------------------------------------------------------------------
(* Generating.  Keep: an episode exists and stays; its copy is kept. *)
Keep(s) ==
  /\ session[s].at = "choose" /\ ~session[s].force
  /\ \E b \in session[s].todo : \E r \in Existing(b, session[s].variant) :
       session' = [session EXCEPT ![s].todo = @ \ {b}, ![s].kept = @ \cup {r}]
  /\ UNCHANGED <<content, shape, visible, episodes, jobs, requests, faults>>

(* There is none, or it is to be replaced (force). *)
Look(s) ==
  /\ session[s].at = "choose"
  /\ \E b \in session[s].todo :
       LET old == Existing(b, session[s].variant)
       IN /\ session[s].force \/ old = {}
          /\ \E found \in IF old = {} THEN {{}} ELSE {{r} : r \in old} :
               session' = [session EXCEPT ![s].at = "found", ![s].cur = b,
                 ![s].format = FormatFor(b, session[s].variant), ![s].found = found]
  /\ UNCHANGED <<content, shape, visible, episodes, jobs, requests, faults>>

(* What was found is deleted, unless somebody else has deleted it, whatever *)
(* became of it since; then the issue's page is read.                       *)
StartBuild(s) ==
  LET me == session[s]
      doomed == IdsOf(me.found)
  IN /\ me.at = "found" /\ doomed \cap Locked(s) = {}
     /\ session' = [session EXCEPT ![s].at = "build", ![s].found = {},
          ![s].built = IF me.cur = Daily THEN 0 ELSE content[me.cur],
          ![s].gone = @ \cup (doomed \cap IdsOf(episodes))]
     /\ UNCHANGED <<content, shape, visible, episodes, jobs, requests, faults>>

(* One UPDATE of the flush that comes before the INSERT or the rendering. *)
Write(s) ==
  /\ \E id \in (Unwritten(s) \ Locked(s)) \cap IdsOf(episodes) :
       session' = [session EXCEPT ![s].wrote = @ \cup {id}]
  /\ UNCHANGED <<content, shape, visible, episodes, jobs, requests, faults>>

Outcomes == {[gate |-> Gate(ev, Settings), told |-> ev.told] : ev \in Evidence}

NewRow(s, outcome) ==
  LET b == session[s].cur
      ok == outcome.gate = "publishable"
  IN [id |-> FreeId, about |-> b, format |-> session[s].format,
      variant |-> session[s].variant, status |-> IF ok THEN "published" ELSE "draft",
      gate |-> outcome.gate, held |-> FALSE, auto |-> ok,
      by |-> IF ok THEN "gate" ELSE "nobody", audio |-> FALSE, told |-> outcome.told,
      built |-> session[s].built, seen |-> session[s].built]

(* The script, by OpenAI or from the template, the gate, and the INSERT. *)
Insert(s) ==
  /\ session[s].at = "build" /\ Unwritten(s) = {}
  /\ ~\E t \in Sessions \ {s} : Waiting(s, t)
  /\ ~Clash(s) /\ Ids \ UsedIds # {}
  /\ \E outcome \in Outcomes :
       session' = [session EXCEPT ![s].at = "choose", ![s].cur = None, ![s].format = "solo",
         ![s].built = 0, ![s].todo = @ \ {session[s].cur}, ![s].made = @ \cup {NewRow(s, outcome)}]
  /\ UNCHANGED <<content, shape, visible, episodes, jobs, requests, faults>>

(* Fault for Rendered: all of the copy is written. *)
RenderedWhole(r, c) == [c EXCEPT !.audio = @ \/ Speech]

(* What render_episode leaves of row r if it has read c: the whole of       *)
(* generation_json is written, as c had it, with the audio if configured.   *)
Rendered(r, c) == [r EXCEPT !.audio = @ \/ Speech, !.gate = c.gate, !.held = c.held]

WrittenBack(copies) ==
  {IF r.id \in IdsOf(copies) THEN Rendered(r, CHOOSE c \in copies : c.id = r.id) ELSE r :
     r \in episodes}

(* Whether the batch is rendered: as asked, or as configured. *)
Asked(job) == IF job = "request" \/ ~Speech THEN BOOLEAN ELSE {TRUE}

(* The copies without audio and the new rows are rendered, and it commits. *)
Commit(s) ==
  LET me == session[s]
      now(b) == IF b = Daily THEN 0 ELSE content[b]
  IN /\ me.at = "choose" /\ me.todo = {} /\ Unwritten(s) = {}
     /\ \E asked \in Asked(me.job) :
          episodes' = {r \in WrittenBack({c \in me.kept : asked /\ ~c.audio}) : r.id \notin me.gone}
                      \cup {[r EXCEPT !.audio = asked /\ Speech, !.seen = now(r.about)] : r \in me.made}
     /\ session' = [session EXCEPT ![s] = IF me.job = "request" THEN Rest
                     ELSE [Rest EXCEPT !.at = "ended", !.job = me.job]]
     /\ UNCHANGED <<content, shape, visible, jobs, requests, faults>>

(* Fault for EndJob: the row is finished, the worker does not know. *)
EndJobAgain(s) ==
  LET t == session[s].job
  IN /\ session[s].at = "ended"
     /\ jobs' = [jobs EXCEPT ![t].running = @ - 1]
     /\ UNCHANGED <<content, shape, visible, episodes, session, requests, faults>>

EndJob(s) ==
  LET t == session[s].job
  IN /\ session[s].at = "ended"
     /\ jobs' = [jobs EXCEPT ![t].running = @ - 1]
     /\ session' = [session EXCEPT ![s] = Rest]
     /\ UNCHANGED <<content, shape, visible, episodes, requests, faults>>

(* Fault for RollBack: the row of a job that was cut off stays running. *)
RollBackAlone(s) ==
  /\ session' = [session EXCEPT ![s] = Rest]
  /\ UNCHANGED <<content, shape, visible, episodes, jobs, requests>>

(* The transaction is rolled back; a job waits for its next attempt. *)
RollBack(s) ==
  /\ session' = [session EXCEPT ![s] = Rest]
  /\ jobs' = IF session[s].job \in Targets
             THEN [jobs EXCEPT ![session[s].job].running = @ - 1,
                               ![session[s].job].failed = @ + 1]
             ELSE jobs
  /\ UNCHANGED <<content, shape, visible, episodes, requests>>

(* IntegrityError on a key that is taken, StaleDataError on a row that has  *)
(* gone, or the database ends a deadlock.                                   *)
Refused(s) ==
  /\ \/ session[s].at = "build" /\ Unwritten(s) = {} /\ Clash(s)
     \/ ~(Unwritten(s) \subseteq IdsOf(episodes))
     \/ \E t \in Sessions \ {s} : Waiting(s, t) /\ Waiting(t, s)
  /\ RollBack(s) /\ UNCHANGED faults

(* Fault for Fault: the session is committed, not rolled back. *)
FaultCommits(s) ==
  /\ session[s].at \in {"choose", "found", "build"} /\ faults < MaxFaults
  /\ session' = [session EXCEPT ![s] = Rest]
  /\ episodes' = {r \in episodes : r.id \notin session[s].gone} \cup session[s].made
  /\ faults' = faults + 1
  /\ UNCHANGED <<content, shape, visible, jobs, requests>>

(* OpenAI's speech fails twice, or the process exits and the row is recovered. *)
Fault(s) ==
  /\ session[s].at \in {"choose", "found", "build", "ended"} /\ faults < MaxFaults
  /\ RollBack(s) /\ faults' = faults + 1
-----------------------------------------------------------------------------
(* POST /podcasts/{id}/render-audio and the job render_podcast_audio: the   *)
(* row is read, spoken without a lock, and written unless speech failed     *)
(* (of a row that has gone nothing is written).                             *)
StartRender(s) ==
  /\ session[s].at = "idle"
  /\ \E r \in episodes, force \in BOOLEAN :
       /\ force \/ ~r.audio
       /\ Asks
       /\ session' = [session EXCEPT ![s] = [Rest EXCEPT !.at = "audio", !.kept = {r}]]
  /\ UNCHANGED <<content, shape, visible, episodes, jobs, faults>>

EndRender(s) ==
  /\ session[s].at = "audio"
  /\ \/ /\ IdsOf(session[s].kept) \cap Locked(s) = {}
        /\ episodes' = WrittenBack(session[s].kept)
     \/ UNCHANGED episodes
  /\ session' = [session EXCEPT ![s] = Rest]
  /\ UNCHANGED <<content, shape, visible, jobs, requests, faults>>

(* An official article reaches the issue: its published episodes are held   *)
(* and a follow-up is queued unless one is queued or running.               *)
Hold(r) == [r EXCEPT !.status = "draft", !.auto = FALSE, !.gate = "blocked", !.held = TRUE]

Correct(i) ==
  LET shown == {r \in episodes : r.about = i /\ r.status = "published"}
  IN /\ content[i] < MaxContent
     /\ \A s \in Sessions : IdsOf(shown) \cap Locks(s) = {}
     /\ content' = [content EXCEPT ![i] = @ + 1]
     /\ \E f \in Formats : shape' = [shape EXCEPT ![i] = f]
     /\ episodes' = (episodes \ shown) \cup {Hold(r) : r \in shown}
     /\ IF Pend(i) THEN UNCHANGED jobs ELSE Enqueue(i)
     /\ UNCHANGED <<visible, session, requests, faults>>

(* PATCH /admin/podcasts/{id}/status: any status, whatever the gate said. *)
SetStatus(r, st) ==
  /\ Asks /\ st # r.status /\ \A s \in Sessions : r.id \notin Locks(s)
  /\ episodes' = (episodes \ {r}) \cup
       {[r EXCEPT !.status = st, !.by = IF st = "published" THEN "operator" ELSE @]}
  /\ UNCHANGED <<content, shape, visible, jobs, session, faults>>

(* Hiding, merging or publishing an issue is not this module's business. *)
Toggle(i) ==
  /\ Asks
  /\ visible' = IF i \in visible THEN visible \ {i} ELSE visible \cup {i}
  /\ UNCHANGED <<content, shape, episodes, jobs, session, faults>>

Operator ==
  \/ \E r \in episodes, st \in {"draft", "published", "archived"} : SetStatus(r, st)
  \/ \E i \in Issues : Toggle(i)

Generation(s) ==
  \/ Keep(s) \/ Look(s) \/ StartBuild(s) \/ Write(s) \/ Insert(s) \/ Commit(s) \/ EndJob(s) \/ Refused(s)

Next ==
  \/ \E t \in {"auto", "daily"} : Tick(t)
  \/ \E s \in Workers, t \in Targets : Begin(s, t)
  \/ \E s \in Requesters : Request(s) \/ StartRender(s)
  \/ \E s \in Sessions : Generation(s) \/ Fault(s) \/ EndRender(s)
  \/ \E i \in Issues : Correct(i)
  \/ Operator

Spec == Init /\ [][Next]_vars

(* The scheduler ticks for ever, workers take the oldest job first (so none *)
(* is passed over for ever), and what a session has begun it goes on with.  *)
(* The daily episode is nobody's precondition: its job need not even start. *)
Fairness ==
  /\ WF_vars(Tick("auto"))
  /\ \A t \in {"auto"} \cup Issues : SF_vars(\E s \in Workers : Begin(s, t))
  /\ \A s \in Sessions : WF_vars(Generation(s) \/ EndRender(s))

FairSpec == Spec /\ Fairness
-----------------------------------------------------------------------------
(* What list_podcast_episodes shows. *)
InFeed(r) == r.status = "published"

(* A forced generation deletes an episode before it writes the new one:      *)
(* whatever fails in between, an issue (and the day) that has an episode of   *)
(* a variant keeps one, and no other session ever sees it without.            *)
RebuiltNotLost ==
  [][\A r \in episodes : \E q \in episodes' : q.about = r.about /\ q.variant = r.variant]_vars

(* What publishes itself passed the gate and is not held, and what is in the *)
(* feed without an operator's word is still as it published itself and met  *)
(* no correction since it was committed: a correction takes down every      *)
(* episode it finds, and no renderer or batch that read the row before puts *)
(* it back.  A correction while the episode was being written is not        *)
(* covered: the code compares nothing when it commits.                      *)
FeedPassedGate ==
  \A r \in episodes :
    /\ r.auto => r.gate = "publishable" /\ ~r.held
    /\ InFeed(r) /\ r.by = "gate" => r.auto /\ (r.about # Daily => r.seen = content[r.about])


(* Every visible issue gets its episode, unless an archived one is in the   *)
(* way: the batch fails as a whole on an archived key of any issue in it.   *)
Told(i) == \E r \in episodes : r.about = i
Obstructed == \E r \in episodes : r.status = "archived"

EveryIssueIsTold == \A i \in Issues : i \in visible ~> (Told(i) \/ i \notin visible \/ Obstructed)

(* A follow-up that was queued rebuilds the standard episode from what the  *)
(* issue was at least when it was queued: only corrections queue one.       *)
FollowUpRebuilds ==
  \A i \in Issues, c \in 1..MaxContent :
    (jobs[i].queued > 0 /\ content[i] = c) ~>
      \/ \E r \in episodes : r.about = i /\ r.variant = "standard" /\ r.built >= c
      \/ i \notin visible \/ Obstructed
=============================================================================
