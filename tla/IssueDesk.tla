----------------------------- MODULE IssueDesk -----------------------------
(***************************************************************************)
(* Which issues are public: an operator's requests (approve, hide, merge,  *)
(* split: app/api/routes/admin.py, services/admin/issue_operations.py), the *)
(* jobs that create issues and give them articles (search_news,            *)
(* discover_topic, research_issue of app/workers/issue_jobs.py;            *)
(* services/issues/detector.py and publisher.py), and the backfill of      *)
(* sources that the scheduler queues (schedule_due_issue_backfill_jobs of  *)
(* app/services/jobs.py), which takes an issue down or puts it up again.   *)
(*                                                                         *)
(* A backfill loads the issue, collects, and commits; hiding loads the     *)
(* issue and commits; every other handler and request is one step.  An     *)
(* UPDATE writes the columns that differ from what the session loaded.     *)
(***************************************************************************)
EXTENDS Integers, FiniteSets

CONSTANTS Issues, Articles,
          Workers,    \* sessions that execute backfills
          Relevant,   \* pairs of an issue and an article that is about it
          SplitOf,    \* SplitOf[a]: the id of the issue that splitting article a creates
          MinSources, \* the setting issue_min_sources_for_public
          MaxChanges, \* bound: requests, and runs of the handlers that fill issues
          MaxFaults   \* bound: exceptions and exits

None == "none"
Uncollected == "uncollected"
SplitIds == {SplitOf[a] : a \in DOMAIN SplitOf}

ASSUME DeskAssumption ==
  /\ IsFiniteSet(Articles) /\ IsFiniteSet(Workers)
  /\ MinSources \in Nat \ {0} /\ MaxChanges \in Nat /\ MaxFaults \in Nat
  /\ None \notin Issues /\ Uncollected \notin Issues
  /\ Relevant \subseteq Issues \X Articles
  /\ DOMAIN SplitOf \subseteq Articles /\ SplitIds \subseteq Issues

VARIABLES home,      \* home[a]: issue_id of the article's row
          issue,     \* issue[i]: status, is_public, article_count (the cache)
          recent,    \* recent[i]: i was created or refreshed (last_updated_at)
                     \* within the last issue_followup_window_days
          candidate, \* the ids with a row in admin_queue_items
          jobs,      \* jobs[i][force]: rows of backfill_issue_sources, by status
          session,   \* what a backfill has loaded and is about to write
          desk,      \* the request to hide that is being served
          changes, faults,
          word,      \* history: what was last said of the issue's visibility
          owed       \* history: when it was hidden, older work was under way

vars == <<home, issue, recent, candidate, jobs, session, desk, changes, faults, word, owed>>

(* 검증 진행, 검증 완료, 출처 보강 필요, 검토 대기, 숨김, 병합됨 *)
Status == {"absent", "checking", "approved", "needs_source", "split", "hidden", "merged"}
Row == [status : Status, public : BOOLEAN, cached : Nat]
Absent == [status |-> "absent", public |-> FALSE, cached |-> 0]
Rest == [at |-> "idle", issue |-> None, force |-> FALSE, row |-> Absent,
         articles |-> {}, cached |-> 0]
NoRequest == [issue |-> None, row |-> Absent]

TypeOK ==
  /\ home \in [Articles -> Issues \cup {None, Uncollected}]
  /\ issue \in [Issues -> Row] /\ recent \in [Issues -> BOOLEAN]
  /\ candidate \subseteq Issues
  /\ jobs \in [Issues -> [BOOLEAN -> [queued : Nat, running : Nat, failed : Nat]]]
  /\ session \in [Workers -> [at : {"idle", "loaded", "sourced", "collected"},
       issue : Issues \cup {None}, force : BOOLEAN, row : Row,
       articles : SUBSET Articles, cached : Nat]]
  /\ desk \in [issue : Issues \cup {None}, row : Row]
  /\ changes \in 0..MaxChanges /\ faults \in 0..MaxFaults
  /\ word \in [Issues -> {"none", "hidden", "published"}] /\ owed \in [Issues -> BOOLEAN]

Init ==
  /\ home = [a \in Articles |-> Uncollected]
  /\ issue = [i \in Issues |-> Absent] /\ recent = [i \in Issues |-> FALSE]
  /\ candidate = {}
  /\ jobs = [i \in Issues |-> [f \in BOOLEAN |-> [queued |-> 0, running |-> 0, failed |-> 0]]]
  /\ session = [w \in Workers |-> Rest]
  /\ desk = NoRequest /\ changes = 0 /\ faults = 0
  /\ word = [i \in Issues |-> "none"] /\ owed = [i \in Issues |-> FALSE]
-----------------------------------------------------------------------------
Exists(i) == issue[i].status # "absent"
Open(i) == issue[i].status \notin {"absent", "hidden", "merged"}
Count(h, i) == Cardinality({a \in Articles : h[a] = i})
Moved(S, i) == [a \in Articles |-> IF a \in S THEN i ELSE home[a]]

(* Rows of articles that a backfill has written and not committed. *)
Held == UNION {session[w].articles : w \in Workers}
(* An issue whose row is held by a backfill that publishes it. *)
Locked(i) == \E w \in Workers :
  /\ session[w].at = "sourced" /\ session[w].issue = i
  /\ ~session[w].row.public \/ session[w].row.status = "needs_source"

Unassigned == {a \in Articles : home[a] = None} \ Held
Free == {a \in Articles : home[a] \in {None, Uncollected}} \ Held

(* article_matches_issue: the title of i, or enough of its words, in an      *)
(* article that is not a portal's page.                                     *)
Fits(i, a) == <<i, a>> \in Relevant

(* The articles S move to i, and the page of i is rebuilt: its count with it. *)
Attach(S, i, row) ==
  /\ S \cap Held = {} /\ ~Locked(i)
  /\ home' = Moved(S, i)
  /\ issue' = [issue EXCEPT ![i] = [row EXCEPT !.cached = Count(home', i)]]
  /\ recent' = [recent EXCEPT ![i] = TRUE]

Pending(i) == \E f \in BOOLEAN : jobs[i][f].queued + jobs[i][f].running > 0
Work(i) == \E f \in BOOLEAN : jobs[i][f].queued + jobs[i][f].running + jobs[i][f].failed > 0
-----------------------------------------------------------------------------
(* schedule_due_issue_backfill_jobs.  followed: the public issues whose     *)
(* updated_at is older than the follow-up interval; of an issue that has    *)
(* not been refreshed for days only the cached count is looked at.          *)
(* Fault for Lacking: hidden issues too. *)
LackingOrHidden(i) == Exists(i) /\ issue[i].cached < MinSources

Lacking(i) == Exists(i) /\ issue[i].status # "hidden" /\ issue[i].cached < MinSources

(* Fault for FollowUp: an issue that has just enough is not followed up. *)
FollowUpRich(i) == Open(i) /\ issue[i].public /\ recent[i] /\ issue[i].cached > MinSources

FollowUp(i) == Open(i) /\ issue[i].public /\ recent[i] /\ issue[i].cached >= MinSources

Schedules(i, force, followed) ==
  /\ ~Pending(i)
  /\ IF force THEN i \in followed /\ FollowUp(i) ELSE Lacking(i)

Tick(followed) ==
  /\ \E i \in Issues, f \in BOOLEAN : Schedules(i, f, followed)
  /\ jobs' = [i \in Issues |-> [f \in BOOLEAN |->
       IF Schedules(i, f, followed) THEN [jobs[i][f] EXCEPT !.queued = @ + 1] ELSE jobs[i][f]]]
  /\ UNCHANGED <<home, issue, recent, candidate, session, desk, changes, faults, word, owed>>

(* backfill_issue_sources: the issue is loaded and its articles counted; one *)
(* that has enough is published at once.                                     *)
Load(w, i, f) ==
  /\ session[w].at = "idle"
  /\ \E from \in {"queued", "failed"} :
       /\ jobs[i][f][from] > 0
       /\ jobs' = [jobs EXCEPT ![i][f][from] = @ - 1, ![i][f].running = @ + 1]
  /\ session' = [session EXCEPT ![w] = [Rest EXCEPT
       !.at = IF Count(home, i) >= MinSources /\ ~f THEN "sourced" ELSE "loaded",
       !.issue = i, !.force = f, !.row = issue[i], !.cached = Count(home, i)]]
  /\ UNCHANGED <<home, issue, recent, candidate, desk, changes, faults, word, owed>>

(* What was found and fits is attached, from other issues too; the page is  *)
(* computed.                                                                *)
Collect(w) ==
  /\ session[w].at = "loaded"
  /\ \E S \in SUBSET {a \in Articles \ Held : Fits(session[w].issue, a)} :
       session' = [session EXCEPT ![w].at = "collected", ![w].articles = S,
                     ![w].cached = Count(Moved(S, session[w].issue), session[w].issue)]
  /\ UNCHANGED <<home, issue, recent, candidate, jobs, desk, changes, faults, word, owed>>

(* Column c of a row: what a session writes that loaded old and now has new. *)
Written(old, new, now) == IF new = old THEN now ELSE new

(* The row of i after a session that loaded old commits new. *)
Saved(i, old, new) ==
  [c \in DOMAIN issue[i] |-> Written(old[c], new[c], issue[i][c])]

(* What a backfill makes of the row it loaded. *)
Judged(row, enough, cached) ==
  IF enough
    THEN [status |-> IF row.status = "needs_source" THEN "checking" ELSE row.status,
          public |-> TRUE, cached |-> cached]
    ELSE [status |-> "needs_source", public |-> FALSE, cached |-> cached]

Commit(w) ==
  LET me == session[w]
      enough == me.at = "sourced" \/ Count(Moved(me.articles, me.issue), me.issue) >= MinSources
  IN /\ me.at \in {"sourced", "collected"}
     /\ home' = Moved(me.articles, me.issue)
     /\ issue' = [issue EXCEPT ![me.issue] =
                    Saved(me.issue, me.row, Judged(me.row, enough, me.cached))]
     /\ recent' = [recent EXCEPT ![me.issue] = TRUE]
     /\ jobs' = [jobs EXCEPT ![me.issue][me.force].running = @ - 1]
     /\ session' = [session EXCEPT ![w] = Rest]
     /\ UNCHANGED <<candidate, desk, changes, faults, word, owed>>

(* Fault for Fault: the worker does not know that its job has failed. *)
FaultForgotten(w) ==
  /\ session[w].at # "idle" /\ faults < MaxFaults /\ faults' = faults + 1
  /\ jobs' = [jobs EXCEPT ![session[w].issue][session[w].force].running = @ - 1,
                          ![session[w].issue][session[w].force].failed = @ + 1]
  /\ UNCHANGED <<home, issue, recent, candidate, session, desk, changes, word, owed>>

(* An exception rolls the session back; or the process exits and the row is *)
(* recovered.                                                               *)
Fault(w) ==
  /\ session[w].at # "idle" /\ faults < MaxFaults /\ faults' = faults + 1
  /\ jobs' = [jobs EXCEPT ![session[w].issue][session[w].force].running = @ - 1,
                          ![session[w].issue][session[w].force].failed = @ + 1]
  /\ session' = [session EXCEPT ![w] = Rest]
  /\ UNCHANGED <<home, issue, recent, candidate, desk, changes, word, owed>>
-----------------------------------------------------------------------------
(* Handlers that fill issues. *)

(* An issue of a search is public from the start; one that is there, hidden *)
(* or not, keeps its status.                                                *)
Ensured(i) ==
  IF Exists(i) THEN issue[i] ELSE [status |-> "checking", public |-> TRUE, cached |-> 0]

(* The same for the issue of a discovered incident: that of the incident, a *)
(* similar one, the one of that id, or a new one.                           *)
Discovered(i) ==
  IF Exists(i) THEN issue[i] ELSE [status |-> "checking", public |-> TRUE, cached |-> 0]

(* collect_source: an article of no issue. *)
CollectSource(a) ==
  /\ a \in Free /\ home[a] = Uncollected
  /\ home' = [home EXCEPT ![a] = None]
  /\ UNCHANGED <<issue, recent, candidate, jobs, session, desk, faults, word, owed>>

(* search_news: articles of no issue, for the issue of the keyword, hidden  *)
(* or not.                                                                  *)
Search(i) ==
  /\ i \in SplitIds => Exists(i)
  /\ \E S \in SUBSET {a \in Free : Fits(i, a)} : Attach(S, i, Ensured(i))
  /\ UNCHANGED <<candidate, jobs, session, desk, faults, word, owed>>

(* discover_topic, and research_issue of an issue that is there: other      *)
(* issues lose articles, and their counts are not refreshed.                *)
Discover(i) ==
  /\ i \in SplitIds => Exists(i)
  /\ \E S \in SUBSET {a \in Articles \ Held : Fits(i, a)} : Attach(S, i, Discovered(i))
  /\ UNCHANGED <<candidate, jobs, session, desk, faults, word, owed>>

(* detect_or_match_issue: articles of no issue go to one that is open and   *)
(* like them, or become a candidate.                                        *)
Match(i) ==
  /\ Open(i)
  /\ \E S \in SUBSET Unassigned : S # {} /\ Attach(S, i, issue[i])
  /\ UNCHANGED <<candidate, jobs, session, desk, faults, word, owed>>

Propose(i) ==
  /\ Unassigned # {} /\ i \notin SplitIds \cup candidate
  /\ candidate' = candidate \cup {i}
  /\ UNCHANGED <<home, issue, recent, jobs, session, desk, faults, word, owed>>

(* publish_issue_from_candidate: the issue of that id is published whatever *)
(* it was, with n as its article_count.                                     *)
Publish(i, S, n) ==
  /\ i \in candidate /\ S \cap Held = {} /\ ~Locked(i)
  /\ home' = Moved(S, i)
  /\ issue' = [issue EXCEPT ![i] = [status |-> "checking", public |-> TRUE, cached |-> n]]
  /\ recent' = [recent EXCEPT ![i] = TRUE]
  /\ word' = [word EXCEPT ![i] = "published"] /\ owed' = [owed EXCEPT ![i] = FALSE]
  /\ UNCHANGED <<candidate, jobs, session, desk, faults>>

(* The detector publishes a candidate with a high score by itself; the       *)
(* handler counts the articles when it has committed.                       *)
AutoPublish(i) == \E S \in SUBSET Unassigned : S # {} /\ Publish(i, S, Count(Moved(S, i), i))

(* repair_information_quality: articles that do not fit, and have no claims, *)
(* are detached, and all counts refreshed.                                  *)
Repair ==
  \E S \in SUBSET {a \in Articles : home[a] \in Issues /\ ~Fits(home[a], a)} :
    /\ S \cap Held = {} /\ \A i \in Issues : ~Locked(i)
    /\ home' = Moved(S, None)
    /\ issue' = [i \in Issues |-> IF Exists(i) THEN [issue[i] EXCEPT !.cached = Count(home', i)]
                                              ELSE issue[i]]
    /\ recent' = [i \in Issues |-> Exists(i)]
    /\ UNCHANGED <<candidate, jobs, session, desk, faults, word, owed>>
-----------------------------------------------------------------------------
(* The operator. *)

(* What publishing makes of article_count.  The row of a new issue is not in *)
(* the table yet when the articles are counted: unless one of them brings a *)
(* picture, the issue keeps the count that its candidate had.               *)
PublishedCount(i, S) ==
  IF Exists(i) THEN {Count(Moved(S, i), i)} ELSE 1..Cardinality(Articles)

ApproveCandidate(i) ==
  \E S \in SUBSET Unassigned : \E n \in PublishedCount(i, S) : Publish(i, S, n)

(* An id that is a candidate is published as one, whether it is an issue too *)
(* or not.                                                                  *)
Approve(i) ==
  \/ ApproveCandidate(i)
  \/ /\ i \notin candidate /\ Exists(i) /\ ~Locked(i)
     /\ issue' = [issue EXCEPT ![i].status = "approved", ![i].public = TRUE]
     /\ word' = [word EXCEPT ![i] = "published"] /\ owed' = [owed EXCEPT ![i] = FALSE]
     /\ UNCHANGED <<home, recent, candidate, jobs, session, desk, faults>>

AskToHide(i) ==
  /\ desk = NoRequest /\ Exists(i)
  /\ desk' = [issue |-> i, row |-> issue[i]]
  /\ UNCHANGED <<home, issue, recent, candidate, jobs, session, faults, word, owed>>

(* hide_issue.  Older work on the issue: a backfill of it, or a change of   *)
(* its row since the request loaded it.                                     *)
Hide ==
  LET i == desk.issue
  IN /\ i # None /\ ~Locked(i)
     /\ issue' = [issue EXCEPT ![i] = Saved(i, desk.row,
                    [desk.row EXCEPT !.status = "hidden", !.public = FALSE])]
     /\ word' = [word EXCEPT ![i] = "hidden"]
     /\ owed' = [owed EXCEPT ![i] =
                   Work(i) \/ issue[i].status # desk.row.status \/ issue[i].public # desk.row.public]
     /\ desk' = NoRequest
     /\ UNCHANGED <<home, recent, candidate, jobs, session, changes, faults>>

(* merge_issue: nothing keeps the two apart. *)
Merge(i, j) ==
  /\ Exists(i) /\ Exists(j) /\ ~Locked(i)
  /\ {a \in Articles : home[a] = i} \cap Held = {} /\ ~Locked(j)
  /\ home' = Moved({a \in Articles : home[a] = i}, j)
  /\ issue' = [k \in Issues |->
       LET row == IF k = i THEN [issue[i] EXCEPT !.status = "merged", !.public = FALSE] ELSE issue[k]
       IN IF k = j THEN [row EXCEPT !.cached = Count(home', j)] ELSE row]
  /\ recent' = [recent EXCEPT ![j] = TRUE]
  /\ word' = [word EXCEPT ![i] = "none"]
  /\ UNCHANGED <<candidate, jobs, session, desk, faults, owed>>

(* split_article_to_issue: the issue the article leaves keeps its count. *)
Split(a) ==
  LET i == SplitOf[a]
  IN /\ home[a] # Uncollected
     /\ Attach({a}, i, [issue[i] EXCEPT !.status = "split", !.public = FALSE])
     /\ word' = [word EXCEPT ![i] = "none"]
     /\ UNCHANGED <<candidate, jobs, session, desk, faults, owed>>
-----------------------------------------------------------------------------
(* The clock: issue_followup_window_days have gone by since the issue was   *)
(* created and last refreshed.                                              *)
Ages(i) ==
  /\ recent[i] /\ recent' = [recent EXCEPT ![i] = FALSE]
  /\ UNCHANGED <<home, issue, candidate, jobs, session, desk, changes, faults, word, owed>>

Step(w) == Collect(w) \/ Commit(w)
Handlers(i) == Search(i) \/ Discover(i) \/ Match(i) \/ Propose(i) \/ AutoPublish(i)

Next ==
  \/ \E S \in SUBSET Issues : Tick(S)
  \/ \E w \in Workers : Step(w) \/ Fault(w) \/ \E i \in Issues, f \in BOOLEAN : Load(w, i, f)
  \/ Hide \/ \E i \in Issues : Ages(i)
  \/ /\ changes < MaxChanges /\ changes' = changes + 1
     /\ \/ \E a \in Articles : CollectSource(a)
        \/ \E i \in Issues : Handlers(i)
        \/ \E i \in Issues : Approve(i) \/ AskToHide(i) \/ \E j \in Issues : Merge(i, j)
        \/ \E a \in DOMAIN SplitOf : Split(a)
        \/ Repair

Spec == Init /\ [][Next]_vars

(* Handlers return; the oldest job is taken first, so that none waits for   *)
(* ever; the scheduler ticks, and time passes between two follow-ups.       *)
Fairness ==
  /\ \A w \in Workers : WF_vars(Step(w))
  /\ \A i \in Issues :
       /\ SF_vars(\E w \in Workers, f \in BOOLEAN : Load(w, i, f))
       /\ WF_vars(\E S \in SUBSET Issues : i \in S /\ (Lacking(i) \/ FollowUp(i)) /\ ~Pending(i) /\ Tick(S))

FairSpec == Spec /\ Fairness
-----------------------------------------------------------------------------
(* A hidden issue is public only because of a backfill that was queued      *)
(* before it was hidden, of a change made while the request was being       *)
(* served, or of a new publication: no later tick, search, discovery,       *)
(* research or repair brings it back.                                       *)
OnlyOldWorkUnhides == \A i \in Issues : word[i] = "hidden" /\ issue[i].public => owed[i]

(* An issue out of the scheduler's sight: its cached count is enough, and   *)
(* nothing has refreshed it for days.                                       *)
OutOfSight(i) == issue[i].cached >= MinSources /\ ~recent[i]

(* An open public issue with fewer articles than a public one needs, even if *)
(* its cached count says that it has enough, is taken down or gets them, as *)
(* long as the scheduler looks at it.                                       *)
ThinIsTakenDown == \A i \in Issues :
  Open(i) /\ issue[i].public /\ Count(home, i) < MinSources
    ~> \/ ~Open(i) \/ ~issue[i].public \/ Count(home, i) >= MinSources
       \/ OutOfSight(i)
=============================================================================
