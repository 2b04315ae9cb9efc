---------------------------- MODULE QualityLoop ----------------------------
(***************************************************************************)
(* The search for what an issue lacks: assess_issue_quality                *)
(* (app/services/issues/quality.py) counts an attempt, starts a wave of    *)
(* retry keywords and a research job, and waits for the cooldown;          *)
(* search_news and research_issue (app/workers/issue_jobs.py) add          *)
(* articles and have the issue assessed again; the scheduler               *)
(* (schedule_due_search_jobs of app/services/jobs.py) searches the         *)
(* keywords that are due, until the issue lacks nothing or the attempts    *)
(* are spent.  One issue; a keyword per missing signal; what the issue     *)
(* holds is a record of Contents, and a search may change it in any way.   *)
(* The budget is that between two repairs: repair_information_quality      *)
(* (services/issues/repair.py), which sets the attempts of an issue back   *)
(* to 0 and assesses it, is left out.                                      *)
(*                                                                         *)
(* A handler reads in one step and commits in another; its row stays       *)
(* running until EndJob.  UPDATE statements write only the columns that    *)
(* differ from what the session read.                                      *)
(***************************************************************************)
EXTENDS QualityReport, FiniteSets

CONSTANTS Contents,     \* what the issue may hold
          MinArticles,  \* the setting issue_quality_min_articles
          MinPublishers,\* the setting issue_quality_min_publishers
          Workers,      \* sessions that execute jobs
          MaxAttempts,  \* the setting issue_quality_max_attempts
          MaxRounds,    \* the setting research_max_rounds
          FallbackAfter,\* the setting research_openai_fallback_after_round
          HighImpact,   \* the issue's topic is in HIGH_IMPACT_TOPICS
          AtOnce,       \* it is one of the topics the web is searched for at once
          DailyLimit,   \* the setting openai_web_search_daily_issue_limit
          MaxChanges,   \* bound: changes of the issue from elsewhere
          MaxFaults     \* bound: exceptions and exits

Gaps(c) == Missing(c, MinArticles, MinPublishers, HighImpact)
Signals == UNION {Gaps(c) : c \in Contents}
Kinds == {"assess", "research"} \cup Signals   \* search_news of a keyword is its signal
None == "none"

ASSUME QualityAssumption ==
  /\ {HighImpact, AtOnce} \subseteq BOOLEAN /\ Contents \subseteq Content
  /\ {MinArticles, MinPublishers, MaxAttempts, MaxRounds, FallbackAfter, DailyLimit, MaxChanges, MaxFaults} \subseteq Nat
  /\ IsFiniteSet(Workers)

VARIABLES content,   \* what the committed rows hold
          issue,     \* quality_status, quality_attempts, next_quality_retry_at
          keyword,   \* the retry keyword of a signal: status, due by its interval
          charged,   \* research_runs of the day with an openai_web_search route
          jobs,      \* jobs[k]: rows by status
          session, changes, faults,
          waves      \* history: how often retry keywords were sent out

vars == <<content, issue, keyword, charged, jobs, session, changes, faults, waves>>

Settled == {"sufficient", "exhausted"}
Row == [status : {"unchecked", "needs_retry"} \cup Settled, attempts : Nat,
        next : {"unset", "future", "past"}]
Rest == [at |-> "idle", job |-> None, read |-> {}, row |-> [status |-> "unchecked",
         attempts |-> 0, next |-> "unset"], pending |-> FALSE, round |-> 0, spent |-> 0]

TypeOK ==
  /\ content \in Contents /\ issue \in Row /\ issue.attempts <= MaxAttempts
  /\ keyword \in [Signals -> [status : {"absent", "active", "inactive"}, due : BOOLEAN]]
  /\ jobs \in [Kinds -> [queued : Nat, running : Nat, failed : Nat]]
  /\ charged \in Nat /\ changes \in 0..MaxChanges /\ faults \in 0..MaxFaults
  /\ \A w \in Workers :
       /\ session[w].at \in {"idle", "decided", "collecting", "researching", "ended"}
       /\ session[w].job \in Kinds \cup {None} /\ session[w].row \in Row
       /\ session[w].round \in 0..(MaxRounds + MaxAttempts)

Init ==
  /\ content \in Contents
  /\ issue = [status |-> "unchecked", attempts |-> 0, next |-> "unset"]
  /\ keyword = [s \in Signals |-> [status |-> "absent", due |-> TRUE]]
  /\ jobs = [k \in Kinds |-> [queued |-> IF k = "assess" THEN 1 ELSE 0,
                              running |-> 0, failed |-> 0]]
  /\ session = [w \in Workers |-> Rest]
  /\ charged = 0 /\ changes = 0 /\ faults = 0 /\ waves = 0
-----------------------------------------------------------------------------
(* Rows of the queue. *)
Pend(k) == jobs[k].queued + jobs[k].running > 0

(* js with a row more of kind k, unless one is queued or running. *)
Queued(js, k) ==
  IF js[k].queued + js[k].running > 0 THEN js ELSE [js EXCEPT ![k].queued = @ + 1]

QueuesAssessment == jobs' = Queued(jobs, "assess")
QueuesResearch == jobs' = Queued(jobs, "research")

Starts(k) ==
  \E from \in {"queued", "failed"} :
    /\ jobs[k][from] > 0
    /\ jobs' = [jobs EXCEPT ![k][from] = @ - 1, ![k].running = @ + 1]

Enters(w, k, at) == session' = [session EXCEPT ![w] = [Rest EXCEPT !.at = at, !.job = k]]
Ends(w) == session' = [session EXCEPT ![w] = [Rest EXCEPT !.at = "ended", !.job = session[w].job]]

(* Fault for EndJob: the row is finished, the worker does not know. *)
EndJobAgain(w) ==
  /\ session[w].at = "ended"
  /\ jobs' = [jobs EXCEPT ![session[w].job].running = @ - 1]
  /\ UNCHANGED <<content, issue, keyword, charged, session, changes, faults, waves>>

EndJob(w) ==
  /\ session[w].at = "ended"
  /\ jobs' = [jobs EXCEPT ![session[w].job].running = @ - 1]
  /\ session' = [session EXCEPT ![w] = Rest]
  /\ UNCHANGED <<content, issue, keyword, charged, changes, faults, waves>>

RowFails(w) ==
  /\ jobs' = [jobs EXCEPT ![session[w].job].running = @ - 1, ![session[w].job].failed = @ + 1]
  /\ session' = [session EXCEPT ![w] = Rest]

(* An exception rolls the session back, or the process exits and the row is *)
(* recovered.                                                               *)
Fault(w) ==
  /\ session[w].at # "idle" /\ faults < MaxFaults /\ faults' = faults + 1
  /\ RowFails(w)
  /\ UNCHANGED <<content, issue, keyword, charged, changes, waves>>
-----------------------------------------------------------------------------
(* assess_issue_quality *)
Active == {s \in Signals : keyword[s].status = "active"}

(* Fault for WavePending: the cooldown is not looked at. *)
WavePendingNow == \E s \in Active : Pend(s)

(* _has_pending_retry_wave *)
WavePending == issue.next = "future" \/ \E s \in Active : Pend(s)

StartAssess(w) ==
  /\ session[w].at = "idle" /\ Starts("assess")
  /\ session' = [session EXCEPT ![w] = [Rest EXCEPT !.at = "decided", !.job = "assess",
       !.read = Gaps(content), !.row = issue, !.pending = WavePending]]
  /\ UNCHANGED <<content, issue, keyword, charged, changes, faults, waves>>

(* The columns in which new differs from what was read. *)
Updated(old, new) ==
  [status |-> IF new.status = old.status THEN issue.status ELSE new.status,
   attempts |-> IF new.attempts = old.attempts THEN issue.attempts ELSE new.attempts,
   next |-> IF new.next = old.next /\ new.next = "unset" THEN issue.next ELSE new.next]

(* Fault for Deactivated: only keywords that have been searched are retired. *)
DeactivatedSearched == [s \in Signals |->
  IF keyword[s].status = "active" /\ ~keyword[s].due
    THEN [keyword[s] EXCEPT !.status = "inactive"] ELSE keyword[s]]

(* _deactivate_quality_retry_keywords *)
Deactivated == [s \in Signals |->
  IF keyword[s].status = "active" THEN [keyword[s] EXCEPT !.status = "inactive"] ELSE keyword[s]]

Settle(w, status) ==
  /\ issue' = Updated(session[w].row,
                [status |-> status, attempts |-> session[w].row.attempts, next |-> "unset"])
  /\ keyword' = Deactivated
  /\ Ends(w)
  /\ UNCHANGED <<jobs, waves>>

(* Fault for Spent: one attempt too many. *)
SpentLate(w) == session[w].row.attempts > MaxAttempts

Spent(w) == session[w].row.attempts >= MaxAttempts

(* An attempt: the keywords of what is missing become active (one that was  *)
(* searched before keeps last_searched_at), and research is queued.         *)
SendWave(w) ==
  LET old == session[w].row
  IN /\ issue' = Updated(old, [status |-> "needs_retry", attempts |-> old.attempts + 1,
                               next |-> "future"])
     /\ keyword' = [s \in Signals |-> IF s \in session[w].read
                     THEN [keyword[s] EXCEPT !.status = "active"] ELSE keyword[s]]
     /\ QueuesResearch
     /\ waves' = waves + 1
     /\ Ends(w)

CommitAssess(w) ==
  LET me == session[w]
      waits == me.row.status = "needs_retry" /\ me.pending
  IN /\ me.at = "decided"
     /\ \/ me.read = {} /\ Settle(w, "sufficient")
        \/ me.read # {} /\ waits /\ Ends(w) /\ UNCHANGED <<issue, keyword, jobs, waves>>
        \/ me.read # {} /\ ~waits /\ Spent(w) /\ Settle(w, "exhausted")
        \/ me.read # {} /\ ~waits /\ ~Spent(w) /\ SendWave(w)
     /\ UNCHANGED <<content, charged, changes, faults>>
-----------------------------------------------------------------------------
(* schedule_due_search_jobs: the active keywords of an issue that needs a   *)
(* retry and has cooled down are searched, those of any other retired.      *)
Due == {s \in Active : keyword[s].due /\ ~Pend(s)}

Tick ==
  /\ \/ /\ issue.status # "needs_retry" /\ Active # {}
        /\ keyword' = Deactivated
        /\ UNCHANGED jobs
     \/ /\ issue.status = "needs_retry" /\ issue.next # "future" /\ Due # {}
        /\ jobs' = [k \in Kinds |-> IF k \in Due THEN [jobs[k] EXCEPT !.queued = @ + 1] ELSE jobs[k]]
        /\ UNCHANGED keyword
  /\ UNCHANGED <<content, issue, charged, session, changes, faults, waves>>

(* search_news of a retry keyword: _quality_retry_search_guard, then Google *)
(* News is asked.                                                           *)
StartSearch(w, s) ==
  /\ session[w].at = "idle" /\ Starts(s)
  /\ \/ /\ keyword[s].status = "active" /\ issue.status = "needs_retry"
        /\ issue.next # "future"
        /\ Enters(w, s, "collecting") /\ UNCHANGED keyword
     \/ /\ keyword[s].status # "active" \/ (issue.status = "needs_retry" /\ issue.next = "future")
        /\ Enters(w, s, "ended") /\ UNCHANGED keyword
     \/ /\ keyword[s].status = "active" /\ issue.status # "needs_retry"
        /\ keyword' = [keyword EXCEPT ![s].status = "inactive"]
        /\ Enters(w, s, "ended")
  /\ UNCHANGED <<content, issue, charged, changes, faults, waves>>

(* What a search brings, if anything. *)
Found == content' \in Contents

(* Fault for CommitSearch: the issue is not assessed anew. *)
CommitSearchQuietly(w) ==
  /\ session[w].at = "collecting"
  /\ Found
  /\ keyword' = [keyword EXCEPT ![session[w].job].due = FALSE]
  /\ Ends(w)
  /\ UNCHANGED <<issue, charged, jobs, changes, faults, waves>>

(* Articles are stored, the keyword has been searched, and the issue is     *)
(* assessed anew.                                                           *)
CommitSearch(w) ==
  /\ session[w].at = "collecting"
  /\ Found
  /\ keyword' = [keyword EXCEPT ![session[w].job].due = FALSE]
  /\ QueuesAssessment
  /\ Ends(w)
  /\ UNCHANGED <<issue, charged, changes, faults, waves>>

(* An exception is recorded with a commit of what was stored before it. *)
SearchFails(w) ==
  /\ session[w].at = "collecting" /\ faults < MaxFaults /\ faults' = faults + 1
  /\ Found
  /\ keyword' = [keyword EXCEPT ![session[w].job].due = FALSE]
  /\ RowFails(w)
  /\ UNCHANGED <<issue, charged, changes, waves>>
-----------------------------------------------------------------------------
(* research_issue: rounds of execute_research_plan in one transaction; the  *)
(* first round is the number of attempts when the row was added.           *)
StartResearch(w) ==
  /\ session[w].at = "idle" /\ Starts("research")
  /\ \E first \in 1..issue.attempts :
       session' = [session EXCEPT ![w] = [Rest EXCEPT
         !.at = "researching", !.job = "research", !.round = first]]
  /\ UNCHANGED <<content, issue, keyword, charged, changes, faults, waves>>

(* Fault for WebSearch: the session's own runs are not counted. *)
WebSearchCommitted(w) ==
  /\ AtOnce \/ session[w].round >= FallbackAfter
  /\ charged < DailyLimit

(* _maybe_append_openai_route: the day's runs with such a route are counted, *)
(* the session's own included (they are flushed).                            *)
WebSearch(w) ==
  /\ AtOnce \/ session[w].round >= FallbackAfter
  /\ charged + session[w].spent < DailyLimit

LastRound(w) == session[w].round >= MaxRounds

(* A round that finds nothing is followed by another, for articles. *)
EmptyRound(w) ==
  /\ session[w].at = "researching" /\ ~LastRound(w)
  /\ session' = [session EXCEPT ![w].round = @ + 1,
       ![w].spent = IF WebSearch(w) THEN @ + 1 ELSE @]
  /\ UNCHANGED <<content, issue, keyword, charged, jobs, changes, faults, waves>>

CommitResearch(w) ==
  /\ session[w].at = "researching"
  /\ charged' = charged + session[w].spent + (IF WebSearch(w) THEN 1 ELSE 0)
  /\ Found
  /\ QueuesAssessment
  /\ Ends(w)
  /\ UNCHANGED <<issue, keyword, changes, faults, waves>>
(* A round that fails ends the job as failed, but what the rounds stored is *)
(* committed.                                                               *)
ResearchFails(w) ==
  LET t == session[w].job
  IN /\ session[w].at = "researching" /\ faults < MaxFaults /\ faults' = faults + 1
     /\ charged' = charged + session[w].spent + (IF WebSearch(w) THEN 1 ELSE 0)
     /\ Found
     /\ jobs' = [Queued(jobs, "assess") EXCEPT ![t].running = @ - 1, ![t].failed = @ + 1]
     /\ session' = [session EXCEPT ![w] = Rest]
     /\ UNCHANGED <<issue, keyword, changes, waves>>
-----------------------------------------------------------------------------
(* Time. *)
CoolDown ==
  /\ issue.next = "future" /\ issue' = [issue EXCEPT !.next = "past"]
  /\ UNCHANGED <<content, keyword, charged, jobs, session, changes, faults, waves>>

(* The interval of a retry keyword is the cooldown.  All searches of a wave  *)
(* and the assessment after them are assumed to take less than that.         *)
WaveOver == \A k \in Signals \cup {"assess"} : ~Pend(k) /\ jobs[k].failed = 0

BecomesDue(s) ==
  /\ ~keyword[s].due /\ keyword[s].status = "active" /\ WaveOver
  /\ keyword' = [keyword EXCEPT ![s].due = TRUE]
  /\ UNCHANGED <<content, issue, charged, jobs, session, changes, faults, waves>>

(* Other work on the issue: parsing, claims, verdicts, a manual check. *)
Change ==
  /\ changes < MaxChanges /\ changes' = changes + 1
  /\ Found
  /\ QueuesAssessment
  /\ UNCHANGED <<issue, keyword, charged, session, faults, waves>>

Step(w) ==
  \/ CommitAssess(w) \/ CommitSearch(w) \/ EmptyRound(w) \/ CommitResearch(w) \/ EndJob(w)

Start(w) ==
  StartAssess(w) \/ StartResearch(w) \/ \E s \in Signals : StartSearch(w, s)

Next ==
  \/ \E w \in Workers : Start(w) \/ Step(w) \/ SearchFails(w) \/ ResearchFails(w) \/ Fault(w)
  \/ \E s \in Signals : BecomesDue(s)
  \/ Tick \/ CoolDown \/ Change

Spec == Init /\ [][Next]_vars

(* Handlers return, the oldest job is taken first (so that none waits for   *)
(* ever), the scheduler ticks, and time passes.                             *)
Fairness ==
  /\ \A w \in Workers : WF_vars(Step(w))
  /\ \A k \in Kinds : SF_vars(\E w \in Workers :
       \/ k = "assess" /\ StartAssess(w)
       \/ k = "research" /\ StartResearch(w)
       \/ k \in Signals /\ StartSearch(w, k))
  /\ \A s \in Signals : WF_vars(BecomesDue(s))
  /\ WF_vars(Tick) /\ WF_vars(CoolDown)

FairSpec == Spec /\ Fairness
-----------------------------------------------------------------------------
(* The retry keywords are sent out at most MaxAttempts times for an issue,  *)
(* whatever assessments are queued, fail or are repeated.  (One worker: two *)
(* assessments that overlap send a wave each for the same attempt.)         *)
WavesWithinBudget == waves <= MaxAttempts

(* No attempt is counted during the cooldown of the one before.             *)
AttemptsSpaced == [][issue'.attempts > issue.attempts => issue.next # "future"]_vars

(* The paid web search is not recorded more often in a day than the limit   *)
(* allows, although the rounds of one job count runs that no one else sees  *)
(* yet and a failed job takes its runs back.                                *)
WithinDailyLimit == charged <= DailyLimit

(* Retrying ends: the issue lacks nothing or the attempts are spent.        *)
RetrySettles == (issue.status = "needs_retry") ~> (issue.status \in Settled)

(* Once retrying has ended, the keywords are searched no more.              *)
KeywordsRetire == (issue.status \in Settled) ~> (Active = {} \/ issue.status \notin Settled)
=============================================================================
