--------------------------- MODULE ClaimPipeline ---------------------------
(***************************************************************************)
(* How an article becomes verdicts and a page: the handlers parse_article, *)
(* extract_claims, retrieve_evidence, verify_claim and update_issue_page   *)
(* of app/workers/issue_jobs.py over the job_attempts table, with the jobs *)
(* that collect articles.  Each handler enqueues the next one unless a job *)
(* of that type and target is already queued or running.                   *)
(*                                                                         *)
(* There is one issue, and an article has at most one claim, which has the *)
(* article's name.  A document has been considered for a claim once it was *)
(* among those offered to the analysis that chose the evidence or the      *)
(* verdict; what the analysis made of it is not modelled.  The instances   *)
(* have fewer than the 12 newest articles _local_documents offers.         *)
(*                                                                         *)
(* A handler reads, calls the analysis service, looks for existing jobs,   *)
(* and commits: other sessions may act between any two of these.  Each     *)
(* statement sees what is committed (READ COMMITTED).  Jobs fail and their *)
(* workers exit fewer than max_attempts times in all (MaxFaults), so no    *)
(* job is given up; JobQueue is about that.                                *)
(***************************************************************************)
EXTENDS Integers, FiniteSets

CONSTANTS Workers,     \* sessions that execute jobs
          Articles,
          Official,    \* articles whose source_type is official or public
          Issue,
          BatchSize,   \* jobs a poll claims at most
          MaxCollects, \* bound: articles collected, repeats included
          MaxFaults    \* bound: exceptions and exits

ASSUME PipelineAssumption ==
  /\ Official \subseteq Articles
  /\ BatchSize \in Nat \ {0} /\ MaxCollects \in Nat /\ MaxFaults \in Nat
  /\ IsFiniteSet(Workers)

Parse(a) == <<"parse", a>>
Extract(a) == <<"extract", a>>
Retrieve(c) == <<"retrieve", c>>
Verify(c) == <<"verify", c>>
PageJob == <<"page", Issue>>

Keys == ({"parse", "extract", "retrieve", "verify"} \X Articles) \cup {PageJob}

VARIABLES jobs,       \* jobs[k]: how many rows of type and target k are in which state
          batch,      \* batch[w]: rows w has claimed and not begun
          at,         \* at[w]: where w is in a handler, and what it has read there
          collected, attached, claims, extracted,  \* sets of articles
          evidence,   \* evidence[c]: the documents offered for the evidence rows of c
          verdict,    \* verdict[c]: the documents considered by the verdict of c
          page,       \* the cached columns of the issue
          collects, faults

data == <<collected, attached, claims, extracted, evidence, verdict, page>>
vars == <<jobs, batch, at, collected, attached, claims, extracted, evidence,
          verdict, page, collects, faults>>

Rows == [queued : Nat, running : Nat, lost : Nat, failed : Nat]

(* "lost" is status running with the worker gone. *)
Row(q, r, l, f) == [queued |-> q, running |-> r, lost |-> l, failed |-> f]
NoJobs == Row(0, 0, 0, 0)

(* What refresh_issue_cache computes, by column. *)
View == [articles |-> attached, claims |-> [c \in claims |-> verdict[c]]]

Idle == [stage |-> "idle"]

Init ==
  /\ jobs = [k \in Keys |-> NoJobs]
  /\ batch = [w \in Workers |-> {}]
  /\ at = [w \in Workers |-> Idle]
  /\ collected = {} /\ attached = {} /\ claims = {} /\ extracted = {}
  /\ evidence = [c \in Articles |-> {}]
  /\ verdict = [c \in Articles |-> {}]
  /\ page = View
  /\ collects = 0 /\ faults = 0

-----------------------------------------------------------------------------
(* The rows. *)

(* The test every _enqueue_*_job makes first. *)
Missing(k) == jobs[k].queued = 0 /\ jobs[k].running = 0 /\ jobs[k].lost = 0

Added(rows, new) ==
  [k \in Keys |-> IF k \in new THEN [rows[k] EXCEPT !.queued = @ + 1] ELSE rows[k]]

Ended(k) == [jobs EXCEPT ![k].running = @ - 1]

ClaimedRow(r) ==
  IF r.queued > 0 THEN Row(r.queued - 1, r.running + 1, r.lost, r.failed)
                  ELSE Row(r.queued, r.running + 1, r.lost, r.failed - 1)
LostRow(r, n)   == Row(r.queued, r.running - n, r.lost + n, r.failed)
FailedRow(r)    == Row(r.queued, r.running - 1, r.lost, r.failed + 1)
RecoveredRow(r) == Row(r.queued, r.running, r.lost - 1, r.failed + 1)

(* A poll claims rows that are queued, or failed and past their backoff. *)
Poll(w) ==
  /\ at[w].stage = "idle" /\ batch[w] = {}
  /\ \E some \in SUBSET {k \in Keys : jobs[k].queued + jobs[k].failed > 0} :
       /\ Cardinality(some) \in 1 .. BatchSize
       /\ batch' = [batch EXCEPT ![w] = some]
       /\ jobs' = [k \in Keys |-> IF k \in some THEN ClaimedRow(jobs[k]) ELSE jobs[k]]
  /\ UNCHANGED <<at, data, collects, faults>>

(* An exception in a handler: its open transaction is gone, the row waits. *)
Fail(w) ==
  /\ at[w].stage # "idle"
  /\ faults < MaxFaults /\ faults' = faults + 1
  /\ jobs' = [jobs EXCEPT ![at[w].key] = FailedRow(@)]
  /\ at' = [at EXCEPT ![w] = Idle]
  /\ UNCHANGED <<batch, data, collects>>

(* How many of the running rows of type and target k are w's. *)
Holds(w, k) ==
  (IF k \in batch[w] THEN 1 ELSE 0) + (IF at[w].stage # "idle" /\ at[w].key = k THEN 1 ELSE 0)

(* The process exits with all it holds; it starts again with nothing. *)
Exit(w) ==
  /\ \E k \in Keys : Holds(w, k) > 0
  /\ faults < MaxFaults /\ faults' = faults + 1
  /\ jobs' = [k \in Keys |-> LostRow(jobs[k], Holds(w, k))]
  /\ batch' = [batch EXCEPT ![w] = {}]
  /\ at' = [at EXCEPT ![w] = Idle]
  /\ UNCHANGED <<data, collects>>

(* Fault for Recover: whether the row is still worked on is not asked. *)
RecoverRunning(k) ==
  /\ jobs[k].running > 0
  /\ jobs' = [jobs EXCEPT ![k] = FailedRow(@)]
  /\ UNCHANGED <<batch, at, data, collects, faults>>

(* recover_stale_jobs *)
Recover(k) ==
  /\ jobs[k].lost > 0
  /\ jobs' = [jobs EXCEPT ![k] = RecoveredRow(@)]
  /\ UNCHANGED <<batch, at, data, collects, faults>>

-----------------------------------------------------------------------------
(* Collection, by a worker between two jobs. *)

(* A known article without claims is analysed again. *)
Unparsed(a) == a \notin claims /\ Missing(Parse(a))

(* collect_source *)
CollectSource(a) ==
  /\ collected' = collected \cup {a}
  /\ jobs' = Added(jobs, {k \in {Parse(a)} : Unparsed(a)})
  /\ UNCHANGED <<attached, claims, extracted, evidence, verdict, page>>

(* search_news for the keyword of the issue: an article that does not fit  *)
(* the issue is stored and left alone.                                     *)
SearchNews(a) ==
  /\ collected' = collected \cup {a}
  /\ \E fits \in BOOLEAN :
       /\ attached' = IF fits THEN attached \cup {a} ELSE attached
       /\ jobs' = Added(jobs, {k \in {Parse(a)} : a \in attached' /\ Unparsed(a)}
                                \cup {k \in {PageJob} : Missing(PageJob)})
  /\ page' = [View EXCEPT !.articles = attached']
  /\ UNCHANGED <<claims, extracted, evidence, verdict>>

Collect(w) ==
  /\ at[w].stage = "idle"
  /\ collects < MaxCollects /\ collects' = collects + 1
  /\ \E a \in Articles : CollectSource(a) \/ SearchNews(a)
  /\ UNCHANGED <<batch, at, faults>>

-----------------------------------------------------------------------------
(* The handlers.  Stages: reading, decided (the first transaction of the   *)
(* handler), between, refreshing, refreshed (its refresh_issue_cache).     *)

IsPage(k) == k = PageJob
Judges(k) == k[1] \in {"retrieve", "verify"}

(* The handler loads its rows: the documents for a claim, the issue. *)
Start(w) ==
  /\ at[w].stage = "idle"
  /\ \E k \in batch[w] :
       /\ batch' = [batch EXCEPT ![w] = @ \ {k}]
       /\ at' = [at EXCEPT ![w] =
            [stage |-> IF IsPage(k) THEN "refreshing" ELSE "reading",
             key |-> k,
             docs |-> IF Judges(k) THEN evidence[k[2]] \cup attached ELSE {},
             view |-> View, loaded |-> page, new |-> {}]]
  /\ UNCHANGED <<jobs, data, collects, faults>>

Moves(w, stage, view, loaded, new) ==
  at' = [at EXCEPT ![w] = [stage |-> stage, key |-> @.key, docs |-> @.docs,
                           view |-> view, loaded |-> loaded, new |-> new]]

(* Faults for Followers: the claims of others are left alone; nothing      *)
(* follows the evidence.                                                   *)
FollowersOwnOnly(k) ==
  CASE k[1] = "parse"    -> {Extract(k[2])}
    [] k[1] = "extract"  -> {Retrieve(k[2])}
    [] k[1] = "retrieve" -> {Verify(k[2])}
    [] OTHER             -> {}
FollowersNoVerdict(k) ==
  CASE k[1] = "parse"   -> {Extract(k[2])}
    [] k[1] = "extract" -> {Retrieve(c) : c \in IF k[2] \in Official THEN claims \cup {k[2]}
                                                                     ELSE {k[2]}}
    [] OTHER            -> {}

(* The jobs a handler wants to follow: extract_claims of an official       *)
(* article wants new evidence for every claim of the issue.                *)
Followers(k) ==
  CASE k[1] = "parse"    -> {Extract(k[2])}
    [] k[1] = "extract"  -> {Retrieve(c) : c \in IF k[2] \in Official THEN claims \cup {k[2]}
                                                                      ELSE {k[2]}}
    [] k[1] = "retrieve" -> {Verify(k[2])}
    [] OTHER             -> {}

Decide(w) ==
  /\ at[w].stage = "reading"
  /\ Moves(w, "decided", at[w].view, at[w].loaded, {k \in Followers(at[w].key) : Missing(k)})
  /\ UNCHANGED <<jobs, batch, data, collects, faults>>

(* The session writes a column only where what it computed differs from    *)
(* what it loaded.                                                         *)
Written(w) ==
  LET seen == at[w].view
      old  == at[w].loaded
  IN [articles |-> IF seen.articles = old.articles THEN page.articles ELSE seen.articles,
      claims   |-> IF seen.claims = old.claims THEN page.claims ELSE seen.claims]

GoesOn(w) == Moves(w, "between", at[w].view, at[w].loaded, {})

(* parse_article of an article that is attached, by search or by an        *)
(* earlier try. *)
ParseAttached(w, a) ==
  /\ a \in attached
  /\ jobs' = Added(jobs, at[w].new) /\ GoesOn(w)
  /\ UNCHANGED <<data, batch, collects, faults>>

(* It matches the issue, or the issue is published with it: then similar   *)
(* articles that nobody attached yet come along.  detect_or_match_issue    *)
(* refreshes the page in the same transaction.                             *)
ParseMatched(w, a) ==
  /\ a \notin attached
  /\ \E similar \in SUBSET (collected \ attached) :
       attached' = attached \cup {a} \cup similar
  /\ page' = Written(w)
  /\ jobs' = Added(jobs, at[w].new) /\ GoesOn(w)
  /\ UNCHANGED <<collected, claims, extracted, evidence, verdict, batch, collects, faults>>

(* It matches nothing: "needs_review". *)
ParseUnmatched(w, a) ==
  /\ a \notin attached
  /\ jobs' = Ended(Parse(a))
  /\ at' = [at EXCEPT ![w] = Idle]
  /\ UNCHANGED <<data, batch, collects, faults>>

(* extract_claims: a text may have no claim, and one that had may show     *)
(* none this time; what exists is not created again.                       *)
CommitClaims(w, a) ==
  /\ extracted' = extracted \cup {a}
  /\ \E found \in SUBSET {a} :
       /\ claims' = claims \cup found
       /\ jobs' = Added(jobs, at[w].new \cap
            {Retrieve(c) : c \in IF a \in Official THEN claims' ELSE found})
  /\ GoesOn(w)
  /\ UNCHANGED <<collected, attached, evidence, verdict, page, batch, collects, faults>>

(* retrieve_evidence has no second transaction. *)
CommitEvidence(w, c) ==
  /\ evidence' = [evidence EXCEPT ![c] = @ \cup at[w].docs]
  /\ jobs' = Added(Ended(Retrieve(c)), at[w].new)
  /\ at' = [at EXCEPT ![w] = Idle]
  /\ UNCHANGED <<collected, attached, claims, extracted, verdict, page, batch, collects, faults>>

(* Fault for CommitVerdict: the handler ends with its first commit. *)
CommitVerdictOnly(w, c) ==
  /\ evidence' = [evidence EXCEPT ![c] = @ \cup at[w].docs]
  /\ verdict' = [verdict EXCEPT ![c] = at[w].docs]
  /\ jobs' = Ended(Verify(c))
  /\ at' = [at EXCEPT ![w] = Idle]
  /\ UNCHANGED <<collected, attached, claims, extracted, page, batch, collects, faults>>

CommitVerdict(w, c) ==
  /\ evidence' = [evidence EXCEPT ![c] = @ \cup at[w].docs]
  /\ verdict' = [verdict EXCEPT ![c] = at[w].docs]
  /\ GoesOn(w)
  /\ UNCHANGED <<jobs, collected, attached, claims, extracted, page, batch, collects, faults>>

Commit(w) ==
  /\ at[w].stage = "decided"
  /\ LET k == at[w].key IN
       \/ k[1] = "parse" /\ (ParseAttached(w, k[2]) \/ ParseMatched(w, k[2]) \/ ParseUnmatched(w, k[2]))
       \/ k[1] = "extract" /\ CommitClaims(w, k[2])
       \/ k[1] = "retrieve" /\ CommitEvidence(w, k[2])
       \/ k[1] = "verify" /\ CommitVerdict(w, k[2])

(* Everything is loaded again after a commit. *)
Reload(w) ==
  /\ at[w].stage = "between"
  /\ Moves(w, "refreshing", View, page, {})
  /\ UNCHANGED <<jobs, batch, data, collects, faults>>

(* _enqueue_issue_enrichment_jobs; update_issue_page itself does not call it. *)
DecideRefresh(w) ==
  /\ at[w].stage = "refreshing"
  /\ Moves(w, "refreshed", at[w].view, at[w].loaded,
           {k \in {PageJob} : ~IsPage(at[w].key) /\ Missing(PageJob)})
  /\ UNCHANGED <<jobs, batch, data, collects, faults>>

CommitRefresh(w) ==
  /\ at[w].stage = "refreshed"
  /\ page' = Written(w)
  /\ jobs' = Added(Ended(at[w].key), at[w].new)
  /\ at' = [at EXCEPT ![w] = Idle]
  /\ UNCHANGED <<batch, collected, attached, claims, extracted, evidence, verdict, collects, faults>>

-----------------------------------------------------------------------------
Handle(w) ==
  Poll(w) \/ Start(w) \/ Decide(w) \/ Commit(w) \/ Reload(w) \/ DecideRefresh(w) \/ CommitRefresh(w)

Next ==
  \/ \E w \in Workers : Handle(w) \/ Collect(w) \/ Fail(w) \/ Exit(w)
  \/ \E k \in Keys : Recover(k)

Spec == Init /\ [][Next]_vars

(* Workers poll for ever, the analysis service answers or times out, and   *)
(* every poll recovers what is stale.                                      *)
Fairness ==
  /\ \A w \in Workers : WF_vars(Handle(w))
  /\ \A k \in Keys : WF_vars(Recover(k))

FairSpec == Spec /\ Fairness

-----------------------------------------------------------------------------
Columns ==
  [articles : SUBSET Articles,
   claims : UNION {[some -> SUBSET Articles] : some \in SUBSET Articles}]

InHandler ==
  [stage : {"reading", "decided", "between", "refreshing", "refreshed"},
   key : Keys, docs : SUBSET Articles, view : Columns, loaded : Columns, new : SUBSET Keys]

(* Type invariant: in particular no row ends twice, in whatever order the  *)
(* handlers, exceptions, exits and recoveries come.                        *)
TypeOK ==
  /\ jobs \in [Keys -> Rows]
  /\ batch \in [Workers -> SUBSET Keys]
  /\ at \in [Workers -> InHandler \cup {Idle}]
  /\ collected \subseteq Articles /\ attached \subseteq Articles
  /\ claims \subseteq extracted /\ extracted \subseteq Articles
  /\ evidence \in [Articles -> SUBSET Articles]
  /\ verdict \in [Articles -> SUBSET Articles]
  /\ page \in Columns
  /\ collects \in 0 .. MaxCollects /\ faults \in 0 .. MaxFaults

(* Nothing is left to do. *)
Settled ==
  /\ \A k \in Keys : jobs[k] = NoJobs
  /\ \A w \in Workers : at[w].stage = "idle"

(* PRD.md FR-VERIFY-005: "the system must recalculate the related verdicts *)
(* when official material newly appears".  When all work is done, every    *)
(* claim has a verdict that considered every official article whose claims *)
(* were extracted.  The hazard: the job that would do it was not enqueued  *)
(* because an earlier one, with older documents, was still there.          *)
VerdictsKnowOfficials ==
  Settled => \A o \in Official \cap extracted : \A c \in claims : o \in verdict[c]

(* When all work is done the page shows the articles and verdicts there    *)
(* are, wherever a handler failed between its commits.                     *)
PageIsCurrent == Settled => page = View

(* Every claim gets a verdict. *)
EveryClaimIsJudged == \A c \in Articles : c \in claims ~> verdict[c] # {}
=============================================================================
