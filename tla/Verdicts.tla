------------------------------ MODULE Verdicts ------------------------------
(***************************************************************************)
(* The claims of one issue and the sessions that judge them at the same     *)
(* time: verify_claim jobs of a worker, an operator's recheck of a claim or *)
(* of the issue, the threads of manual checks, the background tasks of      *)
(* verification requests and submitted claims.  Each is one transaction,    *)
(* READ COMMITTED, that for each of its claims reads the evidence, asks the *)
(* analysis service, flushes (the row of the claim is locked from there),   *)
(* and commits at its end.  An UPDATE writes the columns that differ from   *)
(* what the session loaded.  A check and a request are about one article,   *)
(* which has at most one claim.  Two sessions that create the same claim    *)
(* follow each other.  ClaimPipeline is about the jobs and the page.        *)
(***************************************************************************)
EXTENDS VerdictRules, FiniteSets, Sequences

CONSTANTS Claims, Articles, Registry,  \* Registry: the sources the fallback takes
          Profile,     \* Profile[c]: type, needs, own (its article or NoArticle), risky
          Fact,        \* Fact[d]: kind, credibility, says
          NoArticle, NoClaim,
          Checks,      \* manual checks: each has its thread
          Posts,       \* verification requests: each has its background task
          Staff,       \* sessions of workers and operators
          Relevances,  \* the scores the service gives
          Answers,     \* the verdicts the service gives
          MaxOpened,   \* bound: sessions, and reports resolved
          MaxFaults    \* bound: exceptions and exits

ASSUME VerdictAssumption ==
  /\ NoArticle \notin Articles /\ NoClaim \notin Claims /\ IsFiniteSet(Checks)
  /\ Answers \subseteq AllowedVerdicts
  /\ Profile \in [Claims -> [type : {"label", "legal", "other"}, needs : SUBSET STRING,
                             own : Articles \cup {NoArticle}, risky : BOOLEAN]]
  /\ Articles \cap Registry = {} /\ Relevances \subseteq 0 .. 100
  /\ \A d \in Articles \cup Registry :
       Fact[d].kind \in STRING /\ Fact[d].says \subseteq STRING /\ Fact[d].credibility \in 0 .. 100
  /\ MaxOpened \in Nat /\ MaxFaults \in Nat

Sessions == Checks \cup Posts \cup Staff

VARIABLES claim,     \* claim[c]: its row
          evidence,  \* evidence[c]: its rows
          history,   \* history[c]: the verdicts of its verdict_histories rows, oldest first
          attached,  \* the articles of the issue
          request,   \* request[r]: status of a check or a request
          session,   \* what a session has read and not yet committed
          task,      \* task[r]: its thread or background task
          opened, faults

vars == <<claim, evidence, history, attached, request, task, session, opened, faults>>

Absent == [verdict |-> Insufficient, status |-> "absent", noted |-> FALSE]

(* create_claim_from_text.  noted: the service has judged it (ai_notes). *)
Created(c) ==
  [verdict |-> Insufficient, noted |-> FALSE,
   status |-> IF Profile[c].risky THEN NeedsReview ELSE NeedsEvidence]

Closed == [at |-> "closed", kind |-> "none", todo |-> {}, done |-> {}, new |-> {},
           known |-> [c \in Claims |-> Absent], judged |-> [c \in Claims |-> Absent],
           found |-> [c \in Claims |-> {}], claim |-> NoClaim, seen |-> {}, docs |-> {}]

Init ==
  /\ claim = [c \in Claims |-> Absent]
  /\ evidence = [c \in Claims |-> {}] /\ history = [c \in Claims |-> <<>>]
  /\ attached = {}
  /\ request = [r \in Checks \cup Posts |-> "none"]
  /\ task = [r \in Checks \cup Posts |-> "none"]
  /\ session = [s \in Sessions |-> Closed]
  /\ opened = 0 /\ faults = 0

(* The bound on sessions keeps room for the checks that were accepted. *)
Room == opened + Cardinality({r \in Checks : task[r] = "due"}) < MaxOpened

-----------------------------------------------------------------------------
Exists(c) == claim[c].status # "absent"
Locks(s, c) == session[s].at # "closed" /\ c \in session[s].done
Locked(c) == \E s \in Sessions : Locks(s, c)
InTheMaking(c) == \E s \in Sessions : c \in session[s].new

(* The session begins and loads the rows of its claims; those of them that  *)
(* do not exist it creates.                                                 *)
Opens(s, kind, todo) ==
  session' = [session EXCEPT ![s] =
    [Closed EXCEPT !.at = "open", !.kind = kind, !.todo = todo,
       !.new = {c \in todo : ~Exists(c)},
       !.known = [c \in Claims |-> IF c \notin todo THEN Absent
                                   ELSE IF Exists(c) THEN claim[c] ELSE Created(c)]]]

(* A verify_claim job, or POST /admin/claims/{id}/reverify. *)
OpenOne(s) ==
  /\ session[s].at = "closed" /\ Room
  /\ \E c \in Claims : Exists(c) /\ Opens(s, "one", {c})
  /\ opened' = opened + 1
  /\ UNCHANGED <<claim, evidence, history, attached, request, task, faults>>

(* POST /admin/issues/{id}/reverify, while the service is enabled. *)
OpenIssue(s) ==
  /\ session[s].at = "closed" /\ Room
  /\ Opens(s, "issue", {c \in Claims : Exists(c)})
  /\ opened' = opened + 1
  /\ UNCHANGED <<claim, evidence, history, attached, request, task, faults>>

(* The article matches no issue or has no claim, or it has the claim c.     *)
Extracted(todo) ==
  \/ todo = {}
  \/ \E c \in Claims : todo = {c} /\ Profile[c].own # NoArticle /\ ~InTheMaking(c)

Becomes(r, status, next) ==
  /\ request' = [request EXCEPT ![r] = status]
  /\ task' = [task EXCEPT ![r] = next]

Post(r) ==
  /\ request[r] = "none" /\ Room
  /\ Becomes(r, "queued", "due")
  /\ UNCHANGED <<claim, evidence, history, attached, session, opened, faults>>

(* create_manual_check refuses what it cannot read. *)
Reject(r) ==
  /\ request[r] = "none" /\ r \in Checks
  /\ Becomes(r, "rejected", "none")
  /\ UNCHANGED <<claim, evidence, history, attached, session, opened, faults>>

(* The user cancels (what has ended can be cancelled too, to no effect here). *)
Cancel(r) ==
  /\ request[r] \in {"queued", "running"}
  /\ Becomes(r, "cancelled", task[r])
  /\ UNCHANGED <<claim, evidence, history, attached, session, opened, faults>>

(* process_manual_check_request: one transaction for the status, one for    *)
(* the rest.  It leaves a request that was cancelled by then.               *)
StartCheck(r) ==
  /\ r \in Checks /\ task[r] = "due" /\ opened' = opened + 1
  /\ \/ /\ request[r] = "cancelled" /\ Becomes(r, "cancelled", "done")
        /\ UNCHANGED session
     \/ /\ request[r] # "cancelled" /\ Becomes(r, "running", "running")
        /\ \E todo \in SUBSET Claims : Extracted(todo) /\ Opens(r, "check", todo)
  /\ UNCHANGED <<claim, evidence, history, attached, faults>>

(* process_verification_request does not ask whether it was cancelled.      *)
(* Without keys, or with processing off, it leaves the status as it is.     *)
StartPost(r) ==
  /\ r \in Posts /\ task[r] = "due"
  /\ Room /\ opened' = opened + 1
  /\ \/ Becomes(r, request[r], "done") /\ UNCHANGED session
     \/ /\ Becomes(r, request[r], "running")
        /\ \E todo \in SUBSET Claims : Extracted(todo) /\ Opens(r, "post", todo)
  /\ UNCHANGED <<claim, evidence, history, attached, faults>>

(* process_submitted_claim, and extract_claims of a worker: the claim is    *)
(* stored, and judged by somebody else or nobody.                           *)
Create(c) ==
  /\ ~Exists(c) /\ ~InTheMaking(c)
  /\ claim' = [claim EXCEPT ![c] = Created(c)]
  /\ attached' = attached \cup ({Profile[c].own} \ {NoArticle})
  /\ UNCHANGED <<evidence, history, request, task, session, opened, faults>>

(* resolve_report sets the first claim of the issue that the database finds. *)
ResolveReport(c) ==
  /\ Exists(c) /\ ~Locked(c) /\ claim[c].status # NeedsReview
  /\ Room /\ opened' = opened + 1
  /\ claim' = [claim EXCEPT ![c].status = NeedsReview]
  /\ UNCHANGED <<evidence, history, attached, request, task, session, faults>>

(* A worker attaches an article to the issue. *)
Attach(a) ==
  /\ a \notin attached
  /\ attached' = attached \cup {a}
  /\ UNCHANGED <<claim, evidence, history, request, task, session, opened, faults>>

-----------------------------------------------------------------------------
(* retrieve_evidence_for_claim reads the rows and the documents. *)
Ask(s) ==
  /\ session[s].at = "open"
  /\ \E c \in session[s].todo \ session[s].done :
       session' = [session EXCEPT ![s] = [@ EXCEPT
         !.at = "asked", !.claim = c, !.seen = evidence[c],
         !.docs = attached \cup ({Profile[n].own : n \in session[s].new} \ {NoArticle})]]
  /\ UNCHANGED <<claim, evidence, history, attached, request, task, opened, faults>>

(* The rows it adds: what the service chose among the articles, or else the *)
(* registry and the claim's own article; never a document that has a row.   *)
Additions(s, chosen, relevance) ==
  LET v     == session[s]
      taken == {e.doc : e \in v.seen}
      rows  == {ChosenRow(d, Fact[d], relevance) : d \in chosen \ taken}
      own   == {Profile[v.claim].own} \ {NoArticle}
  IN IF rows # {} THEN rows
     ELSE {RegistryRow(d, Fact[d]) : d \in Registry \ taken}
            \cup {OwnRow(d, Fact[d]) : d \in own \ taken}

(* Fault for Judgement: an answer outside the list is taken as it is. *)
JudgementUnchecked(s, answer, rows) ==
  [verdict |-> answer, status |-> StatusOf(answer), noted |-> TRUE]

(* The service's verdict if it is one of the list, else that of the rules. *)
Judgement(s, answer, rows) ==
  LET v == session[s]
      verdict == IF answer \in AllowedVerdicts THEN answer
                 ELSE RuleVerdict(Profile[v.claim], v.seen \cup rows)
  IN [verdict |-> verdict, status |-> StatusOf(verdict),
      noted |-> v.known[v.claim].noted \/ answer \in AllowedVerdicts]

(* verify_claim to its flush, which waits for the row of the claim. *)
Judge(s) ==
  LET v == session[s] IN
  /\ v.at = "asked" /\ ~Locked(v.claim)
  /\ \E chosen \in SUBSET v.docs, relevance \in Relevances, answer \in Answers \cup {"other"} :
       LET rows == Additions(s, chosen, relevance) IN
       session' = [session EXCEPT ![s] = [v EXCEPT
         !.at = "open", !.claim = NoClaim, !.seen = {}, !.docs = {},
         !.done = v.done \cup {v.claim},
         !.judged[v.claim] = Judgement(s, answer, rows),
         !.found[v.claim] = rows]]
  /\ UNCHANGED <<claim, evidence, history, attached, request, task, opened, faults>>

(* Fault for Column: every column is written. *)
ColumnAlways(old, loaded, new) == new

Column(old, loaded, new) == IF new = loaded THEN old ELSE new

Row(c, s) ==
  LET old == IF Exists(c) THEN claim[c] ELSE session[s].known[c]
      loaded == session[s].known[c]
      new == session[s].judged[c]
  IN [verdict |-> Column(old.verdict, loaded.verdict, new.verdict),
      status |-> Column(old.status, loaded.status, new.status),
      noted |-> Column(old.noted, loaded.noted, new.noted)]

Changed(c, s) == session[s].judged[c].verdict # session[s].known[c].verdict

(* Fault for Stored: a document another session has stored meanwhile is     *)
(* left out.                                                                *)
StoredOnce(c, s) ==
  {e \in session[s].found[c] : \A f \in evidence[c] : f.doc # e.doc}

Stored(c, s) == session[s].found[c]

(* The transaction becomes visible: verdicts, evidence, history, new claims *)
(* that nobody judged yet, extra rows for the claim being judged.           *)
Applies(s, extra) ==
  LET v == session[s] IN
  /\ claim' = [c \in Claims |-> IF c \in v.done THEN Row(c, s)
                                ELSE IF c \in v.new THEN v.known[c] ELSE claim[c]]
  /\ evidence' = [c \in Claims |-> evidence[c] \cup
                    (IF c \in v.done THEN Stored(c, s) ELSE IF c = v.claim THEN extra ELSE {})]
  /\ history' = [c \in Claims |-> IF c \in v.done /\ Changed(c, s)
                                  THEN Append(history[c], v.judged[c].verdict) ELSE history[c]]
  /\ attached' = attached \cup ({Profile[c].own : c \in v.new} \ {NoArticle})

Closes(s) == session' = [session EXCEPT ![s] = Closed]

(* The task of a check or request has ended and leaves it this status. *)
Ends(s, status) ==
  IF s \in Staff THEN UNCHANGED <<request, task>> ELSE Becomes(s, status, "done")

Commit(s) ==
  /\ session[s].at = "open" /\ session[s].todo = session[s].done
  /\ Applies(s, {}) /\ Closes(s) /\ Ends(s, "completed")
  /\ UNCHANGED <<opened, faults>>

(* Fault for StatusAfterError: the check is left as it was. *)
StatusAfterErrorSilent(s) == IF s \in Staff THEN "none" ELSE request[s]

(* A manual check says that it failed; a request is left as it was. *)
StatusAfterError(s) ==
  IF s \in Checks THEN "needs_review" ELSE IF s \in Posts THEN request[s] ELSE "none"

RollBack(s) ==
  /\ Closes(s) /\ Ends(s, StatusAfterError(s))
  /\ UNCHANGED <<claim, evidence, history, attached>>

(* The tasks of app/services/ai/pipeline.py commit in their exception       *)
(* handler without a rollback: what was flushed stays, and maybe the        *)
(* evidence of the claim for which the service's answer was unusable.       *)
Keep(s) ==
  /\ \/ Applies(s, {})
     \/ /\ session[s].at = "asked"
        /\ \E chosen \in SUBSET session[s].docs, relevance \in Relevances :
             Applies(s, Additions(s, chosen, relevance))
  /\ Closes(s) /\ Ends(s, StatusAfterError(s))

Fail(s) ==
  /\ session[s].at # "closed" /\ faults < MaxFaults
  /\ faults' = faults + 1
  /\ IF session[s].kind \in {"post", "issue"} THEN Keep(s) ELSE RollBack(s)
  /\ UNCHANGED opened

(* Sessions that wait for each other's rows: the database ends one of them. *)
Waits(s, o) == session[s].at = "asked" /\ s # o /\ Locks(o, session[s].claim)
Deadlocked(s) ==
  \E ring \in SUBSET Sessions : s \in ring /\ \A x \in ring : \E y \in ring : Waits(x, y)

Victim(s) == Deadlocked(s) /\ RollBack(s) /\ UNCHANGED <<opened, faults>>

(* The server's process exits: its threads and tasks are gone. *)
Exit ==
  /\ faults < MaxFaults /\ faults' = faults + 1
  /\ \E r \in Checks \cup Posts : task[r] \in {"due", "running"}
  /\ session' = [s \in Sessions |-> IF s \in Staff THEN session[s] ELSE Closed]
  /\ task' = [r \in Checks \cup Posts |->
               IF task[r] \in {"due", "running"} THEN "killed" ELSE task[r]]
  /\ UNCHANGED <<claim, evidence, history, attached, request, opened>>

-----------------------------------------------------------------------------
Work(s) == Ask(s) \/ Judge(s) \/ Commit(s) \/ Victim(s)

Next ==
  \/ \E r \in Checks \cup Posts :
       Post(r) \/ Reject(r) \/ Cancel(r) \/ StartCheck(r) \/ StartPost(r)
  \/ \E s \in Staff : OpenOne(s) \/ OpenIssue(s)
  \/ \E s \in Sessions : Work(s) \/ Fail(s)
  \/ \E c \in Claims : Create(c) \/ ResolveReport(c)
  \/ \E a \in Articles : Attach(a)
  \/ Exit

Spec == Init /\ [][Next]_vars

(* Threads run, the service answers or times out, the database grants a     *)
(* row that is free and breaks deadlocks.                                   *)
Fairness ==
  /\ \A r \in Checks : WF_vars(StartCheck(r))
  /\ \A s \in Sessions : WF_vars(Work(s))

FairSpec == Spec /\ Fairness

-----------------------------------------------------------------------------
Names == AllowedVerdicts
RowType == [verdict : Names, status : {"absent", Verified, NeedsEvidence, NeedsReview},
            noted : BOOLEAN]
EvidenceType ==
  [doc : Articles \cup Registry, kind : STRING, says : SUBSET STRING,
   credibility : 0 .. 100, relevance : 0 .. 100]

TypeOK ==
  /\ claim \in [Claims -> RowType]
  /\ \A c \in Claims : evidence[c] \subseteq EvidenceType /\ history[c] \in Seq(Names)
  /\ attached \subseteq Articles
  /\ request \in [Checks \cup Posts ->
       {"none", "queued", "running", "completed", "needs_review", "cancelled", "rejected"}]
  /\ task \in [Checks \cup Posts -> {"none", "due", "running", "done", "killed"}]
  /\ \A s \in Sessions :
       LET v == session[s] IN
       /\ v.at \in {"closed", "open", "asked"}
       /\ v.todo \subseteq Claims /\ v.done \subseteq v.todo /\ v.new \subseteq v.todo
       /\ v.known \in [Claims -> RowType] /\ v.judged \in [Claims -> RowType]
       /\ \A c \in Claims : v.found[c] \subseteq EvidenceType
       /\ v.claim \in Claims \cup {NoClaim}
       /\ v.seen \subseteq EvidenceType /\ v.docs \subseteq Articles
  /\ opened \in 0 .. MaxOpened /\ faults \in 0 .. MaxFaults

(* A claim that the rules alone called confirmed rests on evidence that is   *)
(* stored and that anybody can look up: an official document, the values it  *)
(* needs, a rank that is high enough (rules.py:44-45), whatever other        *)
(* sessions stored or judged meanwhile and wherever one broke off.           *)
ConfirmedIsSupported ==
  \A c \in Claims : claim[c].verdict = MostlyTrue /\ ~claim[c].noted
                     => Supports(Profile[c], evidence[c])

(* A verdict never changes without a new row of its history that says what   *)
(* it became (verifier.py:82-93), though two sessions judged the claim from  *)
(* the same old verdict.                                                     *)
ChangesAreRecorded ==
  [][\A c \in Claims : claim'[c].verdict # claim[c].verdict =>
       /\ Len(history'[c]) > Len(history[c])
       /\ history'[c][Len(history'[c])] = claim'[c].verdict]_vars

(* A manual check that was accepted ends, with a result or for review, even  *)
(* if its transaction was the one a deadlock cost; only the exit of the      *)
(* process leaves it as it is.                                               *)
ChecksEnd ==
  \A r \in Checks : request[r] \in {"queued", "running"} ~>
    request[r] \in {"completed", "needs_review", "cancelled"} \/ task[r] = "killed"
=============================================================================
