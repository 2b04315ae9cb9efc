---------------------------- MODULE IssueImages ----------------------------
(***************************************************************************)
(* The picture an issue shows: app/services/images (what a page declares,  *)
(* the candidate rows, their score, the selection) and everything that     *)
(* moves articles and their pictures between issues: collection, parsing   *)
(* and the image job of app/workers/issue_jobs.py, publication, the        *)
(* operator's requests of services/admin/issue_operations.py, and the      *)
(* repair of services/issues/repair.py.                                    *)
(*                                                                         *)
(* A job loads its articles, asks their pages over the network, and writes *)
(* with what it loaded; everything else is one step.  The queue is left    *)
(* out: a job of any stored article or issue may run at any time.  Nobody  *)
(* reads the status of a candidate row, which is left out; equal rows are  *)
(* one.                                                                    *)
(***************************************************************************)
EXTENDS Integers, Sequences, FiniteSets

CONSTANTS Issues, Articles, Pictures,
          Feed,     \* Feed[a]: the pictures that the item of a feed gives article a
          Page,     \* Page[a]: what the page of article a declares
          Official, \* articles of official, public, statistics or law sources
          Trusted,  \* pictures whose address names a public body
          Fits,     \* Fits[p]: the issues with a word of their text in the address of p
          Logos,    \* pictures whose address names a logo, an icon, a blank
          Invalid,  \* addresses that are not http
          ByHand,   \* bound: the pictures that the operator gives
          Workers   \* sessions that execute parse_article and select_representative_image

None == "none"
Uncollected == "uncollected"

ASSUME ImagesAssumption ==
  /\ None \notin Issues \cup Articles \cup Pictures /\ Uncollected \notin Issues
  /\ Feed \in [Articles -> SUBSET Pictures]
  /\ Page \in [Articles -> [meta : SUBSET Pictures, ld : Seq(SUBSET Pictures)]]
  /\ Official \subseteq Articles /\ Fits \in [Pictures -> SUBSET Issues]
  /\ Trusted \cup Logos \cup Invalid \cup ByHand \subseteq Pictures

VARIABLES home,      \* home[a]: issue_id of the article's row
          fetch,     \* fetch[a]: remoteParseEligible, remoteParseAttempted of its notes
          rows,      \* image_candidates; article None: given by the operator
          shown,     \* shown[i]: representative_image_url
          session,   \* what a job has loaded
          repaired,  \* history: issues that lost articles in a repair, since their last selection
          overtaken  \* history: articles that moved while a job held what it had loaded of them

vars == <<home, fetch, rows, shown, session, repaired, overtaken>>

Candidate == [article : Articles \cup {None}, picture : Pictures, issue : Issues \cup {None}]
Rest == [job |-> "none", issue |-> None, articles |-> {}, asks |-> {}]

TypeOK ==
  /\ home \in [Articles -> Issues \cup {None, Uncollected}]
  /\ fetch \in [Articles -> {"no", "eligible", "attempted"}]
  /\ rows \subseteq Candidate /\ \A r \in rows : r.picture \notin Invalid
  /\ shown \in [Issues -> Pictures \cup {None}]
  /\ session \in [Workers -> [job : {"none", "parse", "select"}, issue : Issues \cup {None},
       articles : SUBSET Articles, asks : SUBSET Articles]]
  /\ repaired \subseteq Issues /\ overtaken \subseteq Articles

Init ==
  /\ home = [a \in Articles |-> Uncollected]
  /\ fetch = [a \in Articles |-> "no"]
  /\ rows = {} /\ shown = [i \in Issues |-> None]
  /\ session = [w \in Workers |-> Rest]
  /\ repaired = {} /\ overtaken = {}
-----------------------------------------------------------------------------
(* Candidates. *)
(* Fault for Valid: whatever the page calls a picture is stored. *)
AnyAddress(ps) == ps

(* _is_http_url *)
Valid(ps) == ps \ Invalid

(* extract_image_urls_from_html: meta and link tags; the blocks of JSON-LD   *)
(* are read as one text, which is JSON only if there is one block.          *)
Declared(a) ==
  Valid(Page[a].meta \cup (IF Len(Page[a].ld) = 1 THEN Page[a].ld[1] ELSE {}))

(* upsert_image_candidate of pictures ps of an article: a row that has no   *)
(* issue yet gets i.                                                        *)
Upserted(rs, a, ps, i) ==
  {IF r.article = a /\ r.picture \in ps /\ r.issue = None THEN [r EXCEPT !.issue = i] ELSE r : r \in rs}
  \cup {[article |-> a, picture |-> p, issue |-> i] :
          p \in {q \in Valid(ps) : \A r \in rs : r.article # a \/ r.picture # q}}

Of(rs, S) == {r \in rs : r.article \in S}

(* link_image_candidates_to_issue_with_previous, of the articles S *)
Linked(rs, S, i) == {IF r.article \in S THEN [r EXCEPT !.issue = i] ELSE r : r \in rs}
Previous(rs, S) == {r.issue : r \in Of(rs, S)} \ {None}

(* score_image_candidate in hundredths; no caller gives a picture's size.   *)
Score(r, i) ==
  IF r.picture \in Logos THEN 0
  ELSE 25 + (IF r.article \in Official \/ r.picture \in Trusted THEN 40 ELSE 0)
          + (IF i \in Fits[r.picture] THEN 10 ELSE 0)

Showable(rs, i) == {r \in rs : r.issue = i /\ Score(r, i) >= 35}

(* The first of the best is shown; which one that is, is left open. *)
Best(rs, i) ==
  LET ok == Showable(rs, i)
  IN IF ok = {} THEN {None}
     ELSE {r.picture : r \in {b \in ok : \A o \in ok : Score(o, i) <= Score(b, i)}}

(* select_representative_image for the issues T, in the rows rs. *)
Selects(T, rs) ==
  LET may == [i \in Issues |-> IF i \in T THEN Best(rs, i) ELSE {shown[i]}]
  IN /\ shown' \in [Issues -> UNION {may[i] : i \in Issues}]
     /\ \A i \in Issues : shown'[i] \in may[i]
     /\ repaired' = repaired \ T

(* The articles S get the issue i (or none), their pictures with them or not. *)
Gets(S, i) == home' = [a \in Articles |-> IF a \in S THEN i ELSE home[a]]
HeldElsewhere(S, i) ==
  {a \in S : \E w \in Workers : a \in session'[w].articles /\ session'[w].issue # i}
Moves(S, i) == Gets(S, i) /\ overtaken' = (overtaken \ S) \cup HeldElsewhere(S, i)
MovesBare(S, i) == Gets(S, i) /\ overtaken' = overtaken \cup HeldElsewhere(S, i)

(* Fault for LinksAndSelects: the issue the pictures leave is not looked at. *)
LinksAndSelectsNew(rs, S, i) ==
  /\ rows' = Linked(rs, S, i)
  /\ Selects(IF Of(rs, S) = {} THEN {} ELSE {i}, rows')

(* _link_and_select_article_image_candidates *)
LinksAndSelects(rs, S, i) ==
  /\ rows' = Linked(rs, S, i)
  /\ Selects(IF Of(rs, S) = {} THEN {} ELSE {i} \cup Previous(rs, S), rows')
-----------------------------------------------------------------------------
(* upsert_collected_article_record for the issue i, or for none, and what   *)
(* its callers do next: an article of another issue may be moved.           *)
Stored(a, i) == IF home[a] \in {None, Uncollected} THEN i ELSE home[a]

(* _mark_remote_parse_eligible *)
Eligible(a) == IF Feed[a] = {} /\ fetch[a] # "attempted" THEN "eligible" ELSE fetch[a]

Collect(a, i) ==
  LET first == Stored(a, i)
      rs == Upserted(rows, a, Feed[a], first)
  IN /\ UNCHANGED session
     /\ fetch' = [fetch EXCEPT ![a] = Eligible(a)]
     /\ \/ /\ MovesBare({a}, first)
           /\ rows' = rs /\ Selects({first} \ {None}, rs)
        \/ /\ i \in Issues /\ first # i
           /\ Moves({a}, i)
           /\ LinksAndSelects(rs, {a}, i)

(* parse_article: the article is loaded and its page asked if it carries no *)
(* picture and was not asked before.                                        *)
StartParse(w, a) ==
  /\ session[w] = Rest /\ home[a] # Uncollected
  /\ session' = [session EXCEPT ![w] = [job |-> "parse", issue |-> home[a], articles |-> {a},
       asks |-> IF fetch[a] = "eligible" THEN {a} ELSE {}]]
  /\ UNCHANGED <<home, fetch, rows, shown, repaired, overtaken>>

(* select_representative_image: articles of the issue without a picture.    *)
Bare(i) == {a \in Articles : home[a] = i /\ fetch[a] # "attempted" /\ Of(rows, {a}) = {}}

StartSelect(w, i) ==
  /\ session[w] = Rest
  /\ session' = [session EXCEPT ![w] = [job |-> "select", issue |-> i, articles |-> Bare(i),
       asks |-> Bare(i)]]
  /\ UNCHANGED <<home, fetch, rows, shown, repaired, overtaken>>

(* _hydrate_remote_article_assets of the articles that were asked; those in *)
(* answered gave their page.                                                *)
Hydrated(w, answered) ==
  LET me == session[w]
  IN {r \in rows : r.article \notin answered}
     \cup (UNION {Upserted(Of(rows, {a}), a, Declared(a), me.issue) : a \in answered})

Attempts(w) ==
  fetch' = [a \in Articles |-> IF a \in session[w].asks THEN "attempted" ELSE fetch[a]]

(* detect_or_match_issue finds the issue that was loaded, or one for an     *)
(* article that had none, or none.                                          *)
CommitParse(w, answered) ==
  LET me == session[w]
      rs == Hydrated(w, answered)
  IN /\ me.job = "parse"
     /\ session' = [session EXCEPT ![w] = Rest]
     /\ Attempts(w)
     /\ \/ /\ me.issue = None
           /\ rows' = rs /\ UNCHANGED <<home, shown, repaired, overtaken>>
        \/ /\ me.issue = None
           /\ \E i \in Issues : Moves(me.articles, i) /\ LinksAndSelects(rs, me.articles, i)
        \/ /\ me.issue # None
           /\ LinksAndSelects(rs, me.articles, me.issue) /\ UNCHANGED <<home, overtaken>>

(* Fault for CommitSelect: the pictures are stored, none is selected. *)
CommitSelectNothing(w, answered) ==
  /\ session[w].job = "select"
  /\ session' = [session EXCEPT ![w] = Rest]
  /\ Attempts(w)
  /\ rows' = Hydrated(w, answered)
  /\ UNCHANGED <<home, shown, repaired, overtaken>>

CommitSelect(w, answered) ==
  /\ session[w].job = "select"
  /\ session' = [session EXCEPT ![w] = Rest]
  /\ Attempts(w)
  /\ rows' = Hydrated(w, answered)
  /\ Selects({session[w].issue}, rows')
  /\ UNCHANGED <<home, overtaken>>

(* An exception, or the end of the process: nothing is written. *)
Fault(w) ==
  /\ session[w] # Rest
  /\ session' = [session EXCEPT ![w] = Rest]
  /\ UNCHANGED <<home, fetch, rows, shown, repaired, overtaken>>

(* publish_issue_from_candidate and ensure_issue_candidate: articles of no  *)
(* issue are given one.                                                     *)
Publish(S, i) ==
  /\ S # {} /\ \A a \in S : home[a] = None
  /\ UNCHANGED <<session, fetch>>
  /\ Moves(S, i)
  /\ rows' = Linked(rows, S, i)
  /\ Selects({i} \cup Previous(rows, S), rows')
-----------------------------------------------------------------------------
(* The operator gives a picture. *)
SetByHand(i, p) ==
  /\ p \notin Invalid
  /\ rows' = rows \cup {[article |-> None, picture |-> p, issue |-> i]}
  /\ shown' = [shown EXCEPT ![i] = p]
  /\ UNCHANGED <<home, fetch, session, repaired, overtaken>>

(* merge_issue: the rows of i, and those of its articles wherever they are. *)
Merge(i, j) ==
  LET S == {a \in Articles : home[a] = i}
      rs == {IF r.issue = i THEN [r EXCEPT !.issue = j] ELSE r : r \in rows}
      left == IF \E r \in rows : r.issue = i THEN {i} ELSE {}
  IN /\ UNCHANGED <<session, fetch>>
     /\ Moves(S, j)
     /\ rows' = Linked(rs, S, j)
     /\ Selects({j} \cup left \cup Previous(rs, S), rows')

(* split_article_to_issue *)
Split(a, i) ==
  /\ home[a] # Uncollected
  /\ UNCHANGED <<session, fetch>>
  /\ Moves({a}, i)
  /\ rows' = Linked(rows, {a}, i)
  /\ Selects({i} \cup Previous(rows, {a}), rows')

(* _detach_contaminated_articles: nothing is selected for the issues that   *)
(* lose an article.                                                         *)
Repair(S) ==
  /\ S # {} /\ \A a \in S : home[a] \in Issues
  /\ UNCHANGED <<session, fetch, shown>>
  /\ MovesBare(S, None)
  /\ rows' = {IF r.article \in S /\ r.issue = home[r.article] THEN [r EXCEPT !.issue = None] ELSE r :
                r \in rows}
  /\ repaired' = repaired \cup {home[a] : a \in S}
-----------------------------------------------------------------------------
Next ==
  \/ \E a \in Articles : \E i \in Issues \cup {None} : Collect(a, i)
  \/ \E w \in Workers :
       \/ \E a \in Articles : StartParse(w, a)
       \/ \E i \in Issues : StartSelect(w, i)
       \/ \E answered \in SUBSET session[w].asks : CommitParse(w, answered) \/ CommitSelect(w, answered)
       \/ Fault(w)
  \/ \E i \in Issues :
       \/ \E S \in SUBSET Articles : Publish(S, i)
       \/ \E p \in ByHand : SetByHand(i, p)
       \/ \E j \in Issues : Merge(i, j)
       \/ \E a \in Articles : Split(a, i)
  \/ \E S \in SUBSET Articles : Repair(S)

Spec == Init /\ [][Next]_vars
-----------------------------------------------------------------------------
(* An issue shows a picture of its own articles, or one that the operator   *)
(* gave to it or to an issue merged into it.  Two orders of steps break     *)
(* that, and no other: a repair, which selects nothing, and a move of the   *)
(* article while a job that had loaded it was asking for its page.          *)
OwnPicture == \A i \in Issues : shown[i] # None =>
  \/ i \in repaired
  \/ \E r \in rows : /\ r.picture = shown[i] /\ r.issue = i
                     /\ r.article # None => home[r.article] = i \/ r.article \in overtaken

(* An issue that holds a picture good enough to be shown shows one, in      *)
(* whatever order pictures are found, moved, merged and detached.           *)
ShowsWhatItHas == \A i \in Issues : Showable(rows, i) # {} => shown[i] # None
=============================================================================
