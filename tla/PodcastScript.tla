--------------------------- MODULE PodcastScript ---------------------------
(***************************************************************************)
(* The script of an episode, from its sources and OpenAI's answers, or from *)
(* the template when no answer will do: _build_episode and                 *)
(* _build_daily_episode of app/services/podcasts/generator.py, and the      *)
(* calls of script_ai.py.                                                  *)
(*                                                                         *)
(* A source is [id, url, official, credibility]; an issue is [id, sources, *)
(* facts, clusters], the last two being the number of lines its page has.  *)
(* A row of an answer is [text, issue, cites, speaker, named, struck]:     *)
(* named counts the phrase 에 따르면 ("according to") in its text, struck    *)
(* how many of them _sanitize_script_text takes out again, because they    *)
(* stand between two risky words of an accusation.  A script is a sequence *)
(* of segments [speaker, refs, named, about, flagged].  What is said is    *)
(* left out, but for who says it, what it cites, and whether it names a    *)
(* source.  The names of the sources hold no risky word.                   *)
(***************************************************************************)
EXTENDS PodcastGate, Sequences
LOCAL INSTANCE SequencesExt
LOCAL INSTANCE FiniteSetsExt

Upto(rows, n) == SubSeq(rows, 1, Min({n, Len(rows)}))
SourceIds(sources) == {sources[k].id : k \in DOMAIN sources}
-----------------------------------------------------------------------------
(* Sources. *)
FirstPerUrl(rows) ==
  FoldLeft(LAMBDA kept, r :
    IF r.url = "" \/ \E k \in DOMAIN kept : kept[k].url = r.url THEN kept ELSE Append(kept, r),
    <<>>, rows)

(* The page's documents, or its evidence, or its articles. *)
SourceRows(documents, evidences, articles) ==
  Upto(FirstPerUrl(CASE documents # <<>> -> documents [] evidences # <<>> -> evidences
                     [] OTHER -> articles), 6)

MergeSources(groups) == Upto(FirstPerUrl(FlattenSeq(groups)), 12)

(* Sources of the issue that another issue brought are that issue's rows. *)
Renamed(sources, merged) ==
  LET at(s) == {k \in DOMAIN merged : merged[k].url = s.url}
      there == SelectSeq(sources, LAMBDA s : at(s) # {})
  IN [k \in DOMAIN there |-> merged[CHOOSE m \in at(there[k]) : TRUE]]

(* The ids of the first n: official ones (if preferred), then by credibility. *)
SourceRefs(sources, n, preferOfficial) ==
  LET class(k) == IF preferOfficial /\ sources[k].official THEN 0 ELSE 1
      before(j, k) ==
        \/ class(j) < class(k)
        \/ /\ class(j) = class(k)
           /\ \/ sources[j].credibility > sources[k].credibility
              \/ sources[j].credibility = sources[k].credibility /\ j < k
  IN {sources[k].id : k \in {m \in DOMAIN sources :
        Cardinality({j \in DOMAIN sources : before(j, m)}) < n}}

(* What a row of an answer cites, if the episode has it. *)
RowRefs(cites, sources) ==
  LET known == SelectSeq(cites, LAMBDA c : c \in SourceIds(sources))
  IN IF known = <<>> THEN SourceRefs(sources, 3, TRUE) ELSE ToSet(Upto(known, 4))
-----------------------------------------------------------------------------
(* Hosts: the first n of the topic's three. *)
Voices == <<"anchor", "analyst", "reporter">>
Hosts(format) == Upto(Voices, CASE format = "solo" -> 1 [] format = "panel_2" -> 2 [] OTHER -> 3)
Voice(hosts, k) == hosts[Min({k, Len(hosts)})]
-----------------------------------------------------------------------------
(* OpenAI.  What a call is given, by ids. *)
Prompt(hosts, sources, issues) ==
  [hosts |-> ToSet(hosts), sources |-> SourceIds(sources), issues |-> {i.id : i \in issues}]

(* The schema of the answer; how many rows it has is left out. *)
Conforms(row, prompt) ==
  /\ row.speaker \in prompt.hosts /\ row.issue \in prompt.issues
  /\ prompt.sources # {} => ToSet(row.cites) \subseteq prompt.sources

(* A call is [ends, rows]: it ends with the rows of a script, with something *)
(* that is no script ("broken"), or raises.  The schema is strict.          *)
Answered(calls, k, prompt) ==
  /\ k \in DOMAIN calls /\ calls[k].ends \in {"script", "broken"}
  /\ k = 1 => \A r \in DOMAIN calls[1].rows : Conforms(calls[1].rows[r], prompt)

(* The answer to one attempt: if the schema is refused, plain JSON is asked *)
(* for, and nothing in particular if the library knows no such format.      *)
Chat(calls, prompt) ==
  LET asked == IF Answered(calls, 1, prompt) THEN 1
               ELSE IF calls[2].ends = "type_error" THEN 3 ELSE 2
  IN IF Answered(calls, asked, prompt) THEN calls[asked]
     ELSE [ends |-> "broken", rows |-> <<>>]

(* about: the issues it was meant to name a source for; flagged: it said     *)
(* what _sanitize_script_text rewrote together with a source's name.        *)
Segment(speaker, refs, named, about) ==
  [speaker |-> speaker, refs |-> refs, named |-> named, about |-> about, flagged |-> FALSE]

(* Attributions are counted before the text is sanitized. *)
Sanitized(segment, struck) == [segment EXCEPT !.named = @ - struck, !.flagged = struck > 0]

(* One row: an issue that is owed its attribution gets it appended. *)
ReadRow(read, row, hosts, sources, issues) ==
  LET required == {i.id : i \in issues}
      owed == row.issue \in required \ read.told /\ row.named = 0 /\ row.cites # <<>>
      named == IF owed THEN 1 ELSE row.named
      told == {i.id : i \in {j \in issues :
                 j.id = row.issue \/ ToSet(row.cites) \cap SourceIds(j.sources) # {}}}
      speaker == IF row.speaker \in ToSet(hosts) THEN row.speaker
                 ELSE hosts[(Len(read.segments) % Len(hosts)) + 1]
  IN IF row.text = "" THEN read
     ELSE [segments |-> Append(read.segments, Sanitized(
             Segment(speaker, RowRefs(row.cites, sources), named, IF named > 0 THEN told ELSE {}),
             row.struck)),
           told |-> IF named > 0 THEN read.told \cup told ELSE read.told,
           named |-> read.named + named]


Accepts(read, hosts, sources, issues) ==
  /\ Len(hosts) >= 2 => Cardinality({read.segments[k].speaker : k \in DOMAIN read.segments}) >= 2
  /\ sources # <<>> => read.named >= Max({1, Cardinality(issues)})
  /\ read.told = {i.id : i \in issues}

(* <<>>: the answer is no script, or does not pass. *)
Normalized(answer, hosts, sources, issues) ==
  IF answer.ends = "broken" THEN <<>>
  ELSE LET read == FoldLeft(LAMBDA r, row : ReadRow(r, row, hosts, sources, issues),
                            [segments |-> <<>>, told |-> {}, named |-> 0], answer.rows)
       IN IF Accepts(read, hosts, sources, issues) THEN read.segments ELSE <<>>
-----------------------------------------------------------------------------
(* The templates. *)
Repeat(n, segment) == [k \in 1..n |-> segment]

IssueTemplate(issue, hosts, variant) ==
  LET context == SourceRefs(issue.sources, 2, FALSE)
      evidence == SourceRefs(issue.sources, 3, TRUE)
      lines(n, most) == Min({n, 3, most})
      facts == lines(issue.facts, CASE variant = "short" -> 2 [] variant = "deep" -> 5 [] OTHER -> 3)
      clusters == lines(issue.clusters, CASE variant = "short" -> 1 [] variant = "deep" -> 5 [] OTHER -> 3)
      summary(k, refs) == Segment(Voice(hosts, k), refs, 1, {issue.id})
      line(k, refs) == Segment(Voice(hosts, k), refs, 0, {})
  IN (IF Len(hosts) = 1 THEN <<summary(1, context)>>
      ELSE <<line(1, context), summary(2, evidence)>>)
     \o Repeat(facts, line(2, evidence)) \o Repeat(clusters, line(3, evidence))
     \o (IF variant = "deep" THEN <<line(2, evidence)>> ELSE <<>>)
     \o <<line(3, SourceRefs(issue.sources, 6, FALSE)), line(1, evidence)>>

DailyIssueLimit(variant) == CASE variant = "short" -> 3 [] variant = "deep" -> 6 [] OTHER -> 4

(* One issue of the daily episode: asked, answered, followed up. *)
Exchange(issue, k, hosts, sources, variant) ==
  LET own == SourceRefs(issue.sources, 3, TRUE)
      refs == IF own = {} THEN SourceRefs(sources, 4, TRUE) ELSE own
      answerer == IF k % 2 = 1 THEN 2 ELSE 3
  IN <<Segment(Voice(hosts, 1), refs, 0, {}),
       Segment(Voice(hosts, answerer), refs, 1, {issue.id}),
       Segment(Voice(hosts, 5 - answerer), refs, 0, {})>>
     \o (IF variant = "deep" /\ issue.clusters > 0
           THEN <<Segment(Voice(hosts, 3), refs, 0, {})>> ELSE <<>>)

DailyTemplate(issues, hosts, sources, variant) ==
  LET told == Upto(issues, DailyIssueLimit(variant))
      line(k, refs) == Segment(Voice(hosts, k), refs, 0, {})
      opening == SourceRefs(sources, 4, FALSE)
  IN <<line(1, opening), line(2, opening)>>
     \o FlattenSeq([k \in DOMAIN told |-> Exchange(told[k], k, hosts, sources, variant)])
     \o <<line(3, SourceRefs(sources, 8, FALSE)), line(1, SourceRefs(sources, 4, TRUE))>>
-----------------------------------------------------------------------------
(* An episode's [script, sources, hosts, told]: the first of two answers    *)
(* that passes, or the template; without a key there is no call.            *)
FirstPassing(attempts, hosts, sources, issues, template) ==
  LET prompt == Prompt(hosts, sources, issues)
      scripts == [k \in DOMAIN attempts |->
                    Normalized(Chat(attempts[k], prompt), hosts, sources, issues)]
      passing == SelectSeq(scripts, LAMBDA s : s # <<>>)
  IN IF passing = <<>> THEN template ELSE passing[1]

IssueEpisode(issue, format, variant, attempts) ==
  LET hosts == Hosts(format)
  IN [sources |-> issue.sources, hosts |-> hosts, told |-> {issue.id},
      script |-> FirstPassing(attempts, hosts, issue.sources, {issue},
                              IssueTemplate(issue, hosts, variant))]

DailyEpisode(issues, variant, attempts) ==
  LET sources == MergeSources([k \in DOMAIN issues |-> issues[k].sources])
      own == [k \in DOMAIN issues |-> [issues[k] EXCEPT !.sources = Renamed(@, sources)]]
      told == Upto(own, DailyIssueLimit(variant))
  IN [sources |-> sources, hosts |-> Voices, told |-> {told[k].id : k \in DOMAIN told},
      script |-> FirstPassing(attempts, Voices, sources, ToSet(told),
                              DailyTemplate(own, Voices, sources, variant))]
-----------------------------------------------------------------------------
(* What an episode must be to be heard: every segment is spoken by one of   *)
(* its hosts and cites its sources, and only them; a panel has two voices;   *)
(* each issue it tells has a segment that names a source, or one whose       *)
(* expressions the gate is told of.                                         *)
WellTold(e) ==
  LET of(k) == e.script[k]
      rows == DOMAIN e.script
  IN /\ \A k \in rows : /\ of(k).speaker \in ToSet(e.hosts)
                        /\ of(k).refs # {} /\ of(k).refs \subseteq SourceIds(e.sources)
     /\ Len(e.hosts) > 1 => \E j, k \in rows : of(j).speaker # of(k).speaker
     /\ \A i \in e.told : \E k \in rows : i \in of(k).about /\ (of(k).named > 0 \/ of(k).flagged)

(* What the gate is told of the episode: its words are risky where they were *)
(* rewritten, and may be elsewhere; what its topics are is not modelled.     *)
EvidenceOf(e, sensitive, risky) ==
  [sources |-> Len(e.sources), official |-> \E k \in DOMAIN e.sources : e.sources[k].official,
   sensitive |-> sensitive, script |-> e.script # <<>>, told |-> WellTold(e),
   risky |-> risky \/ \E k \in DOMAIN e.script : e.script[k].flagged]
=============================================================================
