----------------------------- MODULE MCPodcast -----------------------------
(* Instances of Podcast: what the gate is shown is what the scripts of     *)
(* PodcastScript come to, for short answers about two issues.              *)
EXTENDS Podcast, PodcastScript, SequencesExt
CONSTANTS i1, i2, s1, s2
Defaults == [minSources |-> 1, minScore |-> 70, requireOfficial |-> TRUE]

Paper == [id |-> "n", url |-> "u1", official |-> FALSE, credibility |-> 9]
Ministry == [id |-> "m", url |-> "u2", official |-> TRUE, credibility |-> 5]
Reprint == [id |-> "r", url |-> "u2", official |-> TRUE, credibility |-> 5]
NoUrl == [id |-> "x", url |-> "", official |-> TRUE, credibility |-> 5]

Page(i, documents, articles) ==
  [id |-> i, sources |-> SourceRows(documents, <<>>, articles), facts |-> 1, clusters |-> 1]
First == {Page(i1, d, <<NoUrl>>) : d \in {<<>>, <<Paper, Ministry, Reprint>>}}
Second == {Page(i2, <<>>, a) : a \in {<<NoUrl>>, <<Reprint, NoUrl>>}}

(* An answer: one row, or two; two cite and two do not; one names a source   *)
(* and loses it.                                                            *)
Names == {<<0, 0>>, <<1, 0>>, <<1, 1>>}
Rows == {[text |-> "t", issue |-> i, cites |-> c, speaker |-> v, named |-> n[1], struck |-> n[2]] :
           i \in {i1, i2}, c \in {<<>>, <<"n">>, <<"z", "m">>, <<"z">>},
           v \in {"anchor", "nobody"}, n \in Names}
        \cup {[text |-> "", issue |-> i1, cites |-> <<"n">>, speaker |-> "anchor",
               named |-> 0, struck |-> 0]}
Ends(how) == [ends |-> how, rows |-> <<>>]
Script(rows) == [ends |-> "script", rows |-> rows]
Attempts ==
  {<<>>, <<<<Ends("error"), Ends("error")>>>>, <<<<Ends("error"), Ends("broken")>>>>}
  \cup {<<<<Script(rows), Script(rows)>>>> : rows \in {<<a>> : a \in Rows} \cup {<<a, b>> : a, b \in Rows}}
  \cup {<<<<Ends("broken")>>, <<Ends("error"), Ends("type_error"), Script(<<a>>)>>>> : a \in Rows}

OfIssues == UNION {{IssueEpisode(i, f, v, a) : i \in First, a \in Attempts} :
                     f \in {"solo", "panel_2"}, v \in {"deep"}}
OfDays == {DailyEpisode(<<i, j>>, "standard", a) : i \in First, j \in Second, a \in Attempts}
Written == {EvidenceOf(e, TRUE, r) : e \in OfIssues \cup OfDays, r \in BOOLEAN}
=============================================================================
