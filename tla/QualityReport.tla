--------------------------- MODULE QualityReport ---------------------------
(***************************************************************************)
(* What an issue lacks: build_issue_quality_report of                      *)
(* app/services/issues/quality.py.  What the rows and the page cache of    *)
(* the issue hold is a record c of counts; relevant counts the articles    *)
(* whose text matches the issue (article_quality.py), total all of them.   *)
(* The score of the report decides nothing and is left out.                *)
(***************************************************************************)
EXTENDS Integers

Content == [total : Nat, relevant : Nat, publishers : Nat, official : Nat, claims : Nat,
            evidences : Nat, facts : Nat, perspectives : Nat, timeline : Nat,
            numbers : Nat, changes : Nat, bad : Nat, parsed : Nat]

AllSignals ==
  {"relevanceCoverage", "articleCoverage", "publisherDiversity", "officialCoverage",
   "claimCoverage", "evidenceCoverage", "confirmedFacts", "perspectiveCoverage",
   "timelineCoverage", "numberCoverage", "parseHealth"}

Lacks(c, signal, minArticles, minPublishers, highImpact) ==
  CASE signal = "relevanceCoverage" ->
         c.total > 0 /\ (c.relevant < minArticles
                         \/ (c.total >= minArticles /\ 2 * c.relevant < c.total))
    [] signal = "articleCoverage" -> c.relevant < minArticles
    [] signal = "publisherDiversity" -> c.publishers < minPublishers
    [] signal = "officialCoverage" -> c.official = 0
    [] signal = "claimCoverage" -> c.claims = 0
    [] signal = "evidenceCoverage" -> c.evidences = 0 /\ c.claims > 0
    [] signal = "confirmedFacts" -> c.facts = 0 /\ (c.claims > 0 \/ c.evidences > 0)
    [] signal = "perspectiveCoverage" -> c.perspectives = 0 /\ c.claims > 1
    [] signal = "timelineCoverage" -> c.timeline = 0 /\ highImpact
    [] signal = "numberCoverage" -> c.numbers > 0 /\ c.changes = 0
    [] OTHER -> c.bad > 0 \/ (c.relevant > 0 /\ c.parsed = 0)

Missing(c, minArticles, minPublishers, highImpact) ==
  {s \in AllSignals : Lacks(c, s, minArticles, minPublishers, highImpact)}
=============================================================================
