---------------------------- MODULE VerdictRules ----------------------------
(***************************************************************************)
(* The verdict that follows from evidence when no analysis service judges:  *)
(* verdict_from_evidence of services/verification/rules.py, rank_evidence   *)
(* of services/evidence/ranker.py, and the rows that services/evidence/     *)
(* retriever.py makes of documents.  Scores are in hundredths, ranks in     *)
(* ten-thousandths.  What a claim requires and a text says are sets of      *)
(* values: numbers, dates, organizations (a missing place is no matter).    *)
(***************************************************************************)
EXTENDS Integers

(* 근거 부족, 법적 판단 필요, 맥락 누락, 대체로 사실, 초기 기준, 업데이트 필요 *)
Insufficient == "insufficient"
Legal == "legal"
MissingContext == "missing_context"
MostlyTrue == "mostly_true"
Initial == "initial"
NeedsUpdate == "needs_update"
RuleVerdicts == {Insufficient, Legal, MissingContext, MostlyTrue, Initial, NeedsUpdate}

(* 사실, 일부 사실, 과장, 오해 소지, 사실 아님, 단정 불가, 검증 불가: by the service only *)
ServiceVerdicts == {"true", "partly_true", "overstated", "misleading", "false",
                    "undecidable", "unverifiable"}
AllowedVerdicts == RuleVerdicts \cup ServiceVerdicts

Verified == "verified"
NeedsEvidence == "needs_evidence"
NeedsReview == "needs_review"

StatusOf(verdict) ==
  IF verdict \in {Insufficient, "unverifiable", "undecidable"} THEN NeedsEvidence ELSE Verified

OfficialKinds == {"official", "public"}
IsOfficial(e) == e.kind \in OfficialKinds

SourceBonus(kind) ==
  CASE kind = "official"  -> 2000
    [] kind = "public"    -> 1600
    [] kind = "factcheck" -> 1200
    [] kind = "news"      -> 400
    [] OTHER              -> 0

Rank(e) ==
  LET score == e.credibility * 55 + e.relevance * 35 + SourceBonus(e.kind)
  IN IF score > 10000 THEN 10000 ELSE score

Reaches(E, rank) == \E e \in E : Rank(e) >= rank
Lacks(needs, E) == \E value \in needs : \A e \in E : value \notin e.says

RuleVerdict(claim, E) ==
  CASE claim.type = "label" -> Insufficient
    [] claim.type = "legal" -> Legal
    [] claim.type = "other" /\ E = {} -> Insufficient
    [] OTHER ->
       IF (\E e \in E : IsOfficial(e)) /\ Lacks(claim.needs, E) THEN MissingContext
       ELSE IF (\E e \in E : IsOfficial(e)) /\ Reaches(E, 7200) THEN MostlyTrue
       ELSE IF Reaches(E, 6000) THEN Initial ELSE NeedsUpdate

-----------------------------------------------------------------------------
(* Rows: of an article the service chose, of a source of the registry, of   *)
(* the claim's own article.                                                 *)
EvidenceOf(doc, fact, credibility, relevance) ==
  [doc |-> doc, kind |-> fact.kind, says |-> fact.says,
   credibility |-> credibility, relevance |-> relevance]

ChosenRow(doc, fact, relevance) ==
  EvidenceOf(doc, fact, IF fact.kind \in OfficialKinds THEN 65 ELSE 52, relevance)
RegistryRow(doc, fact) ==
  EvidenceOf(doc, fact, fact.credibility, IF fact.kind \in OfficialKinds THEN 62 ELSE 48)
OwnRow(doc, fact) == EvidenceOf(doc, fact, 52, 72)

(* What a claim called confirmed by the rules rests on.                     *)
Supports(claim, E) ==
  /\ \E e \in E : IsOfficial(e)
  /\ ~Lacks(claim.needs, E)
  /\ Reaches(E, 7200)
=============================================================================
