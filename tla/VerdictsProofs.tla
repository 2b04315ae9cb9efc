--------------------------- MODULE VerdictsProofs ---------------------------
(***************************************************************************)
(* A claim that the rules alone call confirmed is supported by evidence    *)
(* that is stored, for every number of claims, articles, sessions and      *)
(* faults, and a verdict that changes leaves a row of its history.         *)
(*                                                                         *)
(* A session judges from rows it has read and rows it will add, and rows   *)
(* are never taken away (Grounded); the mark that the service has judged   *)
(* is never taken back (Kept), so a session whose judgement is the rules'  *)
(* cannot meet a row that has the mark and leave it without; and a claim   *)
(* in the making belongs to one session (Made).                            *)
(***************************************************************************)
EXTENDS Verdicts, FiniteSetTheorems, TLAPS

Session == [at : {"closed", "open", "asked"}, kind : {"none", "one", "issue", "check", "post"},
            todo : SUBSET Claims, done : SUBSET Claims, new : SUBSET Claims,
            known : [Claims -> RowType], judged : [Claims -> RowType],
            found : [Claims -> SUBSET EvidenceType], claim : Claims \cup {NoClaim},
            seen : SUBSET EvidenceType, docs : SUBSET Articles]

Typed ==
  /\ claim \in [Claims -> RowType] /\ evidence \in [Claims -> SUBSET EvidenceType]
  /\ history \in [Claims -> Seq(Names)] /\ attached \subseteq Articles
  /\ session \in [Sessions -> Session]

(* What a session intends is what it may. *)
Orderly(v) ==
  /\ v.done \subseteq v.todo /\ v.new \subseteq v.todo
  /\ v.at = "asked" => v.claim \in v.todo \ v.done
  /\ v.at # "asked" => v.claim = NoClaim

(* What a session creates is not there yet. *)
Making(v) == \A c \in v.new : ~Exists(c) /\ v.known[c] = Created(c)

(* The mark of the service's judgement, once seen, stays. *)
Kept(v) == \A c \in v.todo \ v.new : Exists(c) /\ (v.known[c].noted => claim[c].noted)

(* What a judgement of the rules rests on is stored or will be with it. *)
Rests(c, row, E) == row.verdict = MostlyTrue /\ ~row.noted => Supports(Profile[c], E)

Grounded(v) ==
  /\ v.at = "asked" => v.seen \subseteq evidence[v.claim]
  /\ \A c \in v.done :
       /\ v.known[c].noted => v.judged[c].noted
       /\ v.judged[c].status # "absent"
       /\ Rests(c, v.judged[c], evidence[c] \cup v.found[c])

Good(v) == Orderly(v) /\ Making(v) /\ Kept(v) /\ Grounded(v)

(* A claim is created by one session. *)
Apart == \A s, t \in Sessions : s # t => session[s].new \cap session[t].new = {}

Fresh == \A c \in Claims : ~Exists(c) => claim[c] = Absent

IInv == Typed /\ (\A s \in Sessions : Good(session[s])) /\ Apart /\ Fresh /\ ConfirmedIsSupported
-----------------------------------------------------------------------------
(* The rules. *)

(* More evidence takes nothing away. *)
LEMMA MoreSupports ==
  ASSUME NEW p, NEW E, NEW F, E \subseteq F, Supports(p, E)
  PROVE  Supports(p, F)
BY DEF Supports, Lacks, Reaches

LEMMA RulesConfirm ==
  ASSUME NEW p, NEW E, RuleVerdict(p, E) = MostlyTrue PROVE Supports(p, E)
BY DEF RuleVerdict, Supports, MostlyTrue, Insufficient, Legal, MissingContext, Initial, NeedsUpdate

LEMMA RuleVerdictType == \A p, E : RuleVerdict(p, E) \in AllowedVerdicts
BY DEF RuleVerdict, AllowedVerdicts, RuleVerdicts

LEMMA StatusType == \A v : StatusOf(v) \in {Verified, NeedsEvidence} /\ StatusOf(v) # "absent"
BY DEF StatusOf, Verified, NeedsEvidence

LEMMA FixedRows ==
  /\ Absent \in RowType /\ Absent.verdict = Insufficient /\ ~Absent.noted /\ Absent.status = "absent"
  /\ \A c : /\ Created(c) \in RowType /\ Created(c).verdict = Insufficient
            /\ ~Created(c).noted /\ Created(c).status # "absent"
BY DEF Absent, Created, RowType, Names, AllowedVerdicts, RuleVerdicts, NeedsReview, NeedsEvidence

LEMMA InsufficientIsNotTrue == Insufficient # MostlyTrue
BY DEF Insufficient, MostlyTrue

LEMMA ClosedSession ==
  /\ Closed \in Session /\ Closed.at = "closed" /\ Closed.claim = NoClaim
  /\ Closed.todo = {} /\ Closed.done = {} /\ Closed.new = {}
BY FixedRows DEF Closed, Session

(* Additions are rows of documents. *)
LEMMA AdditionsType ==
  ASSUME Typed, NEW s \in Sessions, session[s].claim \in Claims,
         NEW chosen \in SUBSET session[s].docs, NEW relevance \in Relevances
  PROVE  Additions(s, chosen, relevance) \subseteq EvidenceType
<1>1. session[s].docs \subseteq Articles /\ Relevances \subseteq 0 .. 100
  BY VerdictAssumption DEF Typed, Session
<1>2. ASSUME NEW d \in Articles \cup Registry, NEW cr \in 0 .. 100, NEW re \in 0 .. 100
      PROVE  EvidenceOf(d, Fact[d], cr, re) \in EvidenceType
  BY VerdictAssumption DEF EvidenceOf, EvidenceType
<1>3. ASSUME NEW d \in Articles \cup Registry
      PROVE  /\ ChosenRow(d, Fact[d], relevance) \in EvidenceType
             /\ RegistryRow(d, Fact[d]) \in EvidenceType
             /\ OwnRow(d, Fact[d]) \in EvidenceType
  <2>1. Fact[d].credibility \in 0 .. 100 /\ relevance \in 0 .. 100
    BY <1>1, VerdictAssumption
  <2>2. {65, 52, 62, 48, 72} \subseteq 0 .. 100
    OBVIOUS
  <2>3. QED BY <1>2, <2>1, <2>2 DEF ChosenRow, RegistryRow, OwnRow
<1>4. {Profile[session[s].claim].own} \ {NoArticle} \subseteq Articles
  BY VerdictAssumption
<1>5. QED BY <1>1, <1>3, <1>4 DEF Additions
-----------------------------------------------------------------------------
(* Steps of one session that store nothing. *)

Data == <<claim, evidence, history, attached>>

LEMMA ClosedIsGood == Good(Closed)
BY ClosedSession DEF Good, Orderly, Making, Kept, Grounded

LEMMA SessionStep ==
  ASSUME IInv, UNCHANGED Data, NEW s \in Sessions, NEW n \in Session,
         session' = [session EXCEPT ![s] = n], Good(n),
         \A t \in Sessions : t # s => n.new \cap session[t].new = {}
  PROVE  IInv'
<1>1. Typed'
  BY DEF IInv, Typed, Data
<1>2. session'[s] = n /\ \A t \in Sessions : t # s => session'[t] = session[t]
  BY DEF IInv, Typed
<1>3. ASSUME NEW t \in Sessions PROVE Good(session[t])'
  <2>1. Good(session'[t])
    BY <1>2 DEF IInv
  <2>2. QED BY <2>1 DEF Data, Good, Orderly, Making, Kept, Grounded, Exists
<1>4. Apart'
  BY <1>2 DEF IInv, Apart
<1>5. Fresh' /\ ConfirmedIsSupported'
  BY DEF IInv, Fresh, ConfirmedIsSupported, Data, Exists
<1>6. QED BY <1>1, <1>3, <1>4, <1>5 DEF IInv

(* Sessions that are closed, and nothing stored. *)
LEMMA DropKeeps ==
  ASSUME IInv, UNCHANGED Data, session' \in [Sessions -> Session],
         \A t \in Sessions : session'[t] \in {session[t], Closed}
  PROVE  IInv'
<1>1. Typed'
  BY DEF IInv, Typed, Data
<1>2. ASSUME NEW t \in Sessions PROVE Good(session[t])'
  <2>1. Good(session'[t])
    BY ClosedIsGood DEF IInv
  <2>2. QED BY <2>1 DEF Data, Good, Orderly, Making, Kept, Grounded, Exists
<1>3. Apart'
  BY ClosedSession DEF IInv, Apart
<1>4. Fresh' /\ ConfirmedIsSupported'
  BY DEF IInv, Fresh, ConfirmedIsSupported, Data, Exists
<1>5. QED BY <1>1, <1>2, <1>3, <1>4 DEF IInv

LEMMA CloseKeeps ==
  ASSUME IInv, UNCHANGED Data, NEW s \in Sessions, Closes(s) PROVE IInv'
<1>1. /\ session' \in [Sessions -> Session]
      /\ \A t \in Sessions : session'[t] \in {session[t], Closed}
  BY ClosedSession DEF Closes, IInv, Typed
<1>2. QED BY <1>1, DropKeeps

LEMMA OpensKeeps ==
  ASSUME IInv, UNCHANGED Data, NEW s \in Sessions, NEW todo \in SUBSET Claims,
         NEW kind \in {"none", "one", "issue", "check", "post"}, Opens(s, kind, todo),
         \A c \in todo : Exists(c) \/ ~InTheMaking(c)
  PROVE  IInv'
<1> DEFINE new == {c \in todo : ~Exists(c)}
           known == [c \in Claims |-> IF c \notin todo THEN Absent
                                      ELSE IF Exists(c) THEN claim[c] ELSE Created(c)]
           n == [Closed EXCEPT !.at = "open", !.kind = kind, !.todo = todo, !.new = new, !.known = known]
<1>1. session' = [session EXCEPT ![s] = n]
  BY DEF Opens
<1>2. known \in [Claims -> RowType]
  BY FixedRows DEF IInv, Typed
<1>3. \A c \in todo : known[c] = IF Exists(c) THEN claim[c] ELSE Created(c)
  OBVIOUS
<1>4. new \subseteq todo /\ (\A c \in new : ~Exists(c)) /\ (\A c \in todo \ new : Exists(c))
  OBVIOUS
<1>5. \A t \in Sessions : new \cap session[t].new = {}
  BY DEF InTheMaking
<1> HIDE DEF new, known
<1>6. /\ n \in Session /\ n.at = "open" /\ n.todo = todo /\ n.new = new /\ n.known = known
      /\ n.done = {} /\ n.claim = NoClaim
  BY <1>2, <1>4, FixedRows DEF Closed, Session
<1> HIDE DEF n
<1>7. Good(n)
  <2>1. Orderly(n) /\ Grounded(n)
    BY <1>4, <1>6 DEF Orderly, Grounded
  <2>2. Making(n)
    BY <1>3, <1>4, <1>6 DEF Making
  <2>3. Kept(n)
    BY <1>3, <1>4, <1>6 DEF Kept
  <2>4. QED BY <2>1, <2>2, <2>3 DEF Good
<1>8. QED BY <1>1, <1>5, <1>6, <1>7, SessionStep

LEMMA AskKeeps == ASSUME IInv, NEW s \in Sessions, Ask(s) PROVE IInv'
<1>1. PICK c \in session[s].todo \ session[s].done :
        session' = [session EXCEPT ![s] = [@ EXCEPT
          !.at = "asked", !.claim = c, !.seen = evidence[c],
          !.docs = attached \cup ({Profile[k].own : k \in session[s].new} \ {NoArticle})]]
  BY DEF Ask
<1> DEFINE v == session[s]
           docs == attached \cup ({Profile[k].own : k \in v.new} \ {NoArticle})
           n == [v EXCEPT !.at = "asked", !.claim = c, !.seen = evidence[c], !.docs = docs]
<1>2. session[s].at = "open" /\ UNCHANGED Data /\ session' = [session EXCEPT ![s] = n]
  BY <1>1 DEF Ask, Data, IInv, Typed
<1>3. v \in Session /\ Good(v) /\ c \in Claims
  BY <1>1 DEF IInv, Typed, Session
<1>4. docs \subseteq Articles
  BY <1>3, VerdictAssumption DEF IInv, Typed, Session
<1>5. evidence[c] \subseteq EvidenceType
  BY <1>3 DEF IInv, Typed
<1> HIDE DEF docs
<1>6. n \in Session
  BY <1>3, <1>4, <1>5 DEF Session
<1>7. /\ n.at = "asked" /\ n.claim = c /\ n.seen = evidence[c]
      /\ n.todo = v.todo /\ n.done = v.done /\ n.new = v.new /\ n.known = v.known
      /\ n.judged = v.judged /\ n.found = v.found
  BY <1>3 DEF Session
<1> HIDE DEF n
<1>8. Good(n)
  BY <1>1, <1>3, <1>7 DEF Good, Orderly, Making, Kept, Grounded
<1>9. \A t \in Sessions : t # s => n.new \cap session[t].new = {}
  BY <1>7 DEF IInv, Apart
<1>10. QED BY <1>2, <1>6, <1>8, <1>9, SessionStep

LEMMA JudgeKeeps == ASSUME IInv, NEW s \in Sessions, Judge(s) PROVE IInv'
<1> DEFINE v == session[s]
           c == v.claim
<1>1. PICK chosen \in SUBSET v.docs, relevance \in Relevances, answer \in Answers \cup {"other"} :
        session' = [session EXCEPT ![s] = [v EXCEPT
          !.at = "open", !.claim = NoClaim, !.seen = {}, !.docs = {}, !.done = v.done \cup {c},
          !.judged[c] = Judgement(s, answer, Additions(s, chosen, relevance)),
          !.found[c] = Additions(s, chosen, relevance)]]
  BY DEF Judge
<1> DEFINE rows == Additions(s, chosen, relevance)
           row == Judgement(s, answer, rows)
           n == [v EXCEPT !.at = "open", !.claim = NoClaim, !.seen = {}, !.docs = {},
                          !.done = v.done \cup {c}, !.judged[c] = row, !.found[c] = rows]
<1>2. v.at = "asked" /\ UNCHANGED Data
  BY DEF Judge, Data
<1>3. session' = [session EXCEPT ![s] = n]
  BY ONLY <1>1
<1>4. v \in Session /\ Good(v) /\ c \in Claims /\ c \in v.todo /\ v.seen \subseteq evidence[c]
  BY <1>2 DEF IInv, Typed, Session, Good, Orderly, Grounded
<1>5. rows \subseteq EvidenceType
  BY <1>4, AdditionsType DEF IInv
<1>6. /\ row \in RowType /\ row.status # "absent"
      /\ v.known[c].noted => row.noted
      /\ Rests(c, row, v.seen \cup rows)
  <2> DEFINE verdict == IF answer \in AllowedVerdicts THEN answer
                        ELSE RuleVerdict(Profile[c], v.seen \cup rows)
             mark == v.known[c].noted \/ answer \in AllowedVerdicts
  <2>1. row = [verdict |-> verdict, status |-> StatusOf(verdict), noted |-> mark]
    BY DEF Judgement
  <2>2. verdict \in Names
    BY RuleVerdictType DEF Names
  <2>3. ~mark => verdict = RuleVerdict(Profile[c], v.seen \cup rows)
    OBVIOUS
  <2>4. mark \in BOOLEAN
    BY <1>4 DEF Session, RowType
  <2>5. v.known[c].noted => mark
    OBVIOUS
  <2> HIDE DEF verdict, mark
  <2>6. row.verdict = verdict /\ row.noted = mark /\ row.status = StatusOf(verdict)
    BY <2>1
  <2>7. row \in RowType
    BY <2>1, <2>2, <2>4, StatusType DEF RowType
  <2>8. Rests(c, row, v.seen \cup rows)
    BY <2>3, <2>6, RulesConfirm DEF Rests
  <2>9. QED BY <2>5, <2>6, <2>7, <2>8, StatusType
<1> HIDE DEF rows, row
<1>7. n \in Session
  BY <1>4, <1>5, <1>6 DEF Session
<1>8. /\ n.at = "open" /\ n.claim = NoClaim /\ n.done = v.done \cup {c}
      /\ n.todo = v.todo /\ n.new = v.new /\ n.known = v.known
      /\ n.judged[c] = row /\ n.found[c] = rows
      /\ \A d \in Claims : d # c => n.judged[d] = v.judged[d] /\ n.found[d] = v.found[d]
  BY <1>4 DEF Session
<1> HIDE DEF n
<1>9. Rests(c, row, evidence[c] \cup rows)
  <2>1. v.seen \cup rows \subseteq evidence[c] \cup rows
    BY <1>4
  <2>2. QED BY <1>6, <2>1, MoreSupports DEF Rests
<1>10. Good(n)
  <2>1. Orderly(n) /\ Making(n) /\ Kept(n)
    BY <1>4, <1>8 DEF Good, Orderly, Making, Kept
  <2>2. v.done \subseteq Claims
    BY <1>4 DEF Session
  <2>3. Grounded(n)
    BY <1>4, <1>6, <1>8, <1>9, <2>2 DEF Good, Grounded
  <2>4. QED BY <2>1, <2>3 DEF Good
<1>11. \A t \in Sessions : t # s => n.new \cap session[t].new = {}
  BY <1>8 DEF IInv, Apart
<1>12. QED BY <1>2, <1>3, <1>7, <1>10, <1>11, SessionStep
-----------------------------------------------------------------------------
(* Steps that store. *)

LEMMA ColumnCases ==
  ASSUME NEW old, NEW loaded, NEW new
  PROVE  Column(old, loaded, new) = IF new = loaded THEN old ELSE new
BY DEF Column

(* The row of a claim that a session has judged, once it is committed. *)
LEMMA CommittedRow ==
  ASSUME IInv, NEW s \in Sessions, NEW c \in session[s].done
  PROVE  /\ Row(c, s) \in RowType /\ Row(c, s).status # "absent"
         /\ claim[c].noted => Row(c, s).noted
         /\ Row(c, s).verdict # claim[c].verdict =>
              Changed(c, s) /\ Row(c, s).verdict = session[s].judged[c].verdict
         /\ Rests(c, Row(c, s), evidence[c] \cup session[s].found[c])
<1> DEFINE v == session[s]
           loaded == v.known[c]
           new == v.judged[c]
           old == IF Exists(c) THEN claim[c] ELSE loaded
<1>1. v \in Session /\ c \in Claims /\ c \in v.todo /\ v.done \subseteq Claims
  BY DEF IInv, Typed, Session, Good, Orderly
<1>2. loaded \in RowType /\ new \in RowType /\ claim[c] \in RowType
  BY <1>1 DEF IInv, Typed, Session
<1>3. /\ loaded.noted => new.noted
      /\ new.status # "absent"
      /\ Rests(c, new, evidence[c] \cup v.found[c])
  BY DEF IInv, Good, Grounded
<1>4. /\ old \in RowType /\ old.verdict = claim[c].verdict /\ old.noted = claim[c].noted
      /\ old.status # "absent" /\ (loaded.noted => old.noted)
  <2>1. CASE Exists(c)
    <3>1. c \notin v.new
      BY <2>1 DEF IInv, Good, Making
    <3>2. QED BY <1>1, <1>2, <2>1, <3>1 DEF IInv, Good, Kept, Exists
  <2>2. CASE ~Exists(c)
    <3>1. c \in v.new
      BY <1>1, <2>2 DEF IInv, Good, Kept
    <3>2. loaded = Created(c) /\ claim[c] = Absent
      BY <1>1, <2>2, <3>1 DEF IInv, Good, Making, Fresh
    <3>3. old = Created(c)
      BY <2>2, <3>2
    <3>4. Created(c).noted = FALSE /\ Absent.noted = FALSE
      BY FixedRows DEF Absent, Created
    <3>5. QED BY <3>2, <3>3, <3>4, FixedRows
  <2>3. QED BY <2>1, <2>2
<1>5. Rests(c, claim[c], evidence[c] \cup v.found[c])
  BY <1>1, MoreSupports DEF IInv, ConfirmedIsSupported, Rests
<1>6. Row(c, s) = [verdict |-> Column(old.verdict, loaded.verdict, new.verdict),
                   status |-> Column(old.status, loaded.status, new.status),
                   noted |-> Column(old.noted, loaded.noted, new.noted)]
  BY DEF Row
<1> DEFINE row == Row(c, s)
<1>7. /\ row.verdict = Column(old.verdict, loaded.verdict, new.verdict)
      /\ row.status = Column(old.status, loaded.status, new.status)
      /\ row.noted = Column(old.noted, loaded.noted, new.noted)
  BY <1>6
<1>8. Changed(c, s) <=> new.verdict # loaded.verdict
  BY DEF Changed
<1> HIDE DEF old, new, loaded, row, v
<1>9. row \in RowType
  BY <1>2, <1>4, <1>6, <1>7 DEF RowType, Column, row
<1>10. row.status # "absent"
  BY <1>3, <1>4, <1>7 DEF Column
<1>11. claim[c].noted => row.noted
  BY <1>2, <1>3, <1>4, <1>7 DEF Column, RowType
<1>12. row.verdict # claim[c].verdict => Changed(c, s) /\ row.verdict = new.verdict
  BY <1>4, <1>7, <1>8 DEF Column
<1>13. Rests(c, row, evidence[c] \cup v.found[c])
  <2> SUFFICES ASSUME row.verdict = MostlyTrue, ~row.noted
               PROVE  Supports(Profile[c], evidence[c] \cup v.found[c])
    BY DEF Rests
  <2>1. ~claim[c].noted /\ ~loaded.noted
    BY <1>4, <1>11
  <2>2. ~new.noted
    BY <1>2, <1>4, <1>7, <2>1 DEF Column, RowType
  <2>3. CASE new.verdict = loaded.verdict
    BY <1>4, <1>5, <1>7, <2>1, <2>3 DEF Column, Rests
  <2>4. CASE new.verdict # loaded.verdict
    BY <1>3, <1>7, <2>2, <2>4 DEF Column, Rests
  <2>5. QED BY <2>3, <2>4
<1>14. QED BY <1>9, <1>10, <1>11, <1>12, <1>13 DEF row, new, v

LEMMA AppliesKeeps ==
  ASSUME IInv, NEW s \in Sessions, NEW extra \in SUBSET EvidenceType,
         Applies(s, extra), Closes(s)
  PROVE  IInv'
<1> DEFINE v == session[s]
<1>1. /\ claim' = [c \in Claims |-> IF c \in v.done THEN Row(c, s)
                                    ELSE IF c \in v.new THEN v.known[c] ELSE claim[c]]
      /\ evidence' = [c \in Claims |-> evidence[c] \cup
                       (IF c \in v.done THEN v.found[c] ELSE IF c = v.claim THEN extra ELSE {})]
      /\ history' = [c \in Claims |-> IF c \in v.done /\ Changed(c, s)
                                      THEN Append(history[c], v.judged[c].verdict) ELSE history[c]]
      /\ attached' = attached \cup ({Profile[c].own : c \in v.new} \ {NoArticle})
  BY DEF Applies, Stored
<1>2. v \in Session /\ Good(v)
  BY DEF IInv, Typed
<1>3. /\ session' \in [Sessions -> Session] /\ session'[s] = Closed
      /\ \A t \in Sessions : t # s => session'[t] = session[t]
  BY ClosedSession DEF Closes, IInv, Typed
<1>4. ASSUME NEW c \in Claims
      PROVE  /\ claim'[c] \in RowType
             /\ claim[c].noted => claim'[c].noted
             /\ Exists(c) => Exists(c)'
             /\ c \in v.todo \cap (v.done \cup v.new) => Exists(c)'
             /\ ~Exists(c)' => claim'[c] = claim[c]
             /\ evidence[c] \subseteq evidence'[c]
             /\ evidence'[c] \subseteq EvidenceType
             /\ Rests(c, claim'[c], evidence'[c])
             /\ c \notin v.done /\ c \notin v.new => claim'[c] = claim[c]
  <2>1. /\ evidence[c] \subseteq evidence'[c] /\ evidence'[c] \subseteq EvidenceType
        /\ c \in v.done => evidence'[c] = evidence[c] \cup v.found[c]
    BY <1>1, <1>2 DEF IInv, Typed, Session
  <2>2. claim[c] \in RowType
    BY DEF IInv, Typed
  <2>3. CASE c \in v.done
    <3>1. claim'[c] = Row(c, s)
      BY <1>1, <2>3
    <3>2. /\ Row(c, s) \in RowType /\ Row(c, s).status # "absent"
          /\ claim[c].noted => Row(c, s).noted
          /\ Rests(c, Row(c, s), evidence[c] \cup v.found[c])
      BY <2>3, CommittedRow
    <3>3. QED BY <2>1, <2>3, <3>1, <3>2 DEF Exists
  <2>4. CASE c \notin v.done /\ c \in v.new
    <3>1. claim'[c] = Created(c) /\ ~Exists(c)
      BY <1>1, <1>2, <2>4 DEF Good, Making
    <3>2. claim[c] = Absent
      BY <3>1 DEF IInv, Fresh
    <3>3. QED BY <2>1, <2>4, <3>1, <3>2, FixedRows, InsufficientIsNotTrue DEF Exists, Rests
  <2>5. CASE c \notin v.done /\ c \notin v.new
    <3>1. claim'[c] = claim[c]
      BY <1>1, <2>5
    <3>2. Rests(c, claim[c], evidence[c])
      BY DEF IInv, ConfirmedIsSupported, Rests
    <3>3. QED BY <2>1, <2>2, <2>5, <3>1, <3>2, MoreSupports DEF Exists, Rests
  <2>6. QED BY <2>3, <2>4, <2>5
<1>5. Typed'
  <2>1. claim' \in [Claims -> RowType] /\ evidence' \in [Claims -> SUBSET EvidenceType]
    BY <1>1, <1>4
  <2>2. history' \in [Claims -> Seq(Names)]
    <3> SUFFICES ASSUME NEW c \in Claims
                 PROVE  history'[c] \in Seq(Names)
      BY <1>1
    <3>1. history[c] \in Seq(Names) /\ v.judged[c].verdict \in Names
      BY <1>2 DEF IInv, Typed, Session, RowType
    <3>2. QED BY <1>1, <3>1
  <2>3. attached' \subseteq Articles
    <3>1. attached \subseteq Articles /\ v.new \subseteq Claims
      BY <1>2 DEF IInv, Typed, Session
    <3>2. QED BY <1>1, <3>1, VerdictAssumption
  <2>4. QED BY <1>3, <2>1, <2>2, <2>3 DEF Typed
<1>6. ASSUME NEW t \in Sessions PROVE Good(session[t])'
  <2>1. CASE t = s
    BY <1>3, <2>1, ClosedSession DEF Good, Orderly, Making, Kept, Grounded
  <2>2. CASE t # s
    <3> DEFINE u == session[t]
    <3>1. u \in Session /\ Good(u) /\ session'[t] = u /\ u.new \cap v.new = {}
      BY <1>3, <2>2 DEF IInv, Typed, Apart
    <3>2. Orderly(u)
      BY <3>1 DEF Good
    <3>3. ASSUME NEW c \in u.new
          PROVE  ~Exists(c)' /\ u.known[c] = Created(c)
      <4>1. c \in Claims /\ c \notin v.new /\ ~Exists(c)
        BY <3>1, <3>3 DEF Session, Good, Making
      <4>2. c \notin v.done
        BY <1>2, <4>1 DEF Good, Orderly, Kept
      <4>3. claim'[c] = claim[c]
        BY <1>4, <4>1, <4>2
      <4>4. QED BY <3>1, <3>3, <4>1, <4>3 DEF Exists, Good, Making
    <3>4. ASSUME NEW c \in u.todo \ u.new
          PROVE  Exists(c)' /\ (u.known[c].noted => claim'[c].noted)
      BY <1>4, <3>1 DEF Good, Kept, Session
    <3>5. ASSUME NEW c \in u.done
          PROVE  Rests(c, u.judged[c], evidence'[c] \cup u.found[c])
      <4>1. c \in Claims /\ Rests(c, u.judged[c], evidence[c] \cup u.found[c])
        BY <3>1 DEF Session, Good, Grounded
      <4>2. evidence[c] \cup u.found[c] \subseteq evidence'[c] \cup u.found[c]
        BY <1>4, <4>1
      <4>3. QED BY <4>1, <4>2, MoreSupports DEF Rests
    <3>6. u.at = "asked" => u.seen \subseteq evidence'[u.claim]
      BY <1>4, <3>1 DEF Session, Good, Orderly, Grounded
    <3>7. Good(u)'
      <4>1. u' = u
        BY <3>1
      <4>2. QED BY <3>1, <3>2, <3>3, <3>4, <3>5, <3>6, <4>1
                DEF Good, Orderly, Making, Kept, Grounded
    <3>8. QED BY <3>7
  <2>3. QED BY <2>1, <2>2
<1>7. Apart'
  BY <1>3, ClosedSession DEF IInv, Apart
<1>8. Fresh'
  BY <1>4 DEF IInv, Fresh, Exists
<1>9. ConfirmedIsSupported'
  BY <1>4 DEF ConfirmedIsSupported, Rests
<1>10. QED BY <1>5, <1>6, <1>7, <1>8, <1>9 DEF IInv
-----------------------------------------------------------------------------
(* Steps on a claim's row without a session. *)

LEMMA CreateKeeps == ASSUME IInv, NEW c \in Claims, Create(c) PROVE IInv'
<1>1. /\ ~Exists(c) /\ ~InTheMaking(c)
      /\ claim' = [claim EXCEPT ![c] = Created(c)]
      /\ attached' = attached \cup ({Profile[c].own} \ {NoArticle})
      /\ UNCHANGED <<evidence, history, session>>
  BY DEF Create
<1>2. Typed'
  BY <1>1, FixedRows, VerdictAssumption DEF IInv, Typed
<1>3. /\ claim'[c] = Created(c) /\ Exists(c)'
      /\ \A d \in Claims : d # c => claim'[d] = claim[d] /\ (Exists(d)' <=> Exists(d))
  BY <1>1, FixedRows DEF IInv, Typed, Exists
<1>4. ASSUME NEW t \in Sessions PROVE Good(session[t])'
  <2> DEFINE u == session[t]
  <2>1. u \in Session /\ Good(u) /\ c \notin u.new
    BY <1>1 DEF IInv, Typed, InTheMaking
  <2>2. c \notin u.todo
    BY <1>1, <2>1 DEF Good, Kept
  <2>3. session'[t] = u /\ u' = u
    BY <1>1
  <2>4. u.todo \subseteq Claims
    BY <2>1 DEF Session
  <2>5. QED BY <1>1, <1>3, <2>1, <2>2, <2>3, <2>4
            DEF Good, Orderly, Making, Kept, Grounded
<1>5. Apart'
  BY <1>1 DEF IInv, Apart
<1>6. Fresh'
  BY <1>3 DEF IInv, Fresh
<1>7. ConfirmedIsSupported'
  BY <1>1, <1>3, FixedRows, InsufficientIsNotTrue DEF IInv, ConfirmedIsSupported
<1>8. QED BY <1>2, <1>4, <1>5, <1>6, <1>7 DEF IInv

LEMMA ReportKeeps == ASSUME IInv, NEW c \in Claims, ResolveReport(c) PROVE IInv'
<1> DEFINE row == [claim[c] EXCEPT !.status = NeedsReview]
<1>1. /\ Exists(c) /\ claim' = [claim EXCEPT ![c] = row]
      /\ UNCHANGED <<evidence, history, attached, session>>
  BY DEF ResolveReport
<1>2. /\ row \in RowType /\ row.verdict = claim[c].verdict /\ row.noted = claim[c].noted
      /\ row.status # "absent"
  BY DEF IInv, Typed, RowType, NeedsReview
<1> HIDE DEF row
<1>3. Typed'
  BY <1>1, <1>2 DEF IInv, Typed
<1>4. /\ \A d \in Claims : Exists(d)' <=> Exists(d)
      /\ \A d \in Claims : claim'[d].verdict = claim[d].verdict /\ claim'[d].noted = claim[d].noted
      /\ \A d \in Claims : d # c => claim'[d] = claim[d]
  BY <1>1, <1>2 DEF IInv, Typed, Exists
<1>5. ASSUME NEW t \in Sessions PROVE Good(session[t])'
  <2> DEFINE u == session[t]
  <2>1. u \in Session /\ Good(u)
    BY DEF IInv, Typed
  <2>2. u.todo \subseteq Claims /\ u.new \subseteq u.todo
    BY <2>1 DEF Session, Good, Orderly
  <2>3. session'[t] = u /\ u' = u
    BY <1>1
  <2>4. QED BY <1>1, <1>4, <2>1, <2>2, <2>3, ZenonT(30) DEF Good, Orderly, Making, Kept, Grounded
<1>6. Apart'
  BY <1>1 DEF IInv, Apart
<1>7. Fresh'
  BY <1>1, <1>4 DEF IInv, Fresh
<1>8. ConfirmedIsSupported'
  BY <1>1, <1>4 DEF IInv, ConfirmedIsSupported
<1>9. QED BY <1>3, <1>5, <1>6, <1>7, <1>8 DEF IInv

LEMMA AttachKeeps == ASSUME IInv, NEW a \in Articles, Attach(a) PROVE IInv'
<1>1. attached' \subseteq Articles /\ UNCHANGED <<claim, evidence, history, session>>
  BY DEF Attach, IInv, Typed
<1>2. Typed'
  BY <1>1 DEF IInv, Typed
<1>3. ASSUME NEW t \in Sessions PROVE Good(session[t])'
  <2>1. Good(session[t]) /\ session'[t] = session[t]
    BY <1>1 DEF IInv
  <2>2. QED BY <1>1, <2>1 DEF Good, Orderly, Making, Kept, Grounded, Exists
<1>4. QED BY <1>1, <1>2, <1>3 DEF IInv, Apart, Fresh, ConfirmedIsSupported, Exists
-----------------------------------------------------------------------------
LEMMA VerdictInit == Init => IInv
<1> SUFFICES ASSUME Init PROVE IInv
  OBVIOUS
<1>1. Typed
  BY FixedRows, ClosedSession DEF Init, Typed
<1>2. \A s \in Sessions : Good(session[s])
  BY ClosedIsGood DEF Init
<1>3. Apart
  BY ClosedSession DEF Init, Apart
<1>4. Fresh /\ ConfirmedIsSupported
  BY FixedRows, InsufficientIsNotTrue DEF Init, Fresh, ConfirmedIsSupported
<1>5. QED BY <1>1, <1>2, <1>3, <1>4 DEF IInv

LEMMA WorkKeeps == ASSUME IInv, NEW s \in Sessions, Work(s) \/ Fail(s) PROVE IInv'
<1>1. CASE Ask(s)
  BY <1>1, AskKeeps
<1>2. CASE Judge(s)
  BY <1>2, JudgeKeeps
<1>3. CASE Commit(s)
  BY <1>3, AppliesKeeps DEF Commit
<1>4. CASE RollBack(s)
  BY <1>4, CloseKeeps DEF RollBack, Data
<1>5. CASE Keep(s)
  <2>1. CASE Applies(s, {})
    BY <1>5, <2>1, AppliesKeeps DEF Keep
  <2>2. CASE /\ session[s].at = "asked"
             /\ \E chosen \in SUBSET session[s].docs, relevance \in Relevances :
                  Applies(s, Additions(s, chosen, relevance))
    <3>1. PICK chosen \in SUBSET session[s].docs, relevance \in Relevances :
            Applies(s, Additions(s, chosen, relevance))
      BY <2>2
    <3>2. session[s].claim \in Claims
      BY <2>2 DEF IInv, Typed, Session, Good, Orderly
    <3>3. Additions(s, chosen, relevance) \subseteq EvidenceType
      BY <3>2, AdditionsType DEF IInv
    <3>4. QED BY <1>5, <3>1, <3>3, AppliesKeeps DEF Keep
  <2>3. QED BY <1>5, <2>1, <2>2 DEF Keep
<1>6. QED BY <1>1, <1>2, <1>3, <1>4, <1>5 DEF Work, Fail, Victim

LEMMA RequestsKeep ==
  ASSUME IInv, NEW r \in Checks \cup Posts,
         Post(r) \/ Reject(r) \/ Cancel(r) \/ StartCheck(r) \/ StartPost(r)
  PROVE  IInv'
<1>1. r \in Sessions
  BY DEF Sessions
<1>2. ASSUME UNCHANGED Data, UNCHANGED session PROVE IInv'
  BY <1>2, DropKeeps DEF IInv, Typed
<1>3. ASSUME NEW kind \in {"check", "post"}, UNCHANGED Data,
             NEW todo \in SUBSET Claims, Extracted(todo), Opens(r, kind, todo)
      PROVE  IInv'
  <2>1. \A c \in todo : ~InTheMaking(c)
    BY <1>3 DEF Extracted
  <2>2. QED BY <1>1, <1>3, <2>1, OpensKeeps
<1>4. CASE Post(r) \/ Reject(r) \/ Cancel(r)
  BY <1>2, <1>4 DEF Post, Reject, Cancel, Data
<1>5. CASE StartCheck(r)
  BY <1>2, <1>3, <1>5 DEF StartCheck, Data
<1>6. CASE StartPost(r)
  BY <1>2, <1>3, <1>6 DEF StartPost, Data
<1>7. QED BY <1>4, <1>5, <1>6

LEMMA StaffKeeps ==
  ASSUME IInv, NEW s \in Staff, OpenOne(s) \/ OpenIssue(s) PROVE IInv'
<1>1. s \in Sessions
  BY DEF Sessions
<1>2. CASE OpenOne(s)
  BY <1>1, <1>2, OpensKeeps DEF OpenOne, Data
<1>3. CASE OpenIssue(s)
  BY <1>1, <1>3, OpensKeeps DEF OpenIssue, Data
<1>4. QED BY <1>2, <1>3

LEMMA ExitKeeps == ASSUME IInv, Exit PROVE IInv'
<1>1. /\ session' = [s \in Sessions |-> IF s \in Staff THEN session[s] ELSE Closed]
      /\ UNCHANGED Data
  BY DEF Exit, Data
<1>2. QED BY <1>1, ClosedSession, DropKeeps DEF IInv, Typed

LEMMA VerdictNext == IInv /\ [Next]_vars => IInv'
<1> SUFFICES ASSUME IInv, [Next]_vars PROVE IInv'
  OBVIOUS
<1>1. CASE UNCHANGED vars
  <2>1. UNCHANGED Data /\ UNCHANGED session
    BY <1>1 DEF vars, Data
  <2>2. QED BY <2>1, DropKeeps DEF IInv, Typed
<1>2. ASSUME NEW r \in Checks \cup Posts,
             Post(r) \/ Reject(r) \/ Cancel(r) \/ StartCheck(r) \/ StartPost(r)
      PROVE  IInv'
  BY <1>2, RequestsKeep
<1>3. ASSUME NEW s \in Staff, OpenOne(s) \/ OpenIssue(s) PROVE IInv'
  BY <1>3, StaffKeeps
<1>4. ASSUME NEW s \in Sessions, Work(s) \/ Fail(s) PROVE IInv'
  BY <1>4, WorkKeeps
<1>5. ASSUME NEW c \in Claims, Create(c) \/ ResolveReport(c) PROVE IInv'
  BY <1>5, CreateKeeps, ReportKeeps
<1>6. ASSUME NEW a \in Articles, Attach(a) PROVE IInv'
  BY <1>6, AttachKeeps
<1>7. CASE Exit
  BY <1>7, ExitKeeps
<1>8. QED BY <1>1, <1>2, <1>3, <1>4, <1>5, <1>6, <1>7 DEF Next

(* What verify_claim of the rules confirms rests on stored evidence,        *)
(* whichever sessions judge the claim at once and wherever one breaks off.  *)
THEOREM ConfirmedClaimIsSupported == Spec => []ConfirmedIsSupported
<1>1. IInv => ConfirmedIsSupported
  BY DEF IInv
<1>2. QED BY <1>1, VerdictInit, VerdictNext, PTL DEF Spec
-----------------------------------------------------------------------------
(* History. *)

Recorded == \A c \in Claims : claim'[c].verdict # claim[c].verdict =>
  /\ Len(history'[c]) > Len(history[c])
  /\ history'[c][Len(history'[c])] = claim'[c].verdict

LEMMA SameVerdicts ==
  ASSUME \A c \in Claims : claim'[c].verdict = claim[c].verdict PROVE Recorded
BY DEF Recorded

LEMMA AppliesRecords ==
  ASSUME IInv, NEW s \in Sessions, NEW extra, Applies(s, extra) PROVE Recorded
<1> DEFINE v == session[s]
<1>1. /\ claim' = [c \in Claims |-> IF c \in v.done THEN Row(c, s)
                                    ELSE IF c \in v.new THEN v.known[c] ELSE claim[c]]
      /\ history' = [c \in Claims |-> IF c \in v.done /\ Changed(c, s)
                                      THEN Append(history[c], v.judged[c].verdict) ELSE history[c]]
  BY DEF Applies
<1>2. SUFFICES ASSUME NEW c \in Claims, claim'[c].verdict # claim[c].verdict
               PROVE  /\ Len(history'[c]) > Len(history[c])
                      /\ history'[c][Len(history'[c])] = claim'[c].verdict
  BY DEF Recorded
<1>3. c \in v.done
  <2>1. CASE c \notin v.done /\ c \in v.new
    <3>1. claim'[c] = Created(c) /\ claim[c] = Absent
      BY <1>1, <2>1 DEF IInv, Good, Making, Fresh
    <3>2. QED BY <1>2, <3>1, FixedRows
  <2>2. CASE c \notin v.done /\ c \notin v.new
    BY <1>1, <1>2, <2>2
  <2>3. QED BY <2>1, <2>2
<1>4. claim'[c] = Row(c, s)
  BY <1>1, <1>3
<1>5. Changed(c, s) /\ claim'[c].verdict = v.judged[c].verdict
  BY <1>2, <1>3, <1>4, CommittedRow
<1>6. history'[c] = Append(history[c], v.judged[c].verdict)
  BY <1>1, <1>3, <1>5
<1>7. history[c] \in Seq(Names) /\ v.judged[c].verdict \in Names
  BY DEF IInv, Typed, Session, RowType
<1>8. QED BY <1>5, <1>6, <1>7

LEMMA NextRecords == IInv /\ [Next]_vars => Recorded
<1> SUFFICES ASSUME IInv, [Next]_vars PROVE Recorded
  OBVIOUS
<1>1. ASSUME UNCHANGED claim PROVE Recorded
  BY <1>1, SameVerdicts
<1>2. CASE UNCHANGED vars
  BY <1>1, <1>2 DEF vars
<1>3. ASSUME NEW r \in Checks \cup Posts,
             Post(r) \/ Reject(r) \/ Cancel(r) \/ StartCheck(r) \/ StartPost(r)
      PROVE  Recorded
  BY <1>1, <1>3 DEF Post, Reject, Cancel, StartCheck, StartPost
<1>4. ASSUME NEW s \in Staff, OpenOne(s) \/ OpenIssue(s) PROVE Recorded
  BY <1>1, <1>4 DEF OpenOne, OpenIssue
<1>5. ASSUME NEW s \in Sessions, Work(s) \/ Fail(s) PROVE Recorded
  <2>1. CASE Ask(s) \/ Judge(s) \/ RollBack(s)
    BY <1>1, <2>1 DEF Ask, Judge, RollBack
  <2>2. CASE Commit(s) \/ Keep(s)
    BY <2>2, AppliesRecords DEF Commit, Keep
  <2>3. QED BY <1>5, <2>1, <2>2 DEF Work, Fail, Victim
<1>6. ASSUME NEW c \in Claims, Create(c) PROVE Recorded
  <2>1. claim[c] = Absent /\ claim' = [claim EXCEPT ![c] = Created(c)]
    BY <1>6 DEF Create, IInv, Fresh
  <2>2. \A d \in Claims : claim'[d].verdict = claim[d].verdict
    BY <2>1, FixedRows DEF IInv, Typed
  <2>3. QED BY <2>2, SameVerdicts
<1>7. ASSUME NEW c \in Claims, ResolveReport(c) PROVE Recorded
  <2> DEFINE row == [claim[c] EXCEPT !.status = NeedsReview]
  <2>1. claim' = [claim EXCEPT ![c] = row]
    BY <1>7 DEF ResolveReport
  <2>2. row.verdict = claim[c].verdict
    BY DEF IInv, Typed, RowType
  <2> HIDE DEF row
  <2>3. \A d \in Claims : claim'[d].verdict = claim[d].verdict
    BY <2>1, <2>2 DEF IInv, Typed
  <2>4. QED BY <2>3, SameVerdicts
<1>8. ASSUME NEW a \in Articles, Attach(a) PROVE Recorded
  BY <1>1, <1>8 DEF Attach
<1>9. CASE Exit
  BY <1>1, <1>9 DEF Exit
<1>10. QED BY <1>2, <1>3, <1>4, <1>5, <1>6, <1>7, <1>8, <1>9 DEF Next

(* verifier.py:82-93: no verdict changes without the row of the history     *)
(* that says what it became.                                                *)
THEOREM VerdictChangesAreRecorded == Spec => ChangesAreRecorded
<1>1. IInv /\ [Next]_vars => [\A c \in Claims : claim'[c].verdict # claim[c].verdict =>
        /\ Len(history'[c]) > Len(history[c])
        /\ history'[c][Len(history'[c])] = claim'[c].verdict]_vars
  BY NextRecords DEF Recorded
<1>2. QED BY <1>1, VerdictInit, VerdictNext, PTL DEF Spec, ChangesAreRecorded
-----------------------------------------------------------------------------
(* Requests and tasks: room is kept for the checks that were accepted. *)

Statuses == {"none", "queued", "running", "completed", "needs_review", "cancelled", "rejected"}
Tasks == {"none", "due", "running", "done", "killed"}
Due == {r \in Checks : task[r] = "due"}

Books ==
  /\ request \in [Checks \cup Posts -> Statuses] /\ task \in [Checks \cup Posts -> Tasks]
  /\ opened \in Nat /\ faults \in 0 .. MaxFaults
  /\ opened + Cardinality(Due) <= MaxOpened

LEMMA DueFinite == IsFiniteSet(Due) /\ Cardinality(Due) \in Nat
<1>1. Due \subseteq Checks /\ IsFiniteSet(Checks)
  BY VerdictAssumption DEF Due
<1>2. QED BY <1>1, FS_Subset, FS_CardinalityType

(* No task becomes due; what was opened fits in the room there was.         *)
LEMMA BooksStep ==
  ASSUME Books, request' \in [Checks \cup Posts -> Statuses],
         task' \in [Checks \cup Posts -> Tasks], faults' \in 0 .. MaxFaults,
         \A r \in Checks : task'[r] = "due" => task[r] = "due",
         opened' = opened \/ (Room /\ opened' = opened + 1)
  PROVE  Books'
<1>1. Due' \subseteq Due
  BY DEF Due
<1>2. IsFiniteSet(Due) /\ Cardinality(Due) \in Nat
  BY DueFinite
<1>3. Cardinality(Due') \in Nat /\ Cardinality(Due') <= Cardinality(Due)
  BY <1>1, <1>2, FS_Subset, FS_CardinalityType
<1>4. opened \in Nat /\ MaxOpened \in Nat /\ opened + Cardinality(Due) <= MaxOpened
  BY VerdictAssumption DEF Books
<1>5. opened' \in Nat /\ opened' + Cardinality(Due') <= MaxOpened
  <2>1. CASE opened' = opened
    BY <1>2, <1>3, <1>4, <2>1
  <2>2. CASE Room /\ opened' = opened + 1
    <3>1. opened + Cardinality(Due) < MaxOpened
      BY <2>2 DEF Room, Due
    <3>2. QED BY <1>2, <1>3, <1>4, <2>2, <3>1
  <2>3. QED BY <2>1, <2>2
<1>6. QED BY <1>5 DEF Books

LEMMA BecomesBooks ==
  ASSUME Books, NEW r \in Checks \cup Posts, NEW status \in Statuses, NEW next \in Tasks,
         Becomes(r, status, next)
  PROVE  /\ request' \in [Checks \cup Posts -> Statuses]
         /\ task' \in [Checks \cup Posts -> Tasks]
         /\ task'[r] = next /\ \A q \in Checks \cup Posts : q # r => task'[q] = task[q]
BY DEF Books, Becomes

LEMMA PostBooks == ASSUME Books, NEW r \in Checks \cup Posts, Post(r) PROVE Books'
<1>1. Becomes(r, "queued", "due") /\ Room /\ UNCHANGED <<opened, faults>>
  BY DEF Post
<1>2. /\ request' \in [Checks \cup Posts -> Statuses]
      /\ task' \in [Checks \cup Posts -> Tasks]
      /\ task'[r] = "due" /\ \A q \in Checks \cup Posts : q # r => task'[q] = task[q]
  BY <1>1, BecomesBooks DEF Statuses, Tasks
<1>3. Due' \subseteq Due \cup {r}
  BY <1>2 DEF Due
<1>4. IsFiniteSet(Due) /\ Cardinality(Due) \in Nat
  BY DueFinite
<1>5. IsFiniteSet(Due \cup {r}) /\ Cardinality(Due \cup {r}) \in Nat
        /\ Cardinality(Due \cup {r}) <= Cardinality(Due) + 1
  BY <1>4, FS_AddElement, FS_CardinalityType
<1>6. Cardinality(Due') \in Nat /\ Cardinality(Due') <= Cardinality(Due \cup {r})
  BY <1>3, <1>5, FS_Subset, FS_CardinalityType
<1>7. opened + Cardinality(Due) < MaxOpened /\ opened \in Nat /\ MaxOpened \in Nat
  BY <1>1, VerdictAssumption DEF Room, Due, Books
<1>8. opened + Cardinality(Due') <= MaxOpened
  BY <1>4, <1>5, <1>6, <1>7
<1>9. QED BY <1>1, <1>2, <1>8 DEF Books

LEMMA StartCheckBooks == ASSUME Books, NEW r \in Checks, StartCheck(r) PROVE Books'
<1>1. PICK next \in {"done", "running"}, status \in Statuses : Becomes(r, status, next)
  <2>1. CASE request[r] = "cancelled" /\ Becomes(r, "cancelled", "done")
    BY <2>1 DEF Statuses
  <2>2. CASE Becomes(r, "running", "running")
    BY <2>2 DEF Statuses
  <2>3. QED BY <2>1, <2>2 DEF StartCheck
<1>2. /\ request' \in [Checks \cup Posts -> Statuses]
      /\ task' \in [Checks \cup Posts -> Tasks]
      /\ task'[r] = next /\ \A q \in Checks \cup Posts : q # r => task'[q] = task[q]
  BY <1>1, BecomesBooks DEF Tasks
<1>3. task[r] = "due" /\ opened' = opened + 1 /\ UNCHANGED faults
  BY DEF StartCheck
<1>4. Due' = Due \ {r} /\ r \in Due
  BY <1>2, <1>3 DEF Due
<1>5. IsFiniteSet(Due) /\ Cardinality(Due) \in Nat
  BY DueFinite
<1>6. Cardinality(Due') = Cardinality(Due) - 1 /\ Cardinality(Due') \in Nat
  BY <1>4, <1>5, FS_RemoveElement, FS_CardinalityType
<1>7. opened \in Nat /\ MaxOpened \in Nat /\ opened + Cardinality(Due) <= MaxOpened
  BY VerdictAssumption DEF Books
<1>8. opened' \in Nat /\ opened' + Cardinality(Due') <= MaxOpened
  BY <1>3, <1>5, <1>6, <1>7
<1>9. QED BY <1>2, <1>3, <1>8 DEF Books

LEMMA EndsBooks ==
  ASSUME Books, NEW s \in Sessions, NEW status \in Statuses, Ends(s, status),
         UNCHANGED opened, faults' \in 0 .. MaxFaults
  PROVE  Books'
<1>1. CASE s \in Staff
  BY <1>1, BooksStep DEF Ends, Books
<1>2. CASE s \notin Staff
  <2>1. s \in Checks \cup Posts /\ Becomes(s, status, "done")
    BY <1>2 DEF Ends, Sessions
  <2>2. /\ request' \in [Checks \cup Posts -> Statuses]
        /\ task' \in [Checks \cup Posts -> Tasks]
        /\ task'[s] = "done" /\ \A q \in Checks \cup Posts : q # s => task'[q] = task[q]
    BY <2>1, BecomesBooks DEF Tasks
  <2>3. QED BY <2>2, BooksStep
<1>3. QED BY <1>1, <1>2

LEMMA RequestBooks ==
  ASSUME Books, NEW r \in Checks \cup Posts, Reject(r) \/ Cancel(r) \/ StartPost(r)
  PROVE  Books'
<1>1. request[r] \in Statuses /\ task[r] \in Tasks /\ faults \in 0 .. MaxFaults
  BY DEF Books
<1>2. PICK status \in Statuses, next \in Tasks :
        /\ Becomes(r, status, next)
        /\ next = "due" => task[r] = "due"
  <2>1. CASE Reject(r)
    BY <2>1 DEF Reject, Statuses, Tasks
  <2>2. CASE Cancel(r)
    BY <1>1, <2>2 DEF Cancel, Statuses
  <2>3. CASE StartPost(r)
    <3>1. CASE Becomes(r, request[r], "done")
      BY <1>1, <3>1 DEF Tasks
    <3>2. CASE Becomes(r, request[r], "running")
      BY <1>1, <3>2 DEF Tasks
    <3>3. QED BY <2>3, <3>1, <3>2 DEF StartPost
  <2>4. QED BY <2>1, <2>2, <2>3
<1>3. /\ request' \in [Checks \cup Posts -> Statuses]
      /\ task' \in [Checks \cup Posts -> Tasks]
      /\ task'[r] = next /\ \A q \in Checks \cup Posts : q # r => task'[q] = task[q]
  BY <1>2, BecomesBooks
<1>4. UNCHANGED faults /\ (opened' = opened \/ (Room /\ opened' = opened + 1))
  BY DEF Reject, Cancel, StartPost
<1>5. QED BY <1>1, <1>2, <1>3, <1>4, BooksStep

LEMMA BooksInit == Init => Books
<1> SUFFICES ASSUME Init PROVE Books
  OBVIOUS
<1>1. Due = {}
  BY DEF Init, Due
<1>2. QED BY <1>1, FS_EmptySet, VerdictAssumption DEF Init, Books, Statuses, Tasks

LEMMA BooksNext == Books /\ [Next]_vars => Books'
<1> SUFFICES ASSUME Books, [Next]_vars PROVE Books'
  OBVIOUS
<1>1. ASSUME UNCHANGED <<request, task, faults>>,
             opened' = opened \/ (Room /\ opened' = opened + 1)
      PROVE  Books'
  BY <1>1, BooksStep DEF Books
<1>2. CASE UNCHANGED vars
  BY <1>1, <1>2 DEF vars
<1>3. ASSUME NEW r \in Checks \cup Posts,
             Post(r) \/ Reject(r) \/ Cancel(r) \/ StartCheck(r) \/ StartPost(r)
      PROVE  Books'
  <2>1. StartCheck(r) => r \in Checks
    BY DEF StartCheck
  <2>2. QED BY <1>3, <2>1, PostBooks, StartCheckBooks, RequestBooks
<1>4. ASSUME NEW s \in Staff, OpenOne(s) \/ OpenIssue(s) PROVE Books'
  BY <1>1, <1>4 DEF OpenOne, OpenIssue
<1>5. ASSUME NEW s \in Sessions, Work(s) \/ Fail(s) PROVE Books'
  <2>1. StatusAfterError(s) \in Statuses
    <3>1. s \in Checks \cup Posts => request[s] \in Statuses
      BY DEF Books
    <3>2. QED BY <3>1 DEF StatusAfterError, Statuses
  <2>2. CASE Ask(s) \/ Judge(s)
    BY <1>1, <2>2 DEF Ask, Judge
  <2>3. CASE Commit(s)
    BY <2>3, EndsBooks DEF Commit, Statuses, Books
  <2>4. CASE Victim(s)
    BY <2>1, <2>4, EndsBooks DEF Victim, RollBack, Books
  <2>5. CASE Fail(s)
    <3>1. faults' \in 0 .. MaxFaults
      BY <2>5, VerdictAssumption DEF Fail, Books
    <3>2. Ends(s, StatusAfterError(s)) /\ UNCHANGED opened
      BY <2>5 DEF Fail, Keep, RollBack
    <3>3. QED BY <2>1, <3>1, <3>2, EndsBooks
  <2>6. QED BY <1>5, <2>2, <2>3, <2>4, <2>5 DEF Work
<1>6. ASSUME NEW c \in Claims, Create(c) \/ ResolveReport(c) PROVE Books'
  BY <1>1, <1>6 DEF Create, ResolveReport
<1>7. ASSUME NEW a \in Articles, Attach(a) PROVE Books'
  BY <1>1, <1>7 DEF Attach
<1>8. CASE Exit
  <2>1. faults' \in 0 .. MaxFaults
    BY <1>8, VerdictAssumption DEF Exit, Books
  <2>2. /\ task' = [r \in Checks \cup Posts |->
                     IF task[r] \in {"due", "running"} THEN "killed" ELSE task[r]]
        /\ UNCHANGED <<request, opened>>
    BY <1>8 DEF Exit
  <2>3. task' \in [Checks \cup Posts -> Tasks]
    BY <2>2 DEF Books, Tasks
  <2>4. QED BY <2>1, <2>2, <2>3, BooksStep DEF Books
<1>9. QED BY <1>2, <1>3, <1>4, <1>5, <1>6, <1>7, <1>8 DEF Next

(* The variables have their types, the bound on sessions included: an       *)
(* accepted check always finds room to start.                               *)
THEOREM VerdictTypeCorrect == Spec => []TypeOK
<1>1. IInv /\ Books => TypeOK
  <2> SUFFICES ASSUME IInv, Books PROVE TypeOK
    OBVIOUS
  <2>1. ASSUME NEW s \in Sessions
        PROVE  LET v == session[s] IN
               /\ v.at \in {"closed", "open", "asked"}
               /\ v.todo \subseteq Claims /\ v.done \subseteq v.todo /\ v.new \subseteq v.todo
               /\ v.known \in [Claims -> RowType] /\ v.judged \in [Claims -> RowType]
               /\ \A c \in Claims : v.found[c] \subseteq EvidenceType
               /\ v.claim \in Claims \cup {NoClaim}
               /\ v.seen \subseteq EvidenceType /\ v.docs \subseteq Articles
    BY DEF IInv, Typed, Session, Good, Orderly
  <2>2. opened \in 0 .. MaxOpened
    BY DueFinite, VerdictAssumption DEF Books
  <2>3. QED BY <2>1, <2>2 DEF IInv, Typed, Books, TypeOK, Statuses, Tasks
<1>2. QED BY <1>1, VerdictInit, VerdictNext, BooksInit, BooksNext, PTL DEF Spec
=============================================================================
