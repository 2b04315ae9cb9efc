------------------------ MODULE IssueImagesProofs ------------------------
(***************************************************************************)
(* The picture of an issue, for every set of issues, articles, pictures    *)
(* and workers, and whatever the pages declare.                            *)
(*                                                                         *)
(* An issue shows a picture of its own because every candidate row of an   *)
(* article says the issue the article is in (Follow), except for articles  *)
(* that moved while a job held them; a job writes rows for the issue it    *)
(* loaded, which is the article's own unless it was overtaken (Known); and *)
(* a step that takes rows from an issue, or gives it some, selects for it. *)
(***************************************************************************)
EXTENDS IssueImages, TLAPS

Good(rs) == rs \subseteq Candidate /\ \A r \in rs : r.picture \notin Invalid

(* The rows of an article are for the issue it is in. *)
Follow == \A r \in rows :
  r.issue # None /\ r.article # None => home[r.article] = r.issue \/ r.article \in overtaken

(* What a job has loaded of an article is still so. *)
Known == \A w \in Workers :
  /\ session[w].asks \subseteq session[w].articles
  /\ session[w].job = "select" => session[w].issue \in Issues
  /\ \A a \in session[w].articles : home[a] = session[w].issue \/ a \in overtaken

IInv == TypeOK /\ Follow /\ Known /\ OwnPicture /\ ShowsWhatItHas
-----------------------------------------------------------------------------
(* Sets of rows. *)

(* A linked row was there and is not of S, or is of S and for i. *)
LEMMA LinkedRows ==
  ASSUME NEW rs, Good(rs), NEW S \in SUBSET Articles, NEW i \in Issues \cup {None}
  PROVE  /\ Good(Linked(rs, S, i))
         /\ \A r \in Linked(rs, S, i) :
              \/ r \in rs /\ r.article \notin S
              \/ r.article \in S /\ r.issue = i /\ Of(rs, S) # {}
         /\ \A r \in rs : r.article \notin S => r \in Linked(rs, S, i)
<1>1. ASSUME NEW q \in rs, q.article \in S
      PROVE  /\ [q EXCEPT !.issue = i] \in Candidate
             /\ [q EXCEPT !.issue = i].picture \notin Invalid
             /\ [q EXCEPT !.issue = i].article \in S
             /\ [q EXCEPT !.issue = i].issue = i
  BY <1>1 DEF Good, Candidate
<1>2. QED BY <1>1, ZenonT(30) DEF Good, Linked, Of

(* An upsert adds rows of the article for i, and takes no issue's row away. *)
LEMMA UpsertedRows ==
  ASSUME NEW rs, Good(rs), NEW a \in Articles, NEW ps \in SUBSET Pictures,
         NEW i \in Issues \cup {None}
  PROVE  /\ Good(Upserted(rs, a, ps, i))
         /\ \A r \in Upserted(rs, a, ps, i) : r \in rs \/ (r.article = a /\ r.issue = i)
         /\ \A r \in rs : r.issue # None => r \in Upserted(rs, a, ps, i)
<1>1. ASSUME NEW q \in rs, q.article = a
      PROVE  /\ [q EXCEPT !.issue = i] \in Candidate
             /\ [q EXCEPT !.issue = i].picture \notin Invalid
             /\ [q EXCEPT !.issue = i].article = a
             /\ [q EXCEPT !.issue = i].issue = i
  BY <1>1 DEF Good, Candidate
<1>2. ASSUME NEW p \in Valid(ps)
      PROVE  /\ [article |-> a, picture |-> p, issue |-> i] \in Candidate
             /\ p \notin Invalid
  BY <1>2 DEF Valid, Candidate
<1> DEFINE Old == {IF r.article = a /\ r.picture \in ps /\ r.issue = None
                     THEN [r EXCEPT !.issue = i] ELSE r : r \in rs}
           New == {[article |-> a, picture |-> p, issue |-> i] :
                     p \in {q \in Valid(ps) : \A r \in rs : r.article # a \/ r.picture # q}}
<1>3. Upserted(rs, a, ps, i) = Old \cup New
  BY DEF Upserted
<1>4. /\ Good(Old)
      /\ \A r \in Old : r \in rs \/ (r.article = a /\ r.issue = i)
      /\ \A r \in rs : r.issue # None => r \in Old
  BY <1>1 DEF Good
<1>5. Good(New) /\ \A r \in New : r.article = a /\ r.issue = i
  BY <1>2 DEF Good
<1> HIDE DEF Old, New
<1>6. QED BY <1>3, <1>4, <1>5 DEF Good

(* What a page declares is a set of pictures. *)
LEMMA DeclaredType == \A a \in Articles : Declared(a) \in SUBSET Pictures
<1> SUFFICES ASSUME NEW a \in Articles PROVE Declared(a) \in SUBSET Pictures
  OBVIOUS
<1>1. Page[a].meta \in SUBSET Pictures /\ Page[a].ld \in Seq(SUBSET Pictures)
  BY ImagesAssumption
<1>2. Len(Page[a].ld) = 1 => Page[a].ld[1] \in SUBSET Pictures
  BY <1>1
<1>3. QED BY <1>1, <1>2 DEF Declared, Valid

(* A job adds rows of the articles whose pages answered, for the issue it   *)
(* loaded.                                                                  *)
LEMMA HydratedRows ==
  ASSUME TypeOK, NEW w \in Workers, NEW answered \in SUBSET Articles
  PROVE  /\ Good(Hydrated(w, answered))
         /\ \A r \in Hydrated(w, answered) :
              r \in rows \/ (r.article \in answered /\ r.issue = session[w].issue)
         /\ \A r \in rows : r.issue # None => r \in Hydrated(w, answered)
<1> DEFINE i == session[w].issue
           U(a) == Upserted(Of(rows, {a}), a, Declared(a), i)
<1>1. i \in Issues \cup {None} /\ Good(rows)
  BY DEF TypeOK, Good
<1>2. /\ \A r \in Hydrated(w, answered) :
           (r \in rows /\ r.article \notin answered) \/ \E a \in answered : r \in U(a)
      /\ \A a \in answered : U(a) \subseteq Hydrated(w, answered)
      /\ \A r \in rows : r.article \notin answered => r \in Hydrated(w, answered)
  BY DEF Hydrated
<1>3. ASSUME NEW a \in answered
      PROVE  /\ Good(U(a))
             /\ \A r \in U(a) : r \in rows \/ (r.article = a /\ r.issue = i)
             /\ \A r \in rows : r.article = a /\ r.issue # None => r \in U(a)
  <2>1. Good(Of(rows, {a})) /\ a \in Articles /\ Declared(a) \in SUBSET Pictures
    BY <1>1, DeclaredType DEF Good, Of
  <2>2. /\ Good(U(a))
        /\ \A r \in U(a) : r \in Of(rows, {a}) \/ (r.article = a /\ r.issue = i)
        /\ \A r \in Of(rows, {a}) : r.issue # None => r \in U(a)
    BY <1>1, <2>1, UpsertedRows
  <2> HIDE DEF U
  <2>3. QED BY <2>2 DEF Of
<1> HIDE DEF U
<1>4. Good(Hydrated(w, answered))
  BY <1>1, <1>2, <1>3 DEF Good
<1>5. ASSUME NEW r \in Hydrated(w, answered)
      PROVE  r \in rows \/ (r.article \in answered /\ r.issue = i)
  BY <1>2, <1>3
<1>6. ASSUME NEW r \in rows, r.issue # None
      PROVE  r \in Hydrated(w, answered)
  BY <1>2, <1>3, <1>6
<1>7. QED BY <1>4, <1>5, <1>6
-----------------------------------------------------------------------------
(* Steps. *)

(* The rows of an issue that is not in T stay as they are. *)
Steady(T) == \A r \in rows \cup rows' :
  r.issue \notin T \cup {None} => (r \in rows <=> r \in rows')

(* A selection for every issue whose rows changed keeps both properties.    *)
LEMMA SelectionKeeps ==
  ASSUME IInv, NEW T, Selects(T, rows'), Good(rows'), Follow', Steady(T)
  PROVE  /\ OwnPicture' /\ ShowsWhatItHas'
         /\ shown' \in [Issues -> Pictures \cup {None}] /\ repaired' \subseteq Issues
<1> USE DEF Candidate
<1>1. /\ shown' \in [Issues -> Pictures \cup {None}] /\ repaired' = repaired \ T
      /\ repaired' \subseteq Issues
  <2>1. repaired' = repaired \ T /\ repaired' \subseteq Issues
    BY DEF Selects, IInv, TypeOK
  <2>2. ASSUME NEW i \in Issues
        PROVE  Best(rows', i) \subseteq Pictures \cup {None} /\ shown[i] \in Pictures \cup {None}
    BY DEF Best, Showable, Good, IInv, TypeOK
  <2>3. ASSUME NEW i \in Issues
        PROVE  shown'[i] \in IF i \in T THEN Best(rows', i) ELSE {shown[i]}
    BY <2>3 DEF Selects
  <2>4. shown' = [i \in Issues |-> shown'[i]]
    BY DEF Selects
  <2>5. \A i \in Issues : shown'[i] \in Pictures \cup {None}
    BY <2>2, <2>3
  <2>6. QED BY <2>1, <2>4, <2>5
<1>2. ASSUME NEW i \in Issues, i \in T
      PROVE  /\ Showable(rows', i) # {} => shown'[i] # None
             /\ shown'[i] # None => \E r \in rows' : r.issue = i /\ r.picture = shown'[i]
  <2>1. shown'[i] \in Best(rows', i)
    BY <1>2 DEF Selects
  <2>2. \A r \in Showable(rows', i) : r \in rows' /\ r.issue = i /\ r.picture \in Pictures
    BY DEF Showable, Good
  <2>3. CASE Showable(rows', i) = {}
    BY <2>1, <2>3 DEF Best
  <2>4. CASE Showable(rows', i) # {}
    <3>1. \E r \in Showable(rows', i) : shown'[i] = r.picture
      BY <2>1, <2>4 DEF Best
    <3>2. QED BY <2>2, <3>1, ImagesAssumption
  <2>5. QED BY <2>3, <2>4
<1>3. ASSUME NEW i \in Issues, i \notin T
      PROVE  /\ shown'[i] = shown[i] /\ Showable(rows', i) = Showable(rows, i)
             /\ \A r \in rows : r.issue = i => r \in rows'
  <2>1. i # None
    BY ImagesAssumption
  <2>2. QED BY <1>3, <2>1 DEF Selects, Steady, Showable
<1>4. ASSUME NEW i \in Issues, shown'[i] # None, i \notin repaired'
      PROVE  \E r \in rows' : r.picture = shown'[i] /\ r.issue = i
  <2>1. CASE i \in T
    BY <1>2, <1>4, <2>1
  <2>2. CASE i \notin T
    BY <1>1, <1>3, <1>4, <2>2 DEF IInv, OwnPicture
  <2>3. QED BY <2>1, <2>2
<1>5. OwnPicture'
  <2> SUFFICES ASSUME NEW i \in Issues, shown'[i] # None, i \notin repaired'
               PROVE  \E r \in rows' : /\ r.picture = shown'[i] /\ r.issue = i
                                       /\ r.article # None => home'[r.article] = i \/ r.article \in overtaken'
    BY DEF OwnPicture
  <2>1. PICK r \in rows' : r.picture = shown'[i] /\ r.issue = i
    BY <1>4
  <2>2. i # None
    BY ImagesAssumption
  <2>3. QED BY <2>1, <2>2 DEF Follow
<1>6. ShowsWhatItHas'
  BY <1>2, <1>3 DEF IInv, ShowsWhatItHas
<1>7. QED BY <1>1, <1>5, <1>6

(* Linking changes the rows of the issue linked to and of those left only.  *)
LEMMA LinkedSteady ==
  ASSUME NEW rs, Good(rs), NEW S \in SUBSET Articles, NEW i \in Issues \cup {None}, NEW T,
         rows' = Linked(rs, S, i),
         Of(rs, S) # {} => {i} \cup Previous(rs, S) \subseteq T,
         \A r \in rows : r.issue \notin T \cup {None} => r \in rs,
         \A r \in rs : r.issue \notin T \cup {None} => r \in rows \/ r.article \in S
  PROVE  Steady(T)
<1> SUFFICES ASSUME NEW r \in rows \cup rows', r.issue \notin T \cup {None}
             PROVE  r \in rows <=> r \in rows'
  BY DEF Steady
<1>1. ASSUME r \in rows PROVE r \in rows'
  <2>1. r \in rs
    BY <1>1
  <2>2. r.article \notin S
    BY <2>1 DEF Of, Previous
  <2>3. QED BY <2>1, <2>2, LinkedRows
<1>2. ASSUME r \in rows' PROVE r \in rows
  BY <1>2, LinkedRows
<1>3. QED BY <1>1, <1>2

(* Rows linked to the issue that their articles move to follow them. *)
LEMMA LinkedFollow ==
  ASSUME TypeOK, Follow, NEW rs, Good(rs), NEW S \in SUBSET Articles, NEW i \in Issues,
         Moves(S, i), rows' = Linked(rs, S, i),
         \A r \in rs : r \in rows \/ r.article \in S \cup {None} \cup overtaken
  PROVE  Follow' /\ Good(rows')
<1>1. Good(rows')
  BY LinkedRows
<1>2. ASSUME NEW r \in rows', r.issue # None, r.article # None
      PROVE  home'[r.article] = r.issue \/ r.article \in overtaken'
  <2>1. r.article \in Articles
    BY <1>1, <1>2 DEF Good, Candidate
  <2>2. CASE r.article \in S /\ r.issue = i
    BY <2>1, <2>2 DEF Moves, Gets
  <2>3. CASE r \in rs /\ r.article \notin S
    <3>1. r.article \in overtaken => r.article \in overtaken'
      BY <2>3 DEF Moves
    <3>2. home'[r.article] = home[r.article]
      BY <2>1, <2>3 DEF Moves, Gets
    <3>3. QED BY <1>2, <2>3, <3>1, <3>2 DEF Follow
  <2>4. QED BY <2>2, <2>3, LinkedRows
<1>3. QED BY <1>1, <1>2 DEF Follow

(* A move overtakes the jobs that hold what was so before. *)
LEMMA MoveKnown ==
  ASSUME TypeOK, Known, NEW S \in SUBSET Articles, NEW i \in Issues \cup {None},
         Moves(S, i) \/ MovesBare(S, i),
         \A w \in Workers : session'[w] \in {Rest, session[w]}
  PROVE  /\ home' \in [Articles -> Issues \cup {None, Uncollected}]
         /\ overtaken' \subseteq Articles
         /\ Known'
<1>1. home' \in [Articles -> Issues \cup {None, Uncollected}] /\ overtaken' \subseteq Articles
  BY DEF TypeOK, Moves, MovesBare, Gets, HeldElsewhere
<1>2. ASSUME NEW w \in Workers, NEW a \in session'[w].articles
      PROVE  home'[a] = session'[w].issue \/ a \in overtaken'
  <2>1. a \in session[w].articles /\ session'[w] = session[w]
    BY <1>2 DEF Rest
  <2>2. a \in Articles
    BY <2>1 DEF TypeOK
  <2>3. CASE a \in S
    BY <1>2, <2>2, <2>3 DEF Moves, MovesBare, Gets, HeldElsewhere
  <2>4. CASE a \notin S
    BY <2>1, <2>2, <2>4 DEF Moves, MovesBare, Gets, Known
  <2>5. QED BY <2>3, <2>4
<1>3. ASSUME NEW w \in Workers
      PROVE  /\ session'[w].asks \subseteq session'[w].articles
             /\ session'[w].job = "select" => session'[w].issue \in Issues
  BY DEF Rest, Known
<1>4. QED BY <1>1, <1>2, <1>3 DEF Known
-----------------------------------------------------------------------------
(* Sessions that change keep the type; the types of the rest are given.     *)
LEMMA Concludes ==
  ASSUME IInv, Good(rows'), Follow', Known', OwnPicture', ShowsWhatItHas',
         home' \in [Articles -> Issues \cup {None, Uncollected}],
         fetch' \in [Articles -> {"no", "eligible", "attempted"}],
         shown' \in [Issues -> Pictures \cup {None}],
         session' \in [Workers -> [job : {"none", "parse", "select"}, issue : Issues \cup {None},
                                   articles : SUBSET Articles, asks : SUBSET Articles]],
         repaired' \subseteq Issues, overtaken' \subseteq Articles
  PROVE  IInv'
BY DEF IInv, TypeOK, Good

(* A step that moves no picture and selects nothing. *)
LEMMA QuietKeeps ==
  ASSUME IInv, UNCHANGED <<home, rows, shown, repaired, overtaken>>
  PROVE  Good(rows') /\ Follow' /\ OwnPicture' /\ ShowsWhatItHas'
BY DEF IInv, TypeOK, Good, Follow, OwnPicture, ShowsWhatItHas, Showable

LEMMA RestType ==
  Rest \in [job : {"none", "parse", "select"}, issue : Issues \cup {None},
            articles : SUBSET Articles, asks : SUBSET Articles]
BY DEF Rest

(* Loading, and a fault. *)
LEMMA StartsKeep ==
  ASSUME IInv,
         NEW w \in Workers,
         \/ \E a \in Articles : StartParse(w, a)
         \/ \E i \in Issues : StartSelect(w, i)
         \/ Fault(w)
  PROVE  IInv'
<1>1. UNCHANGED <<home, fetch, rows, shown, repaired, overtaken>>
  BY DEF StartParse, StartSelect, Fault
<1>2. PICK new \in [job : {"none", "parse", "select"}, issue : Issues \cup {None},
                    articles : SUBSET Articles, asks : SUBSET Articles] :
        /\ session' = [session EXCEPT ![w] = new]
        /\ new.asks \subseteq new.articles
        /\ new.job = "select" => new.issue \in Issues
        /\ \A a \in new.articles : home[a] = new.issue
  <2>1. CASE \E a \in Articles : StartParse(w, a)
    <3>1. PICK a \in Articles : StartParse(w, a)
      BY <2>1
    <3> DEFINE new == [job |-> "parse", issue |-> home[a], articles |-> {a},
                       asks |-> IF fetch[a] = "eligible" THEN {a} ELSE {}]
    <3>2. home[a] \in Issues \cup {None}
      BY <3>1 DEF StartParse, IInv, TypeOK
    <3>3. /\ new \in [job : {"none", "parse", "select"}, issue : Issues \cup {None},
                      articles : SUBSET Articles, asks : SUBSET Articles]
          /\ new.asks \subseteq new.articles /\ new.job = "parse"
          /\ \A x \in new.articles : home[x] = new.issue
      BY <3>2
    <3>4. session' = [session EXCEPT ![w] = new]
      BY <3>1 DEF StartParse
    <3> HIDE DEF new
    <3>5. QED BY <3>3, <3>4
  <2>2. CASE \E i \in Issues : StartSelect(w, i)
    <3>1. PICK i \in Issues : StartSelect(w, i)
      BY <2>2
    <3> DEFINE new == [job |-> "select", issue |-> i, articles |-> Bare(i), asks |-> Bare(i)]
    <3>2. /\ new \in [job : {"none", "parse", "select"}, issue : Issues \cup {None},
                      articles : SUBSET Articles, asks : SUBSET Articles]
          /\ new.asks \subseteq new.articles /\ new.issue \in Issues
          /\ \A x \in new.articles : home[x] = new.issue
      BY DEF Bare
    <3>3. session' = [session EXCEPT ![w] = new]
      BY <3>1 DEF StartSelect
    <3> HIDE DEF new
    <3>4. QED BY <3>2, <3>3
  <2>3. CASE Fault(w)
    <3>1. Rest.articles = {} /\ Rest.asks = {} /\ Rest.job = "none"
      BY DEF Rest
    <3>2. QED BY <2>3, <3>1, RestType DEF Fault
  <2>4. QED BY <2>1, <2>2, <2>3
<1>3. Known'
  BY <1>1, <1>2 DEF Known, IInv, TypeOK
<1>4. QED BY <1>1, <1>2, <1>3, QuietKeeps, Concludes DEF IInv, TypeOK

(* Everything that moves the articles S to i and links their pictures.      *)
LEMMA LinkedMoveKeeps ==
  ASSUME IInv, NEW rs, Good(rs), NEW S \in SUBSET Articles, NEW i \in Issues, NEW T,
         Moves(S, i), rows' = Linked(rs, S, i), Selects(T, rows'),
         \A r \in rs : r \in rows \/ r.article \in S \cup {None} \cup overtaken,
         Of(rs, S) # {} => {i} \cup Previous(rs, S) \subseteq T,
         \A r \in rows : r.issue \notin T \cup {None} => r \in rs,
         \A r \in rs : r.issue \notin T \cup {None} => r \in rows \/ r.article \in S,
         \A w \in Workers : session'[w] \in {Rest, session[w]},
         session' \in [Workers -> [job : {"none", "parse", "select"}, issue : Issues \cup {None},
                                   articles : SUBSET Articles, asks : SUBSET Articles]],
         fetch' \in [Articles -> {"no", "eligible", "attempted"}]
  PROVE  IInv'
<1>1. TypeOK /\ Follow /\ Known
  BY DEF IInv
<1>2. Follow' /\ Good(rows')
  BY <1>1, LinkedFollow
<1>3. Steady(T)
  BY LinkedSteady
<1>4. /\ OwnPicture' /\ ShowsWhatItHas'
      /\ shown' \in [Issues -> Pictures \cup {None}] /\ repaired' \subseteq Issues
  BY <1>2, <1>3, SelectionKeeps
<1>5. /\ home' \in [Articles -> Issues \cup {None, Uncollected}]
      /\ overtaken' \subseteq Articles
      /\ Known'
  BY <1>1, MoveKnown
<1>6. QED BY <1>2, <1>4, <1>5, Concludes

(* The operator's and the publisher's moves. *)
LEMMA OperatorKeeps ==
  ASSUME IInv,
         \E i \in Issues :
           \/ \E S \in SUBSET Articles : Publish(S, i)
           \/ \E j \in Issues : Merge(i, j)
           \/ \E a \in Articles : Split(a, i)
  PROVE  IInv'
<1>1. Good(rows) /\ Follow
  BY DEF IInv, TypeOK, Good
<1>2. PICK i \in Issues :
           \/ \E S \in SUBSET Articles : Publish(S, i)
           \/ \E j \in Issues : Merge(i, j)
           \/ \E a \in Articles : Split(a, i)
  OBVIOUS
<1>3. UNCHANGED <<session, fetch>>
  BY <1>2 DEF Publish, Merge, Split
<1>4. /\ \A w \in Workers : session'[w] \in {Rest, session[w]}
      /\ session' \in [Workers -> [job : {"none", "parse", "select"}, issue : Issues \cup {None},
                                   articles : SUBSET Articles, asks : SUBSET Articles]]
      /\ fetch' \in [Articles -> {"no", "eligible", "attempted"}]
  BY <1>3 DEF IInv, TypeOK
<1>5. ASSUME NEW S \in SUBSET Articles, Moves(S, i), rows' = Linked(rows, S, i),
             Selects({i} \cup Previous(rows, S), rows')
      PROVE  IInv'
  BY <1>1, <1>4, <1>5, LinkedMoveKeeps, SMTT(20)
<1>6. CASE \E S \in SUBSET Articles : Publish(S, i)
  BY <1>5, <1>6 DEF Publish
<1>7. CASE \E a \in Articles : Split(a, i)
  BY <1>5, <1>7 DEF Split
<1>8. CASE \E j \in Issues : Merge(i, j)
  <2>1. PICK j \in Issues : Merge(i, j)
    BY <1>8
  <2> DEFINE S == {a \in Articles : home[a] = i}
             rs == {IF r.issue = i THEN [r EXCEPT !.issue = j] ELSE r : r \in rows}
             left == IF \E r \in rows : r.issue = i THEN {i} ELSE {}
             T == {j} \cup left \cup Previous(rs, S)
  <2>2. Moves(S, j) /\ rows' = Linked(rs, S, j) /\ Selects(T, rows')
    BY <2>1 DEF Merge
  <2>3. ASSUME NEW q \in rows, q.issue = i
        PROVE  /\ [q EXCEPT !.issue = j] \in Candidate
               /\ [q EXCEPT !.issue = j].picture \notin Invalid
               /\ [q EXCEPT !.issue = j].issue = j
               /\ [q EXCEPT !.issue = j].article = q.article
    BY <1>1, <2>3 DEF Good, Candidate
  <2>4. Good(rs)
    BY <1>1, <2>3 DEF Good
  <2>5. \A r \in rs : r \in rows \/ (r.issue = j /\ \E q \in rows : q.issue = i /\ q.article = r.article)
    BY <2>3
  <2>6. \A r \in rows : r.issue # i => r \in rs
    OBVIOUS
  <2>7. ASSUME NEW q \in rows, q.issue = i
        PROVE  q.article \in S \cup {None} \cup overtaken
    <3>1. i # None
      BY ImagesAssumption
    <3>2. q.article \in Articles \cup {None}
      BY <1>1 DEF Good, Candidate
    <3>3. QED BY <1>1, <2>7, <3>1, <3>2 DEF Follow
  <2>8. \A r \in rs : r \in rows \/ r.article \in S \cup {None} \cup overtaken
    BY <2>5, <2>7
  <2>9. {j} \cup Previous(rs, S) \subseteq T /\ \A r \in rows : r.issue \notin T \cup {None} => r \in rs
    BY <2>6
  <2>10. \A r \in rs : r.issue \notin T \cup {None} => r \in rows \/ r.article \in S
    BY <2>5
  <2>11. S \in SUBSET Articles
    OBVIOUS
  <2> HIDE DEF S, rs, left, T
  <2>12. QED BY <1>4, <2>2, <2>4, <2>8, <2>9, <2>10, <2>11, LinkedMoveKeeps
<1>9. QED BY <1>2, <1>6, <1>7, <1>8

SessionSet == [job : {"none", "parse", "select"}, issue : Issues \cup {None},
               articles : SUBSET Articles, asks : SUBSET Articles]

(* A handler that moves the articles S to i and links what it found.        *)
LEMMA LinksKeep ==
  ASSUME IInv, NEW rs, Good(rs), NEW S \in SUBSET Articles, NEW i \in Issues,
         Moves(S, i), LinksAndSelects(rs, S, i),
         \A r \in rs : r \in rows \/ r.article \in S,
         \A r \in rows : r.issue # None => r \in rs,
         \A w \in Workers : session'[w] \in {Rest, session[w]},
         session' \in [Workers -> SessionSet],
         fetch' \in [Articles -> {"no", "eligible", "attempted"}]
  PROVE  IInv'
<1> DEFINE T == IF Of(rs, S) = {} THEN {} ELSE {i} \cup Previous(rs, S)
<1>1. Selects(T, rows') /\ rows' = Linked(rs, S, i)
  BY DEF LinksAndSelects
<1>2. Of(rs, S) # {} => {i} \cup Previous(rs, S) \subseteq T
  OBVIOUS
<1> HIDE DEF T
<1>3. QED BY <1>1, <1>2, LinkedMoveKeeps DEF SessionSet

LEMMA CollectKeeps ==
  ASSUME IInv, NEW a \in Articles, NEW i \in Issues \cup {None}, Collect(a, i)
  PROVE  IInv'
<1> DEFINE first == Stored(a, i)
           rs == Upserted(rows, a, Feed[a], first)
<1>1. /\ Good(rows) /\ Follow /\ Known /\ TypeOK
      /\ home[a] \in Issues \cup {None, Uncollected} /\ Feed[a] \in SUBSET Pictures
  BY ImagesAssumption DEF IInv, TypeOK, Good
<1>2. first \in Issues \cup {None} /\ (home[a] \in Issues => first = home[a])
  BY <1>1, ImagesAssumption DEF Stored
<1>3. /\ Good(rs)
      /\ \A r \in rs : r \in rows \/ (r.article = a /\ r.issue = first)
      /\ \A r \in rows : r.issue # None => r \in rs
  BY <1>1, <1>2, UpsertedRows
<1>4. /\ \A w \in Workers : session'[w] \in {Rest, session[w]}
      /\ session' \in [Workers -> SessionSet]
      /\ fetch' \in [Articles -> {"no", "eligible", "attempted"}]
  BY DEF Collect, Eligible, IInv, TypeOK, SessionSet
<1>5. \/ MovesBare({a}, first) /\ rows' = rs /\ Selects({first} \ {None}, rs)
      \/ i \in Issues /\ Moves({a}, i) /\ LinksAndSelects(rs, {a}, i)
  BY DEF Collect
<1> HIDE DEF first, rs
<1>6. CASE i \in Issues /\ Moves({a}, i) /\ LinksAndSelects(rs, {a}, i)
  BY <1>3, <1>4, <1>6, LinksKeep
<1>7. CASE MovesBare({a}, first) /\ rows' = rs /\ Selects({first} \ {None}, rs)
  <2>1. ASSUME NEW r \in rows', r.issue # None, r.article # None
        PROVE  home'[r.article] = r.issue \/ r.article \in overtaken'
    <3>1. r.article \in Articles /\ r.issue \in Issues
      BY <1>3, <1>7, <2>1 DEF Good, Candidate
    <3>2. CASE r.article = a /\ r.issue = first
      BY <1>7, <3>1, <3>2 DEF MovesBare, Gets
    <3>3. CASE r \in rows
      <4>1. home[r.article] = r.issue \/ r.article \in overtaken
        BY <1>1, <2>1, <3>3 DEF Follow
      <4>2. QED BY <1>2, <1>7, <3>1, <4>1 DEF MovesBare, Gets
    <3>4. QED BY <1>3, <1>7, <3>2, <3>3
  <2>2. Follow'
    BY <2>1 DEF Follow
  <2>3. Steady({first} \ {None})
    BY <1>3, <1>7 DEF Steady
  <2>4. Good(rows') /\ Selects({first} \ {None}, rows')
    BY <1>3, <1>7
  <2>5. /\ OwnPicture' /\ ShowsWhatItHas'
        /\ shown' \in [Issues -> Pictures \cup {None}] /\ repaired' \subseteq Issues
    BY <2>2, <2>3, <2>4, SelectionKeeps
  <2>6. /\ home' \in [Articles -> Issues \cup {None, Uncollected}]
        /\ overtaken' \subseteq Articles
        /\ Known'
    BY <1>1, <1>2, <1>4, <1>7, MoveKnown
  <2>7. QED BY <1>4, <2>2, <2>4, <2>5, <2>6, Concludes DEF SessionSet
<1>8. QED BY <1>5, <1>6, <1>7

(* What a job writes with what it loaded. *)
LEMMA CommitsKeep ==
  ASSUME IInv, NEW w \in Workers, NEW answered \in SUBSET session[w].asks,
         CommitParse(w, answered) \/ CommitSelect(w, answered)
  PROVE  IInv'
<1> DEFINE i == session[w].issue
           S == session[w].articles
           rs == Hydrated(w, answered)
<1>1. /\ Good(rows) /\ Follow /\ Known /\ TypeOK
      /\ i \in Issues \cup {None} /\ S \in SUBSET Articles /\ answered \in SUBSET S
      /\ \A a \in S : home[a] = i \/ a \in overtaken
  BY DEF IInv, TypeOK, Good, Known
<1>2. /\ Good(rs)
      /\ \A r \in rs : r \in rows \/ (r.article \in answered /\ r.issue = i)
      /\ \A r \in rows : r.issue # None => r \in rs
  BY <1>1, HydratedRows
<1>3. /\ session' = [session EXCEPT ![w] = Rest]
      /\ fetch' = [a \in Articles |-> IF a \in session[w].asks THEN "attempted" ELSE fetch[a]]
  BY DEF CommitParse, CommitSelect, Attempts
<1>4. /\ \A x \in Workers : session'[x] \in {Rest, session[x]}
      /\ session' \in [Workers -> SessionSet]
      /\ fetch' \in [Articles -> {"no", "eligible", "attempted"}]
  BY <1>1, <1>3, RestType DEF TypeOK, SessionSet
<1>5. ASSUME UNCHANGED <<home, overtaken>>, Good(rows'),
             \A r \in rows' : r \in rows \/ r.issue = None \/ (r.article \in S /\ r.issue = i),
             NEW T, Steady(T), Selects(T, rows')
      PROVE  IInv'
  <2>1. Follow'
    BY <1>1, <1>5 DEF Follow
  <2>2. Known'
    BY <1>1, <1>4, <1>5 DEF Known, Rest
  <2>3. /\ OwnPicture' /\ ShowsWhatItHas'
        /\ shown' \in [Issues -> Pictures \cup {None}] /\ repaired' \subseteq Issues
    BY <1>5, <2>1, SelectionKeeps
  <2>4. QED BY <1>1, <1>4, <1>5, <2>1, <2>2, <2>3, Concludes DEF TypeOK, SessionSet
<1>6. \/ i = None /\ rows' = rs /\ UNCHANGED <<home, shown, repaired, overtaken>>
      \/ \E j \in Issues : Moves(S, j) /\ LinksAndSelects(rs, S, j)
      \/ LinksAndSelects(rs, S, i) /\ UNCHANGED <<home, overtaken>>
      \/ rows' = rs /\ Selects({i}, rows') /\ UNCHANGED <<home, overtaken>>
  BY DEF CommitParse, CommitSelect
<1> HIDE DEF i, S, rs
<1>7. CASE i = None /\ rows' = rs /\ UNCHANGED <<home, shown, repaired, overtaken>>
  <2>1. Steady({})
    BY <1>2, <1>7 DEF Steady
  <2>2. Selects({}, rows')
    BY <1>1, <1>7 DEF Selects, TypeOK
  <2>3. Good(rows') /\ \A r \in rows' : r \in rows \/ r.issue = None
    BY <1>2, <1>7
  <2>4. QED BY <1>5, <1>7, <2>1, <2>2, <2>3
<1>8. CASE \E j \in Issues : Moves(S, j) /\ LinksAndSelects(rs, S, j)
  <2>1. \A r \in rs : r \in rows \/ r.article \in S
    BY <1>1, <1>2
  <2>2. QED BY <1>1, <1>2, <1>4, <1>8, <2>1, LinksKeep
<1>9. CASE LinksAndSelects(rs, S, i) /\ UNCHANGED <<home, overtaken>>
  <2> DEFINE T == IF Of(rs, S) = {} THEN {} ELSE {i} \cup Previous(rs, S)
  <2>1. Selects(T, rows') /\ rows' = Linked(rs, S, i)
    BY <1>9 DEF LinksAndSelects
  <2>2. Of(rs, S) # {} => {i} \cup Previous(rs, S) \subseteq T
    OBVIOUS
  <2> HIDE DEF T
  <2>3. \A r \in rs : r \in rows \/ r.article \in S
    BY <1>1, <1>2
  <2>4. Steady(T)
    BY <1>1, <1>2, <2>1, <2>2, <2>3, LinkedSteady
  <2>5. Good(rows') /\ \A r \in rows' : r \in rows \/ (r.article \in S /\ r.issue = i)
    <3>1. S \in SUBSET Articles /\ i \in Issues \cup {None} /\ Good(rs)
      BY <1>1, <1>2
    <3>2. Good(Linked(rs, S, i))
      BY <3>1, LinkedRows
    <3>3. \A r \in Linked(rs, S, i) :
            (r \in rs /\ r.article \notin S) \/ (r.article \in S /\ r.issue = i)
      BY <3>1, LinkedRows
    <3>4. QED BY <2>1, <2>3, <3>2, <3>3
  <2>6. QED BY <1>5, <1>9, <2>1, <2>4, <2>5
<1>10. CASE rows' = rs /\ Selects({i}, rows') /\ UNCHANGED <<home, overtaken>>
  <2>1. Steady({i})
    BY <1>2, <1>10 DEF Steady
  <2>2. QED BY <1>1, <1>2, <1>5, <1>10, <2>1
<1>11. QED BY <1>6, <1>7, <1>8, <1>9, <1>10

(* The operator's picture. *)
LEMMA ByHandKeeps ==
  ASSUME IInv, NEW i \in Issues, NEW p \in ByHand, SetByHand(i, p)
  PROVE  IInv'
<1> DEFINE new == [article |-> None, picture |-> p, issue |-> i]
<1>1. new \in Candidate /\ new.picture = p /\ new.issue = i /\ new.article = None /\ p \in Pictures
  BY ImagesAssumption DEF Candidate
<1>2. /\ rows' = rows \cup {new} /\ shown' = [shown EXCEPT ![i] = p] /\ p \notin Invalid
      /\ UNCHANGED <<home, fetch, session, repaired, overtaken>>
  BY DEF SetByHand
<1> HIDE DEF new
<1>3. Good(rows') /\ shown' \in [Issues -> Pictures \cup {None}]
  BY <1>1, <1>2 DEF IInv, TypeOK, Good
<1>4. Follow' /\ Known'
  BY <1>1, <1>2 DEF IInv, Follow, Known
<1>5. ASSUME NEW j \in Issues
      PROVE  IF j = i THEN shown'[j] = p ELSE shown'[j] = shown[j]
  BY <1>2 DEF IInv, TypeOK
<1>6. ASSUME NEW j \in Issues, shown'[j] # None, j \notin repaired'
      PROVE  \E r \in rows' : /\ r.picture = shown'[j] /\ r.issue = j
                              /\ r.article # None => home'[r.article] = j \/ r.article \in overtaken'
  <2>1. CASE j = i
    BY <1>1, <1>2, <1>5, <2>1
  <2>2. CASE j # i
    BY <1>2, <1>5, <1>6, <2>2 DEF IInv, OwnPicture
  <2>3. QED BY <2>1, <2>2
<1>7. ASSUME NEW j \in Issues, Showable(rows', j) # {}
      PROVE  shown'[j] # None
  <2>1. CASE j = i
    BY <1>1, <1>5, <2>1, ImagesAssumption
  <2>2. CASE j # i
    <3>1. Showable(rows', j) = Showable(rows, j)
      BY <1>1, <1>2, <2>2 DEF Showable
    <3>2. QED BY <1>5, <1>7, <2>2, <3>1 DEF IInv, ShowsWhatItHas
  <2>3. QED BY <2>1, <2>2
<1>8. OwnPicture' /\ ShowsWhatItHas'
  BY <1>6, <1>7 DEF OwnPicture, ShowsWhatItHas
<1>9. QED BY <1>2, <1>3, <1>4, <1>8, Concludes DEF IInv, TypeOK

(* The repair takes rows away and says so. *)
LEMMA RepairKeeps ==
  ASSUME IInv, NEW S \in SUBSET Articles, Repair(S)
  PROVE  IInv'
<1>1. /\ Good(rows) /\ Follow /\ Known /\ TypeOK
      /\ MovesBare(S, None) /\ UNCHANGED <<session, fetch, shown>>
      /\ \A a \in S : home[a] \in Issues
      /\ repaired' = repaired \cup {home[a] : a \in S}
  BY DEF IInv, TypeOK, Good, Repair
<1>2. ASSUME NEW q \in rows
      PROVE  /\ [q EXCEPT !.issue = None] \in Candidate
             /\ [q EXCEPT !.issue = None].picture \notin Invalid
             /\ [q EXCEPT !.issue = None].issue = None
  BY <1>1 DEF Good, Candidate
<1>3. rows' = {IF r.article \in S /\ r.issue = home[r.article] THEN [r EXCEPT !.issue = None] ELSE r :
                 r \in rows}
  BY DEF Repair
<1>4. /\ Good(rows')
      /\ \A r \in rows' : \/ r.issue = None
                          \/ r \in rows /\ ~(r.article \in S /\ r.issue = home[r.article])
      /\ \A r \in rows : ~(r.article \in S /\ r.issue = home[r.article]) => r \in rows'
  <2> DEFINE Lost(r) == r.article \in S /\ r.issue = home[r.article]
  <2>1. rows' = {IF Lost(r) THEN [r EXCEPT !.issue = None] ELSE r : r \in rows}
    BY <1>3
  <2> HIDE DEF Lost
  <2>2. /\ Good(rows')
        /\ \A r \in rows' : r.issue = None \/ (r \in rows /\ ~Lost(r))
        /\ \A r \in rows : ~Lost(r) => r \in rows'
    BY <1>1, <1>2, <2>1 DEF Good
  <2>3. QED BY <2>2 DEF Lost
<1>5. /\ home' \in [Articles -> Issues \cup {None, Uncollected}] /\ overtaken' \subseteq Articles
      /\ Known'
  BY <1>1, MoveKnown
<1>6. overtaken \subseteq overtaken' /\ \A a \in Articles \ S : home'[a] = home[a]
  BY <1>1 DEF MovesBare, Gets
<1>7. ASSUME NEW r \in rows', r.issue # None, r.article # None
      PROVE  home'[r.article] = r.issue \/ r.article \in overtaken'
  <2>1. r \in rows /\ r.article \in Articles /\ ~(r.article \in S /\ r.issue = home[r.article])
    BY <1>4, <1>7 DEF Good, Candidate
  <2>2. home[r.article] = r.issue \/ r.article \in overtaken
    BY <1>1, <1>7, <2>1 DEF Follow
  <2>3. QED BY <1>6, <2>1, <2>2
<1>8. Follow'
  BY <1>7 DEF Follow
<1>9. ASSUME NEW i \in Issues, shown'[i] # None, i \notin repaired'
      PROVE  \E r \in rows' : /\ r.picture = shown'[i] /\ r.issue = i
                              /\ r.article # None => home'[r.article] = i \/ r.article \in overtaken'
  <2>1. shown[i] # None /\ i \notin repaired /\ \A a \in S : home[a] # i
    BY <1>1, <1>9
  <2>2. PICK r \in rows : /\ r.picture = shown[i] /\ r.issue = i
                          /\ r.article # None => home[r.article] = i \/ r.article \in overtaken
    BY <1>1, <2>1 DEF IInv, OwnPicture
  <2>3. ~(r.article \in S /\ r.issue = home[r.article])
    BY <2>1, <2>2
  <2>4. r \in rows'
    BY <1>4, <2>2, <2>3
  <2>5. i # None /\ shown'[i] = shown[i]
    BY <1>1, ImagesAssumption
  <2>6. QED BY <1>7, <2>2, <2>4, <2>5
<1>10. OwnPicture'
  BY <1>9 DEF OwnPicture
<1>11. ASSUME NEW i \in Issues PROVE Showable(rows', i) \subseteq Showable(rows, i)
  <2>1. i # None
    BY ImagesAssumption
  <2>2. QED BY <1>4, <2>1 DEF Showable
<1>12. ShowsWhatItHas'
  BY <1>1, <1>11 DEF IInv, ShowsWhatItHas
<1>13. fetch' \in [Articles -> {"no", "eligible", "attempted"}] /\ repaired' \subseteq Issues
  BY <1>1 DEF TypeOK
<1>14. QED BY <1>1, <1>4, <1>5, <1>8, <1>10, <1>12, <1>13, Concludes DEF TypeOK
-----------------------------------------------------------------------------
LEMMA ImagesInit == Init => IInv
<1> SUFFICES ASSUME Init PROVE IInv
  OBVIOUS
<1> USE DEF Init
<1>1. TypeOK
  BY RestType DEF TypeOK
<1>2. Follow /\ Known
  BY DEF Follow, Known, Rest
<1>3. OwnPicture /\ ShowsWhatItHas
  BY DEF OwnPicture, ShowsWhatItHas, Showable
<1>4. QED BY <1>1, <1>2, <1>3 DEF IInv

LEMMA ImagesNext == IInv /\ [Next]_vars => IInv'
<1> SUFFICES ASSUME IInv, [Next]_vars PROVE IInv'
  OBVIOUS
<1>1. CASE \E a \in Articles : \E i \in Issues \cup {None} : Collect(a, i)
  BY <1>1, CollectKeeps
<1>2. ASSUME NEW w \in Workers,
             \/ \E a \in Articles : StartParse(w, a)
             \/ \E i \in Issues : StartSelect(w, i)
             \/ Fault(w)
      PROVE  IInv'
  BY <1>2, StartsKeep
<1>3. ASSUME NEW w \in Workers, NEW answered \in SUBSET session[w].asks,
             CommitParse(w, answered) \/ CommitSelect(w, answered)
      PROVE  IInv'
  BY <1>3, CommitsKeep
<1>4. ASSUME NEW i \in Issues,
             \/ \E S \in SUBSET Articles : Publish(S, i)
             \/ \E j \in Issues : Merge(i, j)
             \/ \E a \in Articles : Split(a, i)
      PROVE  IInv'
  BY <1>4, OperatorKeeps
<1>5. CASE \E i \in Issues : \E p \in ByHand : SetByHand(i, p)
  BY <1>5, ByHandKeeps
<1>6. CASE \E S \in SUBSET Articles : Repair(S)
  BY <1>6, RepairKeeps
<1>7. CASE UNCHANGED vars
  BY <1>7 DEF vars, IInv, TypeOK, Follow, Known, OwnPicture, ShowsWhatItHas, Showable
<1>8. QED BY <1>1, <1>2, <1>3, <1>4, <1>5, <1>6, <1>7 DEF Next

(* The rows, the issues' pictures and the jobs keep their types.            *)
THEOREM ImagesTypeCorrect == Spec => []TypeOK
<1>1. IInv => TypeOK
  BY DEF IInv
<1>2. QED BY ImagesInit, ImagesNext, <1>1, PTL DEF Spec

(* An issue shows a picture of its own articles or one an operator gave,    *)
(* unless a repair or an overtaken job comes between                        *)
(* (select_representative_image after every other move of an article).      *)
THEOREM PictureIsOwn == Spec => []OwnPicture
<1>1. IInv => OwnPicture
  BY DEF IInv
<1>2. QED BY ImagesInit, ImagesNext, <1>1, PTL DEF Spec

(* An issue that has a picture worth showing shows one.                     *)
THEOREM PictureIsShown == Spec => []ShowsWhatItHas
<1>1. IInv => ShowsWhatItHas
  BY DEF IInv
<1>2. QED BY ImagesInit, ImagesNext, <1>1, PTL DEF Spec
=============================================================================
