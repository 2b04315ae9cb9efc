---------------------------- MODULE MCQualityLoop ----------------------------
(* Instances of QualityLoop: an issue with all it needs, one whose official  *)
(* source is missing, one without the number changes.                         *)
EXTENDS QualityLoop
CONSTANTS w1, w2
Whole == [total |-> 4, relevant |-> 4, publishers |-> 2, official |-> 1, claims |-> 2,
          evidences |-> 1, facts |-> 1, perspectives |-> 1, timeline |-> 1,
          numbers |-> 1, changes |-> 1, bad |-> 0, parsed |-> 4]
NoOfficial == [Whole EXCEPT !.official = 0]
NoChanges == [Whole EXCEPT !.changes = 0]
SomeContents == {Whole, NoOfficial, NoChanges}
=============================================================================
