---------------------------- MODULE MCIssueDesk ----------------------------
(* Instances of IssueDesk: splitting the article a1 creates the issue i2,   *)
(* which a1 does not fit.                                                   *)
EXTENDS IssueDesk, TLC
CONSTANTS i1, i2, a1, a2, w1, w2
FirstIsSplit == a1 :> i2
FitsFirst == {i1} \X Articles
=============================================================================
