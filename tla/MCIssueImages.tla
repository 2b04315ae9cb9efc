--------------------------- MODULE MCIssueImages ---------------------------
(* Instances of IssueImages: an article whose page has a picture that fits  *)
(* one issue and a logo, and an official one that comes with a picture.    *)
EXTENDS IssueImages, TLC
CONSTANTS i1, i2, a1, a2, photo, chart, logo, inline, w1, w2
FeedOf == (a1 :> {}) @@ (a2 :> {chart})
PageOf == (a1 :> [meta |-> {logo, inline}, ld |-> <<{photo}>>]) @@ (a2 :> [meta |-> {}, ld |-> <<{photo}, {logo}>>])
FitsOf == (photo :> {i1}) @@ (chart :> {}) @@ (logo :> {i1}) @@ (inline :> {})
=============================================================================
