-------------------------- MODULE MCClaimPipeline --------------------------
(* Instances of ClaimPipeline: a news article and an official one. *)
EXTENDS ClaimPipeline
CONSTANTS w1, w2, news, gov
TwoArticles == {news, gov}
OneOfficial == {gov}
=============================================================================
