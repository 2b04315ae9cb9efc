----------------------------- MODULE MCVerdicts -----------------------------
(* Instances of Verdicts: the claim c1 of the official article off needs a  *)
(* number that off gives and the source of the registry does not; c2 was    *)
(* submitted by a user and uses a risky expression.                         *)
EXTENDS Verdicts, TLC
CONSTANTS c1, c2, off, src, none
Profiles ==
  c1 :> [type |-> "other", needs |-> {"n"}, own |-> off, risky |-> FALSE]
  @@ c2 :> [type |-> "other", needs |-> {}, own |-> none, risky |-> TRUE]
Facts ==
  off :> [kind |-> "official", credibility |-> 50, says |-> {"n"}]
  @@ src :> [kind |-> "official", credibility |-> 50, says |-> {}]
=============================================================================
