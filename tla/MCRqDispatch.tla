---------------------------- MODULE MCRqDispatch ----------------------------
(* Small instances of RqDispatch: the jobs are 1..2, swept in that order. *)
EXTENDS RqDispatch

TwoJobs   == 1..2
RankOfTwo == [j \in TwoJobs |-> j]
=============================================================================
