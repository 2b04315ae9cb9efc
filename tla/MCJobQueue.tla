----------------------------- MODULE MCJobQueue -----------------------------
(* Small instances of JobQueue: the jobs are 1..N, claimed in that order. *)
EXTENDS JobQueue, TLC

TwoJobs    == 1..2
ThreeJobs  == 1..3
RankOfTwo   == [j \in TwoJobs |-> j]
RankOfThree == [j \in ThreeJobs |-> j]

ThreadSymmetry == Permutations(Threads)
=============================================================================
