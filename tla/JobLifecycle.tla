---------------------------- MODULE JobLifecycle ----------------------------
(***************************************************************************)
(* What the job queue promises the code that enqueues a job, without       *)
(* workers, batches, clocks or restarts: a job waits, is tried at most     *)
(* MaxAttempts times, one try at a time, and ends either done or dead; it  *)
(* is dead only when no try is left or nothing can run it, and an end is   *)
(* final.  Several jobs may move in one step: a claim takes a whole batch. *)
(***************************************************************************)
EXTENDS Integers

CONSTANTS Jobs, Unregistered, MaxAttempts

VARIABLE life     \* life[j]: the state of job j and the tries started so far

State == {"absent", "waiting", "running", "done", "dead"}
Life  == [state : State, tries : Nat]

Init == life = [j \in Jobs |-> [state |-> "absent", tries |-> 0]]

CanStart(l) == l.state = "waiting" /\ l.tries < MaxAttempts
CanGiveUp(j, l) == l.state = "running" /\ (l.tries >= MaxAttempts \/ j \in Unregistered)

(* One step in the life of job j, from l to m. *)
Step(j, l, m) ==
  \/ l.state = "absent" /\ m = [l EXCEPT !.state = "waiting"]
  \/ CanStart(l) /\ m = [state |-> "running", tries |-> l.tries + 1]
  \/ l.state = "running" /\ j \notin Unregistered /\ m = [l EXCEPT !.state = "done"]
  \/ l.state = "running" /\ l.tries < MaxAttempts /\ m = [l EXCEPT !.state = "waiting"]
  \/ CanGiveUp(j, l) /\ m = [l EXCEPT !.state = "dead"]

Next ==
  /\ life' = [j \in Jobs |-> life'[j]]
  /\ \A j \in Jobs : life'[j] = life[j] \/ Step(j, life[j], life'[j])

Spec == Init /\ [][Next]_life
=============================================================================
