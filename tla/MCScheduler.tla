----------------------------- MODULE MCScheduler -----------------------------
(* Instances of Scheduler for TLC: the settings each run works under. *)
EXTENDS Scheduler

\* A limit smaller than the number of devices, and a holdtime of one tick.
TwoAtATime == {[max |-> 2, hold |-> 1]}
OneAtATime == {[max |-> 1, hold |-> 1]}
==============================================================================
