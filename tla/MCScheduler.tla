---------------------------- MODULE MCScheduler ----------------------------
(***************************************************************************)
(* A small instance of Scheduler: two tasks under one ID.                  *)
(***************************************************************************)
EXTENDS Scheduler

CONSTANTS m1, m2

MCTask == {m1, m2}
MCTaskID == {"machine"}
MCID == [t \in Task |-> "machine"]

=============================================================================
