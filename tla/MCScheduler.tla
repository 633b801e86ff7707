---------------------------- MODULE MCScheduler ----------------------------
(* Instances of the scheduler for TLC.  The configurations give the number   *)
(* of slots (main and idle take two of them), the priorities of the clients, *)
(* and a tick counter that wraps after a few ticks.                          *)
EXTENDS Scheduler
=============================================================================
