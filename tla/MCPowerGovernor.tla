-------------------------- MODULE MCPowerGovernor --------------------------
(* Instances of PowerGovernor for TLC: temperatures and gaps on both sides   *)
(* of their limits, and a clock that wraps every few ticks.                  *)
EXTENDS PowerGovernor
=============================================================================
