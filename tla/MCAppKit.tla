------------------------------ MODULE MCAppKit ------------------------------
(* Instances of AppKit for TLC: the launcher and two apps, one of which asks *)
(* for power, in fewer slots and pins than restarts would need.              *)
EXTENDS AppKit, TLC
=============================================================================
