---------------------------- MODULE MCNodeSwitch ----------------------------
(* Two slots, so that the list can be full, and three addresses, so that a *)
(* slot can be given a new object while the other is in use.               *)
EXTENDS NodeSwitch
=============================================================================
