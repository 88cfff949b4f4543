------------------------------ MODULE MCLanes ------------------------------
(* Instances of Lanes for TLC; the callers are model values.               *)
EXTENDS Lanes
=============================================================================
