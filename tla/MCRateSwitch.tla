---------------------------- MODULE MCRateSwitch ----------------------------
(***************************************************************************)
(* RateSwitch for TLC: every wait of the controller is one cycle long, so  *)
(* each of them can succeed at once, succeed late or fail.                 *)
(***************************************************************************)
EXTENDS RateSwitchRefinement

\* The controller after power-up, never reset.
SpecWithoutReset ==
  Init /\ [][Clock \/ \E id \in RateIds : RateRequest(id)]_vars
=============================================================================
