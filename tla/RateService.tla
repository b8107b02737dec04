---------------------------- MODULE RateService ----------------------------
(***************************************************************************)
(* What a user of the rate controller may rely on, without its registers,  *)
(* resets and DRP ports: requests are asked for at any time, one switch    *)
(* runs at a time, an unsupported target is rejected before anything is    *)
(* touched, and a switch ends in DONE with its target in force or in ERROR *)
(* with the rate in force unchanged.                                       *)
(***************************************************************************)
CONSTANTS
  Ids,         \* the ids that can be asked for
  NoId,        \* what is wanted before anyone asked
  Supported,   \* the ids that can be switched to
  PowerUpId    \* the rate the bitstream configures

VARIABLES
  want,    \* the rate asked for last
  asked,   \* a request is waiting for a switch of its own
  target,  \* the rate the switch works towards
  rate,    \* the rate in force
  phase    \* idle, checking the target, switching, done or error

vars == <<want, asked, target, rate, phase>>

Init ==
  /\ want = NoId /\ asked = FALSE /\ target = NoId
  /\ rate = PowerUpId /\ phase = "idle"

\* A request may come at any time, and replaces one not yet noticed.
Ask(id) ==
  /\ want' = id /\ asked' = TRUE
  /\ UNCHANGED <<target, rate, phase>>

\* The controller notices the request, also in the middle of a switch, which
\* from then on works towards the new target.
Notice ==
  /\ target' = want
  /\ UNCHANGED <<want, asked, rate, phase>>

Busy == phase \in {"checking", "switching"}

\* The last request gets a check and, if need be, a switch of its own.
Start ==
  /\ ~Busy /\ asked
  /\ asked' = FALSE /\ target' = want /\ phase' = "checking"
  /\ UNCHANGED <<want, rate>>

\* The check of the target.  A request that comes during it goes unchecked.
Leave(nextPhase) ==
  /\ phase' = nextPhase /\ target' = want
  /\ UNCHANGED <<want, asked>>

Reject ==
  /\ phase = "checking" /\ target \notin Supported
  /\ Leave("error") /\ UNCHANGED rate

AlreadyInForce ==
  /\ phase = "checking" /\ target \in Supported /\ target = rate
  /\ Leave("done") /\ UNCHANGED rate

Accept ==
  /\ phase = "checking" /\ target \in Supported /\ target # rate
  /\ Leave("switching") /\ UNCHANGED rate

\* The switch ends: only here, and only in success, the rate changes.
Finish ==
  /\ phase = "switching"
  /\ Leave("done") /\ rate' = target

Fail ==
  /\ phase = "switching"
  /\ Leave("error") /\ UNCHANGED rate

Check == Reject \/ AlreadyInForce \/ Accept

\* The controller is reset and believes in the static rate again.
Forget ==
  /\ want' = NoId /\ asked' = FALSE /\ target' = NoId
  /\ rate' = PowerUpId /\ phase' = "idle"

Next == Notice \/ Start \/ Check \/ Finish \/ Fail \/ Forget \/ \E id \in Ids : Ask(id)

\* A waiting request is started and checked, and a started switch ends.
Spec == /\ Init /\ [][Next]_vars
        /\ WF_vars(Start) /\ WF_vars(Check) /\ WF_vars(Finish \/ Fail)
=============================================================================
