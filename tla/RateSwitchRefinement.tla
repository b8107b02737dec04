------------------------ MODULE RateSwitchRefinement ------------------------
(***************************************************************************)
(* The cycle-level controller of RateSwitch as an implementation of        *)
(* RateService.  An edge of the request bit that the controller has not    *)
(* sampled yet is a request already asked for, whose id is still in the    *)
(* control word.                                                           *)
(***************************************************************************)
EXTENDS RateSwitch

RequestedId == IF request_event THEN gpio_ctrl.id ELSE target_rate_id

Phase == IF status.busy
         THEN IF rate_state \in {"REQUEST", "VALIDATE"} THEN "checking" ELSE "switching"
         ELSE IF status.done THEN "done"
         ELSE IF status.error THEN "error"
         ELSE "idle"

Service == INSTANCE RateService WITH
  Ids       <- RateIds,
  NoId      <- RATE_ID_NONE,
  Supported <- Supported,
  PowerUpId <- RATE_ID_500M,
  want      <- RequestedId,
  asked     <- request_event \/ request_pending,
  target    <- target_rate_id,
  rate      <- current_rate_id,
  phase     <- Phase

\* The controller implements the service: requests are neither lost nor
\* answered twice, the reported rate changes only when a switch succeeds and
\* then to its target, nothing is touched for an unsupported target, and every
\* request and every switch comes to an end.
ImplementsService == Service!Spec
=============================================================================
