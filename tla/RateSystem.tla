----------------------------- MODULE RateSystem -----------------------------
(***************************************************************************)
(* A rate switch from the host's command to the transmitter: the firmware  *)
(* of laser_udp_server.c, which reads a status word, waits for the         *)
(* transmitter, checks, writes the request and polls, each a separate bus  *)
(* access; the rate controller, as RateService specifies it (RateSwitch    *)
(* implements that); and laser_gt_tx_profile0.v, which takes the ready     *)
(* signal of the controller's clock to txusrclk2, a clock that stops while *)
(* the MMCM is reset, and holds the transmitter in reset without it.       *)
(*                                                                         *)
(* The firmware runs one command at a time and blocks in it.  Its polling  *)
(* loops may give up after any number of reads, whatever the controller's  *)
(* own timeouts are.  RATE STATUS and RATE PLAN only read.  The commands   *)
(* for the transmitter are there for what they start and end: TxCore has   *)
(* the way of a configuration, of which only reload is left here.          *)
(***************************************************************************)
EXTENDS Naturals

CONSTANT MaxRestarts  \* bound: how often the firmware may restart

ASSUME RestartAssumption == MaxRestarts \in Nat

NoId      == 0       \* RATE_ID_NONE
Supported == {1, 2}  \* RATE_ID_500M, RATE_ID_1000M
Ids       == {NoId} \cup Supported

VARIABLES
  want, asked, target, rate, phase,  \* the controller: see RateService
  resets_held,      \* GT and MMCM are held in reset, by a switch or a failed one
  gt_ready_ctrl,    \* locks stable, in the controller's clock
  usrclk_runs,      \* txusrclk2 ticks
  gt_ready_meta_tx, gt_ready_tx,
  enabled,          \* LASER_CTRL_ENABLE in the control word
  sending,          \* what the transmitter is doing: "idle", "sequence", the
                    \* first "round" of a loop, or the later ones of a "loop"
  apply_toggle,     \* LASER_CTRL_APPLY_TOGGLE, and the update toggle after it
  reload,           \* out of reset with the toggle at 1: the transmitter takes its
                    \* configuration again, and starts if it is enabled
  unguarded,        \* history: that start came after the firmware's last look at
                    \* the transmitter, or a restart forgot the one under way
  req_toggle,       \* LASER_CTRL_RATE_REQ_TOGGLE in the control word
  pc,               \* where the firmware is in handle_rate_command
  rate_id,          \* the command's target
  gt_status,        \* the status word read when the command came
  response,         \* the last response, by kind
  restarts          \* restarts so far

controller == <<want, asked, target, rate, phase>>
gt         == <<resets_held, gt_ready_ctrl, usrclk_runs>>
transmit   == <<gt_ready_meta_tx, gt_ready_tx, enabled, apply_toggle, sending, reload,
                unguarded>>
firmware   == <<req_toggle, pc, rate_id, gt_status, response, restarts>>
vars == <<controller, gt, transmit, firmware>>

Controller == INSTANCE RateService WITH PowerUpId <- 1

Responses == { "NONE", "OK", "ALREADY_CURRENT", "UNSUPPORTED_RATE", "RATE_BUSY",
               "TX_QUIESCE_TIMEOUT", "GT_NOT_READY", "FAILED", "TIMEOUT" }

rate_busy == Controller!Busy
gt_ready_effective_ctrl == gt_ready_ctrl /\ ~rate_busy /\ phase # "error"

\* The word of laser_gt_read_status, as far as the firmware looks at it.
GtStatus == [id |-> rate, busy |-> rate_busy, ready |-> gt_ready_tx]

Init ==
  /\ Controller!Init
  /\ resets_held = FALSE /\ gt_ready_ctrl = TRUE /\ usrclk_runs = TRUE
  /\ gt_ready_meta_tx = TRUE /\ gt_ready_tx = TRUE
  /\ enabled = FALSE /\ apply_toggle = FALSE
  /\ sending = "idle" /\ reload = FALSE /\ unguarded = FALSE
  /\ req_toggle = FALSE /\ pc = "server" /\ rate_id = NoId
  /\ gt_status = GtStatus /\ response = "NONE"
  /\ restarts = 0

-----------------------------------------------------------------------------
(* The controller, and what its resets do to GT and clock *)

\* The check itself touches no reset; DONE releases what an earlier failure
\* left held.
ControllerChecks ==
  /\ Controller!Start \/ Controller!Check
  /\ resets_held' = (phase' = "switching" \/ (resets_held /\ phase' # "done"))
  /\ UNCHANGED <<gt_ready_ctrl, usrclk_runs, transmit, firmware>>

\* A switch succeeds only with the locks stable and the clock measured.
ControllerFinishes ==
  /\ Controller!Finish
  /\ gt_ready_ctrl /\ usrclk_runs
  /\ resets_held' = FALSE
  /\ UNCHANGED <<gt_ready_ctrl, usrclk_runs, transmit, firmware>>

\* A switch that fails leaves the resets as they are: released again if it
\* fails waiting for the locks, still held if it fails before.
ControllerFails ==
  /\ Controller!Fail
  /\ resets_held' \in BOOLEAN
  /\ UNCHANGED <<gt_ready_ctrl, usrclk_runs, transmit, firmware>>

\* A request noticed in the middle of a switch becomes its target.
ControllerNotices ==
  /\ rate_busy /\ target # want
  /\ Controller!Notice
  /\ UNCHANGED <<gt, transmit, firmware>>

\* Locks come and go.  The clock stops under reset, or with its source.
GtChanges ==
  /\ gt_ready_ctrl' \in BOOLEAN /\ usrclk_runs' \in BOOLEAN
  /\ resets_held /\ phase # "switching" => ~gt_ready_ctrl'
  /\ gt_ready_ctrl' => usrclk_runs'
  /\ UNCHANGED <<controller, resets_held, transmit, firmware>>

-----------------------------------------------------------------------------
(* The transmitter, in the txusrclk2 domain *)

\* tx_rst = ~gt_ready_tx clears the engine at the next edge, if there is one, and
\* so does a cleared ENABLE.  The synchroniser of the update toggle restarts at
\* 0, so that it sees an update after an odd number of loads.
TxTick ==
  /\ usrclk_runs
  /\ gt_ready_meta_tx' = gt_ready_effective_ctrl
  /\ gt_ready_tx' = gt_ready_meta_tx
  /\ sending' = IF gt_ready_tx /\ enabled THEN sending ELSE "idle"
  /\ reload' = IF gt_ready_tx THEN reload ELSE apply_toggle
  /\ UNCHANGED <<controller, gt, enabled, apply_toggle, unguarded, firmware>>

\* The last word is out; a loop goes on with the next round.
EndRound ==
  /\ usrclk_runs
  /\ \/ sending = "sequence" /\ sending' = "idle"
     \/ sending = "round" /\ sending' = "loop"
  /\ UNCHANGED <<controller, gt, gt_ready_meta_tx, gt_ready_tx, enabled, apply_toggle,
                 reload, unguarded, firmware>>

\* BUSY without DONE, as the status word shows it.
Unfinished == {"sequence", "round"}

\* Out of reset with an update to be seen: the transmitter captures, arms and
\* starts, some edges later, whatever the firmware is doing.
StartsAgain ==
  /\ reload /\ enabled /\ gt_ready_tx /\ usrclk_runs
  /\ sending' \in Unfinished /\ reload' = FALSE
  /\ unguarded' = (pc = "precheck" \/ asked \/ rate_busy)
  /\ UNCHANGED <<controller, gt, gt_ready_meta_tx, gt_ready_tx, enabled, apply_toggle,
                 firmware>>

-----------------------------------------------------------------------------
(* The firmware: handle_rate_command *)

\* A write to the control word has taken effect when the next access is made:
\* a bus access takes longer than the two cycles in which the controller takes
\* up a request.
Settled == asked => rate_busy

Reply(text) == response' = text /\ pc' = "server"

\* The server reads the next datagram.
Listening == pc = "server" /\ Settled

\* On a ready transmitter a command starts a legal configuration before the next
\* datagram is read, whatever is being sent; or nothing new, and a reload that
\* waits for the end of a reset is still to come.
Starts ==
  /\ usrclk_runs /\ gt_ready_effective_ctrl /\ gt_ready_meta_tx /\ gt_ready_tx
  /\ sending' \in Unfinished /\ reload' = FALSE /\ unguarded' = FALSE
StartsNothing == reload' = (reload /\ ~gt_ready_tx) /\ UNCHANGED <<sending, unguarded>>

Apply ==
  /\ Listening /\ apply_toggle' = ~apply_toggle
  /\ (enabled /\ Starts) \/ StartsNothing
  /\ UNCHANGED <<controller, gt, gt_ready_meta_tx, gt_ready_tx, enabled, firmware>>

Enable ==
  /\ Listening /\ ~enabled /\ enabled' = TRUE
  /\ Starts \/ StartsNothing
  /\ UNCHANGED <<controller, gt, gt_ready_meta_tx, gt_ready_tx, apply_toggle, firmware>>

Disable ==
  /\ Listening /\ enabled /\ enabled' = FALSE
  /\ UNCHANGED <<controller, gt, gt_ready_meta_tx, gt_ready_tx, apply_toggle, sending,
                 reload, unguarded, firmware>>

\* SOFT_RESET ends what is being sent and starts what the transmitter has.
SoftReset ==
  /\ Listening /\ enabled /\ usrclk_runs
  /\ Starts \/ (sending' = "idle" /\ UNCHANGED <<reload, unguarded>>)
  /\ UNCHANGED <<controller, gt, gt_ready_meta_tx, gt_ready_tx, enabled, apply_toggle,
                 firmware>>

\* gt_rate_plan and laser_rate_id_from_mbps know the target.
Planned_Any(id) == TRUE
Planned(id) == id \in Supported

RateSet(id) ==
  /\ Listening
  /\ rate_id' = id
  /\ \/ /\ ~Planned(id)
        /\ Reply("UNSUPPORTED_RATE") /\ UNCHANGED gt_status
     \/ /\ Planned(id)
        /\ gt_status' = GtStatus
        /\ \/ id = rate /\ Reply("ALREADY_CURRENT")
           \/ id # rate /\ pc' = "wait_tx_idle" /\ UNCHANGED response
  /\ UNCHANGED <<controller, gt, transmit, req_toggle, restarts>>

\* laser_rate_wait_tx_idle: BUSY clear or DONE set.  The later rounds of a loop
\* show both.
tx_idle_Always == TRUE
tx_idle == sending \notin Unfinished
FoundIdle == tx_idle /\ pc' = "precheck" /\ unguarded' = FALSE /\ UNCHANGED response
WaitTxIdle_Forever ==
  /\ pc = "wait_tx_idle" /\ FoundIdle
  /\ UNCHANGED <<controller, gt, gt_ready_meta_tx, gt_ready_tx, enabled, apply_toggle,
                 sending, reload, req_toggle, rate_id, gt_status, restarts>>
WaitTxIdle ==
  /\ pc = "wait_tx_idle"
  /\ FoundIdle \/ (~tx_idle /\ Reply("TX_QUIESCE_TIMEOUT") /\ UNCHANGED unguarded)
  /\ UNCHANGED <<controller, gt, gt_ready_meta_tx, gt_ready_tx, enabled, apply_toggle,
                 sending, reload, req_toggle, rate_id, gt_status, restarts>>

\* The checks use the status word read when the command came.
Precheck_ReadyOnly ==
  CASE gt_status.ready  -> "PASSED"
    [] OTHER            -> "GT_NOT_READY"
Precheck ==
  CASE gt_status.busy   -> "RATE_BUSY"
    [] ~gt_status.ready -> "GT_NOT_READY"
    [] OTHER            -> "PASSED"

Refuse ==
  /\ pc = "precheck" /\ Precheck # "PASSED"
  /\ Reply(Precheck)
  /\ UNCHANGED <<controller, gt, transmit, req_toggle, rate_id, gt_status, restarts>>

\* laser_gpio_rate_request: the new id and the flipped bit in one write.
Request ==
  /\ pc = "precheck" /\ Precheck = "PASSED"
  /\ Controller!Ask(rate_id)
  /\ req_toggle' = ~req_toggle
  /\ pc' = "poll"
  /\ UNCHANGED <<gt, transmit, rate_id, gt_status, response, restarts>>

\* laser_rate_wait_done_or_error, and the response to what it read.
Answered == phase \in {"done", "error"}
PollAnswer_NoErrorCheck ==
  /\ pc = "poll" /\ Settled /\ Answered
  /\ Reply("OK")
  /\ gt_status' = GtStatus
  /\ UNCHANGED <<controller, gt, transmit, req_toggle, rate_id, restarts>>
PollAnswer ==
  /\ pc = "poll" /\ Settled /\ Answered
  /\ Reply(IF phase = "done" THEN "OK" ELSE "FAILED")
  /\ gt_status' = GtStatus
  /\ UNCHANGED <<controller, gt, transmit, req_toggle, rate_id, restarts>>

PollTimeout ==
  /\ pc = "poll" /\ Settled /\ ~Answered
  /\ Reply("TIMEOUT")
  /\ gt_status' = GtStatus
  /\ UNCHANGED <<controller, gt, transmit, req_toggle, rate_id, restarts>>

\* The firmware starts again on a running FPGA: laser_gpio_init clears the
\* whole control word, and with it the request bit, the id and ENABLE.
Restart ==
  /\ Settled /\ restarts < MaxRestarts
  /\ restarts' = restarts + 1
  /\ IF req_toggle THEN Controller!Ask(NoId) ELSE UNCHANGED controller
  /\ req_toggle' = FALSE /\ pc' = "server" /\ rate_id' = NoId
  /\ gt_status' = GtStatus /\ response' = "NONE"
  /\ enabled' = FALSE /\ apply_toggle' = FALSE /\ unguarded' = TRUE
  /\ UNCHANGED <<gt, gt_ready_meta_tx, gt_ready_tx, sending, reload>>

-----------------------------------------------------------------------------
ControllerStep == ControllerChecks \/ ControllerFinishes \/ ControllerFails
                  \/ ControllerNotices
TxCommand == Apply \/ Enable \/ Disable \/ SoftReset
CommandStep == WaitTxIdle \/ Refuse \/ Request \/ PollAnswer \/ PollTimeout

Next == \/ ControllerStep \/ GtChanges
        \/ TxTick \/ EndRound \/ StartsAgain \/ TxCommand
        \/ (\E id \in Ids : RateSet(id)) \/ CommandStep \/ Restart

\* Every clock that runs ticks, the controller's timeouts end each switch, and
\* the firmware, which nothing preempts, goes on with its command.
Spec == /\ Init /\ [][Next]_vars
        /\ WF_vars(ControllerChecks)
        /\ WF_vars(ControllerFinishes \/ ControllerFails)
        /\ WF_vars(TxTick) /\ WF_vars(CommandStep)

\* A host that does not give up: it goes on asking for either rate.
RetrySpec == Spec /\ \A id \in Supported : SF_vars(RateSet(id))

-----------------------------------------------------------------------------
(* Properties *)

TypeOK ==
  /\ want \in Ids /\ asked \in BOOLEAN /\ target \in Ids /\ rate \in Ids
  /\ phase \in {"idle", "checking", "switching", "done", "error"}
  /\ resets_held \in BOOLEAN /\ gt_ready_ctrl \in BOOLEAN /\ usrclk_runs \in BOOLEAN
  /\ gt_ready_meta_tx \in BOOLEAN /\ gt_ready_tx \in BOOLEAN
  /\ enabled \in BOOLEAN /\ apply_toggle \in BOOLEAN
  /\ sending \in {"idle", "sequence", "round", "loop"}
  /\ reload \in BOOLEAN /\ unguarded \in BOOLEAN
  /\ req_toggle \in BOOLEAN
  /\ pc \in {"server", "wait_tx_idle", "precheck", "poll"}
  /\ rate_id \in Ids
  /\ gt_status \in [id : Ids, busy : BOOLEAN, ready : BOOLEAN]
  /\ response \in Responses
  /\ restarts \in 0 .. MaxRestarts
  /\ pc # "server" => rate_id \in Supported

\* The host is told OK only with its own target in force: the DONE that the
\* firmware polls is not one of an earlier request, of before a restart, or of
\* a command that timed out.
OkMeansInForce ==
  [][pc = "poll" /\ pc' = "server" /\ response' = "OK" => rate = rate_id]_vars

\* The firmware never requests a rate while the controller works on another or
\* has one waiting, although it looks at a status word as old as its wait for
\* the transmitter.  This is what RateSwitch needs of its environment for a
\* DONE to mean a completely programmed MMCM.
CommandsDoNotOverlap == [][Request => ~rate_busy /\ ~asked]_vars

\* No switch cuts off a sequence, or the first round of a loop, that the firmware
\* could know of: raising rate_busy resets the transmitter at once, so only the
\* firmware's wait protects it.  What that wait does not cover is a transmitter
\* that starts by itself behind it, and the request that a restart makes.
SequenceUndisturbed == sending \in Unfinished /\ ~unguarded => ~rate_busy /\ ~asked

\* Every command gets its response: no wait of the firmware is for something
\* that may never come.
CommandsAnswered == pc # "server" ~> pc = "server"

\* "It must be possible to go back to static 500M or static 1000M": after a
\* failed switch a host that goes on asking for either rate gets a request
\* through to the controller.
ErrorIsLeft == phase = "error" ~> phase # "error"
=============================================================================
