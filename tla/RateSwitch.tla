----------------------------- MODULE RateSwitch -----------------------------
(***************************************************************************)
(* The dynamic line-rate controller laser_gt_rate_switch_500m_1000m.v: one *)
(* synchronous state machine in the ctrl_clk domain that takes a rate      *)
(* request from the GPIO control word, waits for the transmitter to be     *)
(* idle, holds the GT and the user-clock MMCM in reset, reprograms both    *)
(* through their DRP ports, releases the resets, waits for the locks and   *)
(* accepts the new rate only if the measured user clock fits its window.   *)
(*                                                                         *)
(* One step of the clock is one action.  Every action below reads the      *)
(* registers before the clock edge and gives their values after it, as the *)
(* nonblocking assignments of the code do; the inputs it samples (idle,    *)
(* DRP ready, locks, frequency) are chosen afresh at every edge.           *)
(*                                                                         *)
(* target_rate_mbps, target_txout_div_enc, expected_min_count and          *)
(* expected_max_count are always written together with target_rate_id, so  *)
(* they are operators of it.  Registers that only feed debug probes        *)
(* (tx_idle_seen, *_drp_busy, the readback value) are left out.            *)
(***************************************************************************)
EXTENDS Integers

CONSTANTS
  RESET_HOLD_CYCLES,    \* cycles the resets are held, and waited after release
  TX_QUIESCE_TIMEOUT,   \* cycles the transmitter may take to become idle
  DRP_TIMEOUT_CYCLES,   \* cycles a DRP port may take to answer
  LOCK_TIMEOUT_CYCLES,  \* cycles all the locks together may take
  VERIFY_SETTLE_CYCLES, \* cycles before the frequency counter is trusted
  MMCM_TABLE_LEN,       \* entries of the MMCM DRP table
  FbEntry,              \* the entry that sets CLKFBOUT, the MMCM multiplier
  OutEntry,             \* the entry that sets CLKOUT0, the TXUSRCLK2 divider
  BusyRequestIds        \* rate ids that may be requested during a switch

ASSUME ParamAssumption ==
  /\ RESET_HOLD_CYCLES \in Nat
  /\ TX_QUIESCE_TIMEOUT \in Nat
  /\ DRP_TIMEOUT_CYCLES \in Nat \ {0}
  /\ LOCK_TIMEOUT_CYCLES \in Nat
  /\ VERIFY_SETTLE_CYCLES \in Nat

ASSUME TableAssumption ==
  /\ MMCM_TABLE_LEN \in Nat
  /\ FbEntry \in 0 .. MMCM_TABLE_LEN - 1
  /\ OutEntry \in 0 .. MMCM_TABLE_LEN - 1

\* Two bits of the control word name the rate: any of the four may be written.
RateIds == 0 .. 3
RATE_ID_NONE  == 0
RATE_ID_500M  == 1
RATE_ID_1000M == 2

ASSUME BusyAssumption == BusyRequestIds \subseteq RateIds

Supported == {RATE_ID_500M, RATE_ID_1000M}

RateStates ==
  { "IDLE", "REQUEST", "VALIDATE", "QUIESCE_TX", "ASSERT_RESET",
    "PROGRAM_GT_DRP", "PROGRAM_MMCM_DRP", "RELEASE_RESET",
    "WAIT_MMCM_RESET_RELEASE", "WAIT_LOCK", "VERIFY_RATE", "DONE", "ERROR" }

ErrorCodes ==
  { "UNSUPPORTED_RATE", "TX_QUIESCE_TIMEOUT", "GT_DRP_TIMEOUT",
    "GT_DRP_READBACK_MISMATCH", "MMCM_DRP_TIMEOUT", "MMCM_LOCK_TIMEOUT",
    "TX_RESETDONE_TIMEOUT", "GT_READY_TIMEOUT", "TXUSRCLK2_NOT_ALIVE",
    "TXUSRCLK2_FREQ_OUT_OF_WINDOW" }

GtSteps == { "READ_OUTDIV", "READ_OUTDIV_WAIT", "WRITE_OUTDIV",
             "WRITE_OUTDIV_WAIT", "READBACK", "READBACK_WAIT", "STEP_DONE" }

VARIABLES
  gpio_ctrl,            \* [req: bit 15, id: bits 14:13] of the control word
  rate_req_toggle_d,    \* bit 15 as it was one cycle ago
  request_pending, target_rate_id, current_rate_id,
  rate_state, gt_step, mmcm_index,
  timeout_count, reset_hold_count, verify_count,
  status,               \* rate_busy, rate_done, rate_error, already, code
  resets,               \* rate_gt_tx_reset, rate_txuserrdy_block, rate_mmcm_reset
  apply_enable_blocked, tx_quiesce_req,
  drp,                  \* DRP strobe of this cycle, and the drp result flags
  hw_gt,                \* TXOUT_DIV field the GT transceiver holds
  hw_mmcm               \* whose value each entry of the MMCM's table holds

fsmVars  == <<rate_state, gt_step, mmcm_index>>
timers   == <<timeout_count, reset_hold_count, verify_count>>
outputs  == <<status, resets, apply_enable_blocked, tx_quiesce_req, drp>>
hardware == <<hw_gt, hw_mmcm>>
vars == <<gpio_ctrl, rate_req_toggle_d, request_pending, target_rate_id,
          current_rate_id, fsmVars, timers, outputs, hardware>>

-----------------------------------------------------------------------------
(* What a rate id programs and expects *)

\* target_txout_div_enc: the encoded TXOUT_DIV, that of 500M unless 1000M.
TxoutDiv(id) == IF id = RATE_ID_1000M THEN 2 ELSE 3

\* mmcm_data_for_target: the table of 500M for 500M, that of 1000M otherwise.
MmcmTable(id) == IF id = RATE_ID_500M THEN "500m" ELSE "1000m"

\* expected_min_count .. expected_max_count: the window of 500M unless 1000M.
\* A window is named by the TXOUT_DIV whose clock falls into it.
FreqWindow(id) == TxoutDiv(id)
OutOfWindow == 0

\* The windows a measurement can fall into.  Both tables divide TXOUTCLK by
\* two (39/78 and 20/40), so the clock follows TXOUT_DIV whenever multiplier
\* and divider come from one table; 39/40 and 20/78 hit neither window.
Measurable ==
  {OutOfWindow} \cup
  (IF hw_mmcm[FbEntry] = hw_mmcm[OutEntry] THEN {hw_gt} ELSE {})

FrequencyFits_Unchecked(measured) == TRUE
FrequencyFits(measured) == measured = FreqWindow(target_rate_id)

request_event == gpio_ctrl.req # rate_req_toggle_d
target_supported_Unchecked == TRUE
target_supported == target_rate_id \in Supported
target_is_current == target_supported /\ target_rate_id = current_rate_id

-----------------------------------------------------------------------------
ResetRegisters ==
  [ status |-> [busy |-> FALSE, done |-> FALSE, error |-> FALSE,
                already |-> FALSE, code |-> "NONE"],
    resets |-> [gt |-> FALSE, userrdy |-> FALSE, mmcm |-> FALSE],
    drp    |-> [cmd |-> "none", gt_done |-> FALSE, gt_error |-> FALSE,
                gt_written |-> FALSE, mmcm_done |-> FALSE,
                mmcm_error |-> FALSE, mmcm_written |-> FALSE] ]

\* Power-up: the bitstream configures GT and MMCM for the static 500M rate.
Init ==
  /\ gpio_ctrl = [req |-> FALSE, id |-> RATE_ID_NONE]
  /\ rate_req_toggle_d = FALSE
  /\ request_pending = FALSE
  /\ target_rate_id = RATE_ID_NONE
  /\ current_rate_id = RATE_ID_500M
  /\ rate_state = "IDLE" /\ gt_step = "READ_OUTDIV" /\ mmcm_index = 0
  /\ timeout_count = 0 /\ reset_hold_count = 0 /\ verify_count = 0
  /\ status = ResetRegisters.status
  /\ resets = ResetRegisters.resets
  /\ drp = ResetRegisters.drp
  /\ apply_enable_blocked = FALSE /\ tx_quiesce_req = FALSE
  /\ hw_gt = TxoutDiv(RATE_ID_500M)
  /\ hw_mmcm = [i \in 0 .. MMCM_TABLE_LEN - 1 |-> MmcmTable(RATE_ID_500M)]

-----------------------------------------------------------------------------
(* Parts every clock edge is made of *)

\* The request capture that runs in every state: an edge of bit 15 latches
\* the id as the new target, also in the middle of a switch.  taken: the
\* state's own branch consumes the pending request, which wins over the edge.
Capture_OnlyAtRest(taken) ==
  /\ rate_req_toggle_d' = gpio_ctrl.req
  /\ target_rate_id' = IF request_event THEN gpio_ctrl.id ELSE target_rate_id
  /\ request_pending' = (~taken /\ ~status.busy
                           /\ (request_event \/ request_pending))
  /\ UNCHANGED gpio_ctrl
Capture(taken) ==
  /\ rate_req_toggle_d' = gpio_ctrl.req
  /\ target_rate_id' = IF request_event THEN gpio_ctrl.id ELSE target_rate_id
  /\ request_pending' = (~taken /\ (request_event \/ request_pending))
  /\ UNCHANGED gpio_ctrl

\* A wait has used up its cycles, or uses up one more.
Expired_Late(limit) == timeout_count > limit
Expired(limit) == timeout_count >= limit
Tick_Forgotten == timeout_count' = timeout_count
Tick == timeout_count' = timeout_count + 1

\* Entries of the MMCM table are left to write.
EntryLeft_OneTooMany == mmcm_index <= MMCM_TABLE_LEN
EntryLeft_OneTooFew == mmcm_index < MMCM_TABLE_LEN - 1
EntryLeft == mmcm_index < MMCM_TABLE_LEN

\* The strobes drop after one cycle unless the branch raises one again.
Strobe(cmd) == [drp EXCEPT !.cmd = cmd]
NoStrobe == Strobe("none")
StrobeAndFlag(cmd, flag) == [drp EXCEPT !.cmd = cmd, ![flag] = TRUE]
Flag(flag) == StrobeAndFlag("none", flag)
ResultsCleared == [drp EXCEPT !.cmd = "none", !.gt_done = FALSE,
                              !.mmcm_done = FALSE]
RestartAfterError ==
  [ResetRegisters.drp EXCEPT !.gt_written = drp.gt_written,
                             !.mmcm_written = drp.mmcm_written]

\* task set_error: the reset outputs keep their values.
SetError(code) ==
  /\ rate_state' = "ERROR"
  /\ status' = [status EXCEPT !.busy = FALSE, !.done = FALSE,
                              !.error = TRUE, !.code = code]
  /\ apply_enable_blocked' = FALSE
  /\ tx_quiesce_req' = FALSE

\* Leaving a resting state for REQUEST.
StartRequest ==
  /\ rate_state' = "REQUEST"
  /\ status' = [ResetRegisters.status EXCEPT !.busy = TRUE]
  /\ timeout_count' = 0

\* The two ways to report DONE.
AlreadyCurrent == [status EXCEPT !.busy = FALSE, !.done = TRUE, !.already = TRUE]
RateVerified == [status EXCEPT !.busy = FALSE, !.done = TRUE,
                               !.error = FALSE, !.code = "NONE"]

AllResets_NotMmcm(b) == [gt |-> b, userrdy |-> b, mmcm |-> FALSE]
AllResets(b) == [gt |-> b, userrdy |-> b, mmcm |-> b]

-----------------------------------------------------------------------------
(* The states at rest *)

\* IDLE and DONE drop every reset and start a pending request.
IdleOrDone ==
  /\ rate_state \in {"IDLE", "DONE"}
  /\ Capture(request_pending)
  /\ resets' = AllResets(FALSE)
  /\ apply_enable_blocked' = FALSE /\ tx_quiesce_req' = FALSE
  /\ IF request_pending
     THEN /\ StartRequest
          /\ drp' = ResetRegisters.drp
     ELSE /\ drp' = NoStrobe
          /\ UNCHANGED <<rate_state, status, timeout_count>>
  /\ UNCHANGED <<current_rate_id, gt_step, mmcm_index, reset_hold_count,
                 verify_count, hardware>>

\* ERROR leaves the resets as the failed switch left them, and a restart
\* does not clear the *_written flags.
InError ==
  /\ rate_state = "ERROR"
  /\ Capture(request_pending)
  /\ apply_enable_blocked' = FALSE /\ tx_quiesce_req' = FALSE
  /\ IF request_pending
     THEN /\ StartRequest
          /\ drp' = RestartAfterError
     ELSE /\ drp' = NoStrobe
          /\ UNCHANGED <<rate_state, status, timeout_count>>
  /\ UNCHANGED <<current_rate_id, gt_step, mmcm_index, reset_hold_count,
                 verify_count, resets, hardware>>

-----------------------------------------------------------------------------
(* Accepting the request and stopping the transmitter *)

Request ==
  /\ rate_state = "REQUEST"
  /\ Capture(FALSE)
  /\ rate_state' = "VALIDATE"
  /\ drp' = NoStrobe
  /\ UNCHANGED <<current_rate_id, gt_step, mmcm_index, timers, status, resets,
                 apply_enable_blocked, tx_quiesce_req, hardware>>

Validate ==
  /\ rate_state = "VALIDATE"
  /\ Capture(FALSE)
  /\ \/ /\ ~target_supported
        /\ SetError("UNSUPPORTED_RATE")
        /\ drp' = NoStrobe
        /\ UNCHANGED timeout_count
     \/ /\ target_is_current
        /\ rate_state' = "DONE"
        /\ status' = AlreadyCurrent
        /\ drp' = ResultsCleared
        /\ UNCHANGED <<apply_enable_blocked, tx_quiesce_req, timeout_count>>
     \/ /\ target_supported /\ ~target_is_current
        /\ rate_state' = "QUIESCE_TX"
        /\ apply_enable_blocked' = TRUE /\ tx_quiesce_req' = TRUE
        /\ timeout_count' = 0
        /\ drp' = NoStrobe
        /\ UNCHANGED status
  /\ UNCHANGED <<current_rate_id, gt_step, mmcm_index, reset_hold_count,
                 verify_count, resets, hardware>>

\* laser_idle = !laser_busy || laser_done, sampled at this edge.
QuiesceTx(laser_idle) ==
  /\ rate_state = "QUIESCE_TX"
  /\ Capture(FALSE)
  /\ drp' = NoStrobe
  /\ \/ /\ laser_idle
        /\ rate_state' = "ASSERT_RESET"
        /\ resets' = AllResets(TRUE)
        /\ tx_quiesce_req' = FALSE
        /\ reset_hold_count' = 0
        /\ UNCHANGED <<status, apply_enable_blocked, timeout_count>>
     \/ /\ ~laser_idle /\ Expired(TX_QUIESCE_TIMEOUT)
        /\ SetError("TX_QUIESCE_TIMEOUT")
        /\ UNCHANGED <<resets, timeout_count, reset_hold_count>>
     \/ /\ ~laser_idle /\ ~Expired(TX_QUIESCE_TIMEOUT)
        /\ Tick
        /\ UNCHANGED <<rate_state, status, resets, apply_enable_blocked,
                       tx_quiesce_req, reset_hold_count>>
  /\ UNCHANGED <<current_rate_id, gt_step, mmcm_index, verify_count, hardware>>

AssertReset ==
  /\ rate_state = "ASSERT_RESET"
  /\ Capture(FALSE)
  /\ drp' = NoStrobe
  /\ apply_enable_blocked' = TRUE
  /\ resets' = AllResets(TRUE)
  /\ \/ /\ reset_hold_count >= RESET_HOLD_CYCLES
        /\ rate_state' = "PROGRAM_GT_DRP"
        /\ gt_step' = "READ_OUTDIV"
        /\ timeout_count' = 0
        /\ UNCHANGED reset_hold_count
     \/ /\ reset_hold_count < RESET_HOLD_CYCLES
        /\ reset_hold_count' = reset_hold_count + 1
        /\ UNCHANGED <<rate_state, gt_step, timeout_count>>
  /\ UNCHANGED <<current_rate_id, mmcm_index, verify_count, status,
                 tx_quiesce_req, hardware>>

-----------------------------------------------------------------------------
(* Programming the GT: read, modify, write, read back *)

\* A step that raises the strobe and goes on to wait for the port.
GtStrobe ==
  /\ rate_state = "PROGRAM_GT_DRP"
  /\ Capture(FALSE)
  /\ apply_enable_blocked' = TRUE /\ resets' = AllResets(TRUE)
  /\ timeout_count' = 0
  /\ \/ /\ gt_step = "READ_OUTDIV" /\ gt_step' = "READ_OUTDIV_WAIT"
        /\ drp' = Strobe("gt_read")
        /\ UNCHANGED hw_gt
     \/ \* The transceiver may fail to take the value: hence the read back.
        /\ gt_step = "WRITE_OUTDIV" /\ gt_step' = "WRITE_OUTDIV_WAIT"
        /\ drp' = StrobeAndFlag("gt_write", "gt_written")
        /\ hw_gt' \in {hw_gt, TxoutDiv(target_rate_id)}
     \/ /\ gt_step = "READBACK" /\ gt_step' = "READBACK_WAIT"
        /\ drp' = Strobe("gt_read")
        /\ UNCHANGED hw_gt
  /\ UNCHANGED <<current_rate_id, rate_state, mmcm_index, reset_hold_count,
                 verify_count, status, tx_quiesce_req, hw_mmcm>>

\* A step that waits for gt_drp_rdy, for at most DRP_TIMEOUT_CYCLES.
GtWait(gt_drp_rdy) ==
  /\ rate_state = "PROGRAM_GT_DRP"
  /\ gt_step \in {"READ_OUTDIV_WAIT", "WRITE_OUTDIV_WAIT", "READBACK_WAIT"}
  /\ Capture(FALSE)
  /\ resets' = AllResets(TRUE)
  /\ \/ /\ gt_drp_rdy /\ gt_step # "READBACK_WAIT"
        /\ gt_step' = IF gt_step = "READ_OUTDIV_WAIT" THEN "WRITE_OUTDIV"
                                                      ELSE "READBACK"
        /\ drp' = NoStrobe
        /\ apply_enable_blocked' = TRUE
        /\ UNCHANGED <<rate_state, mmcm_index, timeout_count, status,
                       tx_quiesce_req>>
     \/ /\ gt_drp_rdy /\ gt_step = "READBACK_WAIT"
        /\ hw_gt = TxoutDiv(target_rate_id)
        /\ rate_state' = "PROGRAM_MMCM_DRP"
        /\ gt_step' = "STEP_DONE"
        /\ mmcm_index' = 0 /\ timeout_count' = 0
        /\ drp' = Flag("gt_done")
        /\ apply_enable_blocked' = TRUE
        /\ UNCHANGED <<status, tx_quiesce_req>>
     \/ /\ gt_drp_rdy /\ gt_step = "READBACK_WAIT"
        /\ hw_gt # TxoutDiv(target_rate_id)
        /\ SetError("GT_DRP_READBACK_MISMATCH")
        /\ drp' = Flag("gt_error")
        /\ UNCHANGED <<gt_step, mmcm_index, timeout_count>>
     \/ /\ ~gt_drp_rdy /\ Expired(DRP_TIMEOUT_CYCLES)
        /\ SetError("GT_DRP_TIMEOUT")
        /\ drp' = Flag("gt_error")
        /\ UNCHANGED <<gt_step, mmcm_index, timeout_count>>
     \/ /\ ~gt_drp_rdy /\ ~Expired(DRP_TIMEOUT_CYCLES)
        /\ Tick
        /\ drp' = NoStrobe
        /\ apply_enable_blocked' = TRUE
        /\ UNCHANGED <<rate_state, gt_step, mmcm_index, status, tx_quiesce_req>>
  /\ UNCHANGED <<current_rate_id, reset_hold_count, verify_count, hardware>>

-----------------------------------------------------------------------------
(* Programming the MMCM: one write per table entry, nothing read back.     *)
(* timeout_count = 0 marks an entry that has not been written yet.         *)

MmcmWrite ==
  /\ rate_state = "PROGRAM_MMCM_DRP"
  /\ EntryLeft /\ timeout_count = 0
  /\ Capture(FALSE)
  /\ apply_enable_blocked' = TRUE /\ resets' = AllResets(TRUE)
  /\ drp' = StrobeAndFlag("mmcm_write", "mmcm_written")
  /\ hw_mmcm' = [hw_mmcm EXCEPT ![mmcm_index] = MmcmTable(target_rate_id)]
  /\ timeout_count' = 1
  /\ UNCHANGED <<current_rate_id, fsmVars, reset_hold_count, verify_count,
                 status, tx_quiesce_req, hw_gt>>

MmcmWait(mmcm_drp_rdy) ==
  /\ rate_state = "PROGRAM_MMCM_DRP"
  /\ EntryLeft /\ timeout_count # 0
  /\ Capture(FALSE)
  /\ resets' = AllResets(TRUE)
  /\ \/ /\ mmcm_drp_rdy
        /\ mmcm_index' = mmcm_index + 1
        /\ timeout_count' = 0
        /\ apply_enable_blocked' = TRUE
        /\ drp' = NoStrobe
        /\ UNCHANGED <<rate_state, status, tx_quiesce_req>>
     \/ /\ ~mmcm_drp_rdy /\ Expired(DRP_TIMEOUT_CYCLES)
        /\ SetError("MMCM_DRP_TIMEOUT")
        /\ drp' = Flag("mmcm_error")
        /\ UNCHANGED <<mmcm_index, timeout_count>>
     \/ /\ ~mmcm_drp_rdy /\ ~Expired(DRP_TIMEOUT_CYCLES)
        /\ Tick
        /\ apply_enable_blocked' = TRUE
        /\ drp' = NoStrobe
        /\ UNCHANGED <<rate_state, mmcm_index, status, tx_quiesce_req>>
  /\ UNCHANGED <<current_rate_id, gt_step, reset_hold_count, verify_count,
                 hardware>>

MmcmDone ==
  /\ rate_state = "PROGRAM_MMCM_DRP" /\ ~EntryLeft
  /\ Capture(FALSE)
  /\ apply_enable_blocked' = TRUE /\ resets' = AllResets(TRUE)
  /\ drp' = Flag("mmcm_done")
  /\ rate_state' = "RELEASE_RESET"
  /\ timeout_count' = 0
  /\ UNCHANGED <<current_rate_id, gt_step, mmcm_index, reset_hold_count,
                 verify_count, status, tx_quiesce_req, hardware>>

-----------------------------------------------------------------------------
(* Releasing the resets, waiting for the locks, verifying the rate *)

\* While the locks are awaited: GT soft reset and MMCM reset are released and
\* TXUSERRDY stays blocked until the clocks are there.
WaitingResets_HoldsGt(b) == [gt |-> TRUE, userrdy |-> b, mmcm |-> FALSE]
WaitingResets(b) == [gt |-> FALSE, userrdy |-> b, mmcm |-> FALSE]
MmcmReleased == [resets EXCEPT !.mmcm = FALSE]

ReleaseReset ==
  /\ rate_state = "RELEASE_RESET"
  /\ Capture(FALSE)
  /\ apply_enable_blocked' = TRUE
  /\ resets' = WaitingResets(TRUE)
  /\ drp' = NoStrobe
  /\ rate_state' = "WAIT_MMCM_RESET_RELEASE"
  /\ timeout_count' = 0
  /\ UNCHANGED <<current_rate_id, gt_step, mmcm_index, reset_hold_count,
                 verify_count, status, tx_quiesce_req, hardware>>

WaitMmcmResetRelease ==
  /\ rate_state = "WAIT_MMCM_RESET_RELEASE"
  /\ Capture(FALSE)
  /\ apply_enable_blocked' = TRUE
  /\ resets' = WaitingResets(TRUE)
  /\ drp' = NoStrobe
  /\ \/ /\ Expired(RESET_HOLD_CYCLES)
        /\ rate_state' = "WAIT_LOCK" /\ timeout_count' = 0
     \/ /\ ~Expired(RESET_HOLD_CYCLES)
        /\ Tick
        /\ UNCHANGED rate_state
  /\ UNCHANGED <<current_rate_id, gt_step, mmcm_index, reset_hold_count,
                 verify_count, status, tx_quiesce_req, hardware>>

LockStages == {"mmcm", "cpll", "resetdone", "gt_ready"}

LockError(missing) ==
  CASE missing = "mmcm"      -> "MMCM_LOCK_TIMEOUT"
    [] missing = "resetdone" -> "TX_RESETDONE_TIMEOUT"
    [] OTHER                 -> "GT_READY_TIMEOUT"

\* missing: the first stage, in the order of LockStages, that is not there at
\* this edge.  One timeout_count serves all four.
WaitLock(missing) ==
  /\ rate_state = "WAIT_LOCK"
  /\ Capture(FALSE)
  /\ resets' = WaitingResets(missing \in {"mmcm", "cpll"})
  /\ drp' = NoStrobe
  /\ \/ /\ Expired(LOCK_TIMEOUT_CYCLES)
        /\ SetError(LockError(missing))
        /\ UNCHANGED timeout_count
     \/ /\ ~Expired(LOCK_TIMEOUT_CYCLES)
        /\ Tick
        /\ apply_enable_blocked' = TRUE
        /\ UNCHANGED <<rate_state, status, tx_quiesce_req>>
  /\ UNCHANGED <<current_rate_id, gt_step, mmcm_index, reset_hold_count,
                 verify_count, hardware>>

\* Every stage is there: the reset outputs keep the values of the last wait.
Locked ==
  /\ rate_state = "WAIT_LOCK"
  /\ Capture(FALSE)
  /\ apply_enable_blocked' = TRUE
  /\ resets' = MmcmReleased
  /\ drp' = NoStrobe
  /\ rate_state' = "VERIFY_RATE"
  /\ verify_count' = 0 /\ timeout_count' = 0
  /\ UNCHANGED <<current_rate_id, gt_step, mmcm_index, reset_hold_count,
                 status, tx_quiesce_req, hardware>>

\* alive and measured are sampled at this edge; neither lock is looked at again.
VerifyRate(alive, measured) ==
  /\ rate_state = "VERIFY_RATE"
  /\ Capture(FALSE)
  /\ resets' = AllResets(FALSE)
  /\ drp' = NoStrobe
  /\ \/ /\ verify_count < VERIFY_SETTLE_CYCLES
        /\ verify_count' = verify_count + 1
        /\ apply_enable_blocked' = TRUE
        /\ UNCHANGED <<current_rate_id, rate_state, status, tx_quiesce_req>>
     \/ /\ verify_count >= VERIFY_SETTLE_CYCLES
        /\ ~alive
        /\ SetError("TXUSRCLK2_NOT_ALIVE")
        /\ UNCHANGED <<current_rate_id, verify_count>>
     \/ /\ verify_count >= VERIFY_SETTLE_CYCLES
        /\ alive /\ ~FrequencyFits(measured)
        /\ SetError("TXUSRCLK2_FREQ_OUT_OF_WINDOW")
        /\ UNCHANGED <<current_rate_id, verify_count>>
     \/ /\ verify_count >= VERIFY_SETTLE_CYCLES
        /\ alive /\ FrequencyFits(measured)
        /\ current_rate_id' = target_rate_id
        /\ rate_state' = "DONE"
        /\ status' = RateVerified
        /\ apply_enable_blocked' = FALSE
        /\ UNCHANGED <<tx_quiesce_req, verify_count>>
  /\ UNCHANGED <<gt_step, mmcm_index, timeout_count, reset_hold_count, hardware>>

-----------------------------------------------------------------------------
(* The environment, and the specification *)

Clock ==
  \/ IdleOrDone
  \/ InError
  \/ Request
  \/ Validate
  \/ \E laser_idle \in BOOLEAN : QuiesceTx(laser_idle)
  \/ AssertReset
  \/ GtStrobe
  \/ \E rdy \in BOOLEAN : GtWait(rdy)
  \/ MmcmWrite
  \/ \E rdy \in BOOLEAN : MmcmWait(rdy)
  \/ MmcmDone
  \/ ReleaseReset
  \/ WaitMmcmResetRelease
  \/ \E missing \in LockStages : WaitLock(missing)
  \/ Locked
  \/ \E alive \in BOOLEAN, measured \in Measurable : VerifyRate(alive, measured)

\* laser_gpio_rate_request: one write flips bit 15 and sets the id.  The next
\* write to the register is many clock edges away, so an edge is never hidden.
RateRequest(id) ==
  /\ ~request_event
  /\ status.busy => id \in BusyRequestIds
  /\ gpio_ctrl' = [req |-> ~gpio_ctrl.req, id |-> id]
  /\ UNCHANGED <<rate_req_toggle_d, request_pending, target_rate_id,
                 current_rate_id, fsmVars, timers, outputs, hardware>>

\* rst: the controller forgets everything and assumes the static rate; the
\* GT and the MMCM keep what their DRP ports wrote.  The GPIO is on the same
\* processor reset.
Reset ==
  /\ gpio_ctrl' = [req |-> FALSE, id |-> RATE_ID_NONE]
  /\ rate_req_toggle_d' = FALSE
  /\ request_pending' = FALSE
  /\ target_rate_id' = RATE_ID_NONE
  /\ current_rate_id' = RATE_ID_500M
  /\ rate_state' = "IDLE" /\ gt_step' = "READ_OUTDIV" /\ mmcm_index' = 0
  /\ timeout_count' = 0 /\ reset_hold_count' = 0 /\ verify_count' = 0
  /\ status' = ResetRegisters.status
  /\ resets' = ResetRegisters.resets
  /\ drp' = ResetRegisters.drp
  /\ apply_enable_blocked' = FALSE /\ tx_quiesce_req' = FALSE
  /\ UNCHANGED hardware

Next == Clock \/ Reset \/ \E id \in RateIds : RateRequest(id)

\* The clock runs: PS FCLK, independent of the transceiver's clocks.
Spec == Init /\ [][Next]_vars /\ WF_vars(Clock)

-----------------------------------------------------------------------------
(* Properties *)

GpioType == [req : BOOLEAN, id : RateIds]
StatusType == [busy : BOOLEAN, done : BOOLEAN, error : BOOLEAN,
               already : BOOLEAN, code : ErrorCodes \cup {"NONE"}]
ResetsType == [gt : BOOLEAN, userrdy : BOOLEAN, mmcm : BOOLEAN]
DrpType == [cmd : {"none", "gt_read", "gt_write", "mmcm_write"},
            gt_done : BOOLEAN, gt_error : BOOLEAN, gt_written : BOOLEAN,
            mmcm_done : BOOLEAN, mmcm_error : BOOLEAN, mmcm_written : BOOLEAN]

RequestTypeOK ==
  /\ gpio_ctrl \in GpioType
  /\ rate_req_toggle_d \in BOOLEAN /\ request_pending \in BOOLEAN
  /\ target_rate_id \in RateIds
FsmTypeOK ==
  /\ rate_state \in RateStates /\ gt_step \in GtSteps
  /\ mmcm_index \in 0 .. MMCM_TABLE_LEN /\ current_rate_id \in RateIds
TimersTypeOK ==
  timeout_count \in Nat /\ reset_hold_count \in Nat /\ verify_count \in Nat
OutputsTypeOK ==
  /\ status \in StatusType /\ resets \in ResetsType /\ drp \in DrpType
  /\ apply_enable_blocked \in BOOLEAN /\ tx_quiesce_req \in BOOLEAN
HardwareTypeOK ==
  /\ hw_gt \in {2, 3}
  /\ hw_mmcm \in [0 .. MMCM_TABLE_LEN - 1 -> {"500m", "1000m"}]

\* The registers hold values of their types.  current_rate_id is two bits
\* wide: which of the four values it takes is CurrentRateSupported's business.
TypeOK ==
  RequestTypeOK /\ FsmTypeOK /\ TimersTypeOK /\ OutputsTypeOK /\ HardwareTypeOK

\* The flags software polls tell the state apart: exactly one of busy, done
\* and error outside IDLE, none in IDLE, and an error code exactly with an
\* error.  laser_rate_wait_done_or_error and the GT-ready gating rely on it.
StatusMatchesState ==
  /\ status.done  <=> rate_state = "DONE"
  /\ status.error <=> rate_state = "ERROR"
  /\ status.busy  <=> rate_state \notin {"IDLE", "DONE", "ERROR"}
  /\ status.error <=> status.code # "NONE"
  /\ status.already => status.done

\* No DRP port is strobed unless the GT transmitter, TXUSERRDY and the MMCM
\* are all held back in that very cycle, whatever went wrong before and
\* whatever is requested meanwhile.
DrpOnlyUnderReset ==
  drp.cmd # "none" => resets.gt /\ resets.userrdy /\ resets.mmcm

\* No wait outlasts its parameter: the counters that stay at their limits
\* when a wait fails never pass them, also where two uses share a register.
Largest(a, b) == IF a >= b THEN a ELSE b
WaitsBounded ==
  /\ timeout_count <=
       Largest(Largest(TX_QUIESCE_TIMEOUT, DRP_TIMEOUT_CYCLES),
               Largest(LOCK_TIMEOUT_CYCLES, RESET_HOLD_CYCLES))
  /\ rate_state = "QUIESCE_TX" => timeout_count <= TX_QUIESCE_TIMEOUT
  /\ rate_state \in {"PROGRAM_GT_DRP", "PROGRAM_MMCM_DRP"}
       => timeout_count <= DRP_TIMEOUT_CYCLES
  /\ rate_state = "WAIT_LOCK" => timeout_count <= LOCK_TIMEOUT_CYCLES
  /\ reset_hold_count <= RESET_HOLD_CYCLES
  /\ verify_count <= VERIFY_SETTLE_CYCLES

\* The deadlock fixed in the reset sequence stays fixed: from the end of
\* RELEASE_RESET until the switch ends, the controller holds neither the GT
\* soft reset nor the MMCM reset, so the MMCM it waits for can lock.
LockWaitHoldsNoReset ==
  rate_state \in {"WAIT_MMCM_RESET_RELEASE", "WAIT_LOCK", "VERIFY_RATE"}
    => ~resets.gt /\ ~resets.mmcm

\* A switch that reports DONE by verification left the transceiver at the
\* rate it reports, even if the target was rewritten in the middle of it.
VerifiedLineRate ==
  status.done /\ ~status.already => hw_gt = TxoutDiv(current_rate_id)

\* With no request during a switch, the whole MMCM table is that rate's too.
VerifiedMmcmTable ==
  status.done /\ ~status.already =>
    \A i \in 0 .. MMCM_TABLE_LEN - 1 : hw_mmcm[i] = MmcmTable(current_rate_id)

\* DONE answers the last request: once no further request is on its way, the
\* rate in force is the one asked for last, not the one first asked for.
DoneAnswersLastRequest ==
  status.done /\ ~request_pending /\ ~request_event
    => current_rate_id = target_rate_id

\* Every switch ends, in DONE or in ERROR, whichever port or lock stays silent.
SwitchTerminates == status.busy ~> ~status.busy

\* No request is lost: an edge of bit 15 in any state leads to a REQUEST,
\* unless a reset of the controller wipes it out.
RequestIsServed ==
  request_event ~> \/ rate_state = "REQUEST"
                   \/ rate_state = "IDLE" /\ ~request_event /\ ~request_pending

\* "This module intentionally supports only two rates": the rate in force is
\* one of the two.
CurrentRateSupported == current_rate_id \in Supported

\* A controller that reports DONE runs the transceiver at the rate it reports.
DoneMeansProgrammed == status.done => hw_gt = TxoutDiv(current_rate_id)
=============================================================================
