------------------------------ MODULE GtMonitor ------------------------------
(***************************************************************************)
(* How the GT wrapper (laser_gt_tx_profile0.v) knows that the transmitter  *)
(* is ready and how fast its clock is, and how the last two states of the  *)
(* rate controller, WAIT_LOCK and VERIFY_RATE, decide by it whether a      *)
(* switch has succeeded.  A counter on txusrclk2 is sampled in Gray code,  *)
(* and its advance over MEASURE_CYCLES cycles of ctrl_clk is the           *)
(* frequency; the windows of that measurement run freely, whatever the     *)
(* controller does.                                                        *)
(*                                                                         *)
(* CtrlEdge is one edge of ctrl_clk together with what txusrclk2 does in   *)
(* that cycle.  The clock runs at speed \div DEN of ctrl_clk, at most at   *)
(* its rate.  The three locks are always used together: locked is their    *)
(* conjunction.                                                            *)
(***************************************************************************)
EXTENDS Integers

CONSTANTS
  MEASURE_CYCLES,        \* cycles of a frequency window
  VERIFY_SETTLE_CYCLES,  \* cycles in VERIFY_RATE before the count is trusted
  READY_STABLE_CYCLES,   \* cycles of stable locks that make ready
  ALIVE_TIMEOUT,         \* cycles without a count that make a stopped clock
  COUNTER_MOD,           \* the counter is modulo this
  DEN,                   \* the unit of speed
  Targets,               \* the rates
  Speed,                 \* the speed of txusrclk2 at each rate
  MinCount, MaxCount,    \* the accepted counts of each rate
  MaxSwitches            \* bound: the switches

ASSUME MonitorAssumption ==
  /\ MEASURE_CYCLES \in Nat \ {0} /\ VERIFY_SETTLE_CYCLES \in Nat
  /\ READY_STABLE_CYCLES \in Nat \ {0} /\ ALIVE_TIMEOUT \in Nat
  /\ COUNTER_MOD \in Nat /\ COUNTER_MOD > MEASURE_CYCLES
  /\ DEN \in Nat \ {0} /\ Targets # {}
  /\ Speed \in [Targets -> 1 .. DEN]
  /\ MinCount \in [Targets -> Nat] /\ MaxCount \in [Targets -> Nat]
  /\ \A t \in Targets : MaxCount[t] < COUNTER_MOD
  /\ MaxSwitches \in Nat

Counts == 0 .. COUNTER_MOD - 1
Speeds == {Speed[t] : t \in Targets}

\* The counts of a window at a speed: its ticks, and at each end the sample is
\* one cycle early or late and the tick before it up to a period old.
WindowCounts(s) ==
  {f \in Counts : DEN * f \in (MEASURE_CYCLES - 1) * s - (DEN - 1)
                             .. (MEASURE_CYCLES + 1) * s + (DEN - 1)}

\* The wait in VERIFY_RATE holds a whole window, wherever that begins, and a
\* timeout of the aliveness; a running clock ticks within that timeout.  The
\* counter does not wrap in a window.  What a rate counts is accepted, and what
\* any other speed counts is not.
ASSUME WindowAssumption ==
  /\ VERIFY_SETTLE_CYCLES >= 2 * MEASURE_CYCLES - 1
  /\ VERIFY_SETTLE_CYCLES > ALIVE_TIMEOUT
  /\ COUNTER_MOD > MEASURE_CYCLES + 1 /\ COUNTER_MOD > 4
  /\ \A t \in Targets :
       /\ ALIVE_TIMEOUT * Speed[t] >= DEN
       /\ \A f \in WindowCounts(Speed[t]) : f \in MinCount[t] .. MaxCount[t]
       /\ \A s \in Speeds \cup {0} :
            (\E f \in WindowCounts(s) : f \in MinCount[t] .. MaxCount[t]) => s = Speed[t]

VARIABLES
  speed,               \* of txusrclk2, 0 when it stands still
  position,            \* where txusrclk2 is in its period
  counter_tx,
  locked, locked_meta, locked_sync,
  ready_count, gt_ready_ctrl,
  counter_meta, counter_sync, counter_bin,
  measure_count, bin_prev, freq_counter,
  freq_prev, alive, alive_timeout,
  state,               \* of the controller: "away" from the four below
  target, verify_count,
  switches,            \* history: the switches so far
  changed              \* history: the clock has changed since VERIFY_RATE

clock   == <<speed, position, counter_tx, locked>>
ready   == <<locked_meta, locked_sync, ready_count, gt_ready_ctrl>>
sampled == <<counter_meta, counter_sync, counter_bin>>
measure == <<measure_count, bin_prev, freq_counter>>
aliveness == <<freq_prev, alive, alive_timeout>>
monitor == <<ready, sampled, measure, aliveness>>
control == <<state, target, verify_count, switches>>
vars == <<clock, monitor, control, changed>>

\* The transmitter runs at one of the rates when ctrl_clk leaves its reset.
Init ==
  /\ speed \in Speeds /\ position = 0 /\ counter_tx = 0
  /\ locked = TRUE /\ locked_meta = FALSE /\ locked_sync = FALSE
  /\ ready_count = 0 /\ gt_ready_ctrl = FALSE
  /\ counter_meta = 0 /\ counter_sync = 0 /\ counter_bin = 0
  /\ measure_count = 0 /\ bin_prev = 0 /\ freq_counter = 0
  /\ freq_prev = 0 /\ alive = FALSE /\ alive_timeout = ALIVE_TIMEOUT
  /\ state = "away" /\ target \in Targets /\ verify_count = 0
  /\ switches = 0 /\ changed = FALSE

-----------------------------------------------------------------------------
(* txusrclk2 and its locks *)

Ticks == position + speed >= DEN
ClockRuns ==
  /\ position' = (position + speed) % DEN
  /\ counter_tx' = IF Ticks THEN (counter_tx + 1) % COUNTER_MOD ELSE counter_tx

-----------------------------------------------------------------------------
(* The wrapper's registers on ctrl_clk *)

ReadyCount_NoLimit ==
  IF ~locked_sync THEN 0 ELSE ready_count + 1
ReadyCount ==
  IF ~locked_sync THEN 0
  ELSE IF ready_count < READY_STABLE_CYCLES THEN ready_count + 1 ELSE ready_count

ReadyEdge ==
  /\ locked_meta' = locked /\ locked_sync' = locked_meta
  /\ ready_count' = ReadyCount
  /\ gt_ready_ctrl' = (locked_sync /\ ready_count = READY_STABLE_CYCLES)

\* One bit of the Gray code changes with a tick, so that a sample taken during
\* the tick is the count before it or after it.
SampleEdge ==
  /\ counter_meta' \in {counter_tx, counter_tx'}
  /\ counter_sync' = counter_meta /\ counter_bin' = counter_sync

Advance == (counter_bin - bin_prev) % COUNTER_MOD

MeasureEdge_FromStart ==
  IF measure_count = MEASURE_CYCLES - 1
  THEN measure_count' = 0 /\ freq_counter' = Advance /\ UNCHANGED bin_prev
  ELSE measure_count' = measure_count + 1 /\ UNCHANGED <<bin_prev, freq_counter>>
MeasureEdge ==
  IF measure_count = MEASURE_CYCLES - 1
  THEN measure_count' = 0 /\ freq_counter' = Advance /\ bin_prev' = counter_bin
  ELSE measure_count' = measure_count + 1 /\ UNCHANGED <<bin_prev, freq_counter>>

Counted == counter_bin # freq_prev
AliveEdge_Sticky ==
  /\ alive' = (alive \/ Counted)
  /\ alive_timeout' = IF Counted THEN 0 ELSE alive_timeout
  /\ freq_prev' = counter_bin
AliveEdge ==
  /\ alive' = (Counted \/ (alive /\ alive_timeout # ALIVE_TIMEOUT))
  /\ alive_timeout' = IF Counted THEN 0
                      ELSE IF alive_timeout < ALIVE_TIMEOUT THEN alive_timeout + 1
                      ELSE alive_timeout
  /\ freq_prev' = counter_bin

-----------------------------------------------------------------------------
(* The controller in WAIT_LOCK and VERIFY_RATE *)

InWindow == freq_counter \in MinCount[target] .. MaxCount[target]

\* Between two switches, and when no other follows.
Away ==
  /\ state = "away"
  /\ UNCHANGED <<speed, locked, control, changed>>

\* The resets of a switch stop the clock.
Stop ==
  /\ state = "away" /\ switches < MaxSwitches
  /\ state' = "reset" /\ switches' = switches + 1 /\ target' \in Targets
  /\ speed' = 0 /\ locked' = FALSE
  /\ UNCHANGED <<verify_count, changed>>

\* Resets last longer than the synchronisers of the locks.  The clock comes back
\* at the rate that was asked for or, when the DRP writes failed, at another.
Release ==
  /\ state = "reset"
  /\ IF locked_sync \/ gt_ready_ctrl THEN UNCHANGED <<speed, state>>
     ELSE speed' \in Speeds \cup {0} /\ state' = "wait_lock"
  /\ UNCHANGED <<locked, target, verify_count, switches, changed>>

\* The locks rise when they like, once the clock runs; without them the wait
\* goes on until it times out.
WaitLock ==
  /\ state = "wait_lock"
  /\ locked' = TRUE \/ locked' = locked
  /\ locked' => speed # 0
  /\ \/ /\ locked_sync /\ gt_ready_ctrl
        /\ state' = "verify" /\ verify_count' = 0 /\ changed' = FALSE
     \/ /\ ~(locked_sync /\ gt_ready_ctrl)
        /\ state' \in {"wait_lock", "away"} /\ UNCHANGED <<verify_count, changed>>
  /\ UNCHANGED <<speed, target, switches>>

Settling_OneWindow == verify_count < MEASURE_CYCLES
Settling == verify_count < VERIFY_SETTLE_CYCLES

\* The clock may fail meanwhile, and its locks with it.
Fails ==
  \/ UNCHANGED <<speed, locked, changed>>
  \/ speed' = 0 /\ locked' = FALSE /\ changed' = TRUE

VerifySettles ==
  /\ state = "verify" /\ Settling
  /\ verify_count' = verify_count + 1
  /\ Fails
  /\ UNCHANGED <<state, target, switches>>

Decide(accepted) ==
  /\ state = "verify" /\ ~Settling
  /\ accepted = (alive /\ InWindow)
  /\ state' = "away"
  /\ UNCHANGED <<speed, locked, target, verify_count, switches, changed>>
Accept == Decide(TRUE)
Reject == Decide(FALSE)

-----------------------------------------------------------------------------
CtrlEdge ==
  /\ ClockRuns
  /\ ReadyEdge /\ SampleEdge /\ MeasureEdge /\ AliveEdge
  /\ Away \/ Stop \/ Release \/ WaitLock \/ VerifySettles \/ Accept \/ Reject

\* ctrl_clk does not depend on the transceiver.
Spec == Init /\ [][CtrlEdge]_vars /\ WF_vars(CtrlEdge)

-----------------------------------------------------------------------------
(* Properties *)

\* The counts stay within their limits: ready_count saturates, the window count
\* and the wait in VERIFY_RATE end at their parameters.
TypeOK ==
  /\ speed \in Speeds \cup {0} /\ position \in 0 .. DEN - 1 /\ counter_tx \in Counts
  /\ locked \in BOOLEAN /\ locked_meta \in BOOLEAN /\ locked_sync \in BOOLEAN
  /\ ready_count \in 0 .. READY_STABLE_CYCLES /\ gt_ready_ctrl \in BOOLEAN
  /\ counter_meta \in Counts /\ counter_sync \in Counts /\ counter_bin \in Counts
  /\ measure_count \in 0 .. MEASURE_CYCLES - 1
  /\ bin_prev \in Counts /\ freq_counter \in Counts
  /\ freq_prev \in Counts /\ alive \in BOOLEAN /\ alive_timeout \in 0 .. ALIVE_TIMEOUT
  /\ state \in {"away", "reset", "wait_lock", "verify"} /\ target \in Targets
  /\ verify_count \in 0 .. VERIFY_SETTLE_CYCLES /\ changed \in BOOLEAN
  /\ switches \in 0 .. MaxSwitches

\* A rate is accepted only if the clock runs at it: the window it is judged by
\* is not one from before the switch, although windows begin at any moment and
\* the count of the last one stays in the register.
AcceptedIsRunning == [][Accept /\ ~changed => speed = Speed[target]]_vars

\* A clock that has run at the target's speed since the locks were there is
\* never taken for dead or too fast or slow: not because of a window that
\* began before, a wrapped counter or a sample taken during a tick.
RunningIsAccepted == [][Reject /\ ~changed => speed # Speed[target]]_vars

\* A clock that stands still is noticed.
StoppedIsNoticed == speed = 0 ~> ~alive \/ speed # 0
=============================================================================
