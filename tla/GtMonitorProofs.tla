--------------------------- MODULE GtMonitorProofs ---------------------------
(***************************************************************************)
(* What holds of GtMonitor for any length of its windows and waits.        *)
(***************************************************************************)
EXTENDS GtMonitor, TLAPS

LEMMA Remainder ==
  ASSUME NEW a \in Int, NEW n \in Nat \ {0}
  PROVE  a % n \in 0 .. n - 1
OBVIOUS

LEMMA CountsType ==
  /\ 0 \in Counts /\ COUNTER_MOD \in Nat \ {0}
  /\ \A a \in Int : a % COUNTER_MOD \in Counts
<1>1. COUNTER_MOD \in Nat \ {0}
  BY MonitorAssumption
<1> QED  BY <1>1, Remainder DEF Counts

LEMMA SpeedsType == \A s \in Speeds \cup {0} : s \in Nat
BY MonitorAssumption DEF Speeds

-----------------------------------------------------------------------------
(* The parts of the type invariant *)

ClockType ==
  /\ speed \in Speeds \cup {0} /\ position \in 0 .. DEN - 1 /\ counter_tx \in Counts
  /\ locked \in BOOLEAN
ReadyType ==
  /\ locked_meta \in BOOLEAN /\ locked_sync \in BOOLEAN
  /\ ready_count \in 0 .. READY_STABLE_CYCLES /\ gt_ready_ctrl \in BOOLEAN
MeasureType ==
  /\ counter_meta \in Counts /\ counter_sync \in Counts /\ counter_bin \in Counts
  /\ measure_count \in 0 .. MEASURE_CYCLES - 1
  /\ bin_prev \in Counts /\ freq_counter \in Counts
AliveType ==
  freq_prev \in Counts /\ alive \in BOOLEAN /\ alive_timeout \in 0 .. ALIVE_TIMEOUT
ControlType ==
  /\ state \in {"away", "reset", "wait_lock", "verify"} /\ target \in Targets
  /\ verify_count \in 0 .. VERIFY_SETTLE_CYCLES /\ changed \in BOOLEAN
  /\ switches \in 0 .. MaxSwitches

LEMMA ClockStep == ASSUME ClockType, ControlType, CtrlEdge PROVE ClockType'
<1>1. position' \in 0 .. DEN - 1
  <2>1. position + speed \in Int /\ DEN \in Nat \ {0}
    BY SpeedsType, MonitorAssumption DEF ClockType
  <2> QED  BY <2>1, Remainder DEF CtrlEdge, ClockRuns
<1>2. counter_tx' \in Counts
  <2>1. counter_tx + 1 \in Int
    BY DEF ClockType, Counts
  <2> QED  BY <2>1, CountsType DEF CtrlEdge, ClockRuns, ClockType
<1>3. speed' \in Speeds \cup {0} /\ locked' \in BOOLEAN
  <2>1. CASE Away \/ Stop \/ Accept \/ Reject
    BY <2>1 DEF Away, Stop, Accept, Reject, Decide, ClockType
  <2>2. CASE Release
    BY <2>2 DEF Release, ClockType
  <2>3. CASE WaitLock
    BY <2>3 DEF WaitLock, ClockType
  <2>4. CASE VerifySettles
    BY <2>4 DEF VerifySettles, Fails, ClockType
  <2> QED  BY <2>1, <2>2, <2>3, <2>4 DEF CtrlEdge
<1> QED  BY <1>1, <1>2, <1>3 DEF ClockType

LEMMA ReadyStep == ASSUME ClockType, ReadyType, CtrlEdge PROVE ReadyType'
<1>1. ready_count' \in 0 .. READY_STABLE_CYCLES
  BY MonitorAssumption DEF CtrlEdge, ReadyEdge, ReadyCount, ReadyType
<1>2. locked_meta' \in BOOLEAN /\ locked_sync' \in BOOLEAN
  BY DEF CtrlEdge, ReadyEdge, ReadyType, ClockType
<1>3. gt_ready_ctrl' = (locked_sync /\ ready_count = READY_STABLE_CYCLES)
  BY DEF CtrlEdge, ReadyEdge
<1>4. gt_ready_ctrl' \in BOOLEAN
  BY <1>3
<1> QED  BY <1>1, <1>2, <1>4 DEF ReadyType

LEMMA MeasureStep == ASSUME ClockType, ClockType', MeasureType, CtrlEdge PROVE MeasureType'
<1>1. counter_meta' \in Counts /\ counter_sync' \in Counts /\ counter_bin' \in Counts
  BY DEF CtrlEdge, SampleEdge, MeasureType, ClockType
<1>2. Advance \in Counts
  <2>1. counter_bin - bin_prev \in Int
    BY DEF MeasureType, Counts
  <2> QED  BY <2>1, CountsType DEF Advance
<1>3. /\ bin_prev' \in {bin_prev, counter_bin} /\ freq_counter' \in {freq_counter, Advance}
      /\ measure_count' = IF measure_count = MEASURE_CYCLES - 1 THEN 0 ELSE measure_count + 1
  BY DEF CtrlEdge, MeasureEdge
<1>4. measure_count' \in 0 .. MEASURE_CYCLES - 1
  BY <1>3, MonitorAssumption DEF MeasureType
<1> QED  BY <1>1, <1>2, <1>3, <1>4 DEF MeasureType

LEMMA AliveStep == ASSUME MeasureType, AliveType, CtrlEdge PROVE AliveType'
<1>1. freq_prev' \in Counts
  BY DEF CtrlEdge, AliveEdge, MeasureType
<1>2. alive_timeout' \in 0 .. ALIVE_TIMEOUT
  BY MonitorAssumption DEF CtrlEdge, AliveEdge, AliveType
<1>3. alive' = (Counted \/ (alive /\ alive_timeout # ALIVE_TIMEOUT))
  BY DEF CtrlEdge, AliveEdge
<1>4. alive' \in BOOLEAN
  BY <1>3
<1> QED  BY <1>1, <1>2, <1>4 DEF AliveType

LEMMA ControlStep == ASSUME ControlType, CtrlEdge PROVE ControlType'
<1>1. CASE Away
  BY <1>1 DEF Away, control, ControlType
<1>2. CASE Stop
  <2>1. switches' \in 0 .. MaxSwitches
    BY <1>2, MonitorAssumption DEF Stop, ControlType
  <2>2. state' = "reset" /\ target' \in Targets /\ UNCHANGED <<verify_count, changed>>
    BY <1>2 DEF Stop
  <2> QED  BY <2>1, <2>2 DEF ControlType
<1>3. CASE Release
  BY <1>3 DEF Release, ControlType
<1>4. CASE WaitLock
  <2>1. 0 \in 0 .. VERIFY_SETTLE_CYCLES
    BY MonitorAssumption
  <2>2. verify_count' \in {0, verify_count} /\ changed' \in {FALSE, changed}
    BY <1>4 DEF WaitLock
  <2>3. state' \in {"verify", "wait_lock", "away"} /\ UNCHANGED <<target, switches>>
    BY <1>4 DEF WaitLock
  <2> QED  BY <2>1, <2>2, <2>3 DEF ControlType
<1>5. CASE VerifySettles
  <2>1. verify_count' \in 0 .. VERIFY_SETTLE_CYCLES
    BY <1>5, MonitorAssumption DEF VerifySettles, Settling, ControlType
  <2>2. changed' \in {TRUE, changed} /\ UNCHANGED <<state, target, switches>>
    BY <1>5 DEF VerifySettles, Fails
  <2> QED  BY <2>1, <2>2 DEF ControlType
<1>6. CASE Accept \/ Reject
  BY <1>6 DEF Accept, Reject, Decide, ControlType
<1> QED  BY <1>1, <1>2, <1>3, <1>4, <1>5, <1>6 DEF CtrlEdge

\* The counts stay within their limits: ready_count saturates, the window count
\* and the wait in VERIFY_RATE end at their parameters, the sampled counts are
\* values of the counter.
THEOREM TypeCorrect == Spec => []TypeOK
<1> DEFINE Inv == ClockType /\ ReadyType /\ MeasureType /\ AliveType /\ ControlType
<1>1. ASSUME Init PROVE Inv
  <2>1. ClockType
    <3>1. 0 \in 0 .. DEN - 1
      BY MonitorAssumption
    <3> QED  BY <1>1, <3>1, CountsType DEF Init, ClockType
  <2>2. ReadyType
    <3>1. 0 \in 0 .. READY_STABLE_CYCLES
      BY MonitorAssumption
    <3> QED  BY <1>1, <3>1 DEF Init, ReadyType
  <2>3. MeasureType
    <3>1. 0 \in 0 .. MEASURE_CYCLES - 1
      BY MonitorAssumption
    <3> QED  BY <1>1, <3>1, CountsType DEF Init, MeasureType
  <2>4. AliveType
    <3>1. ALIVE_TIMEOUT \in 0 .. ALIVE_TIMEOUT
      BY MonitorAssumption
    <3> QED  BY <1>1, <3>1, CountsType DEF Init, AliveType
  <2>5. ControlType
    <3>1. 0 \in 0 .. VERIFY_SETTLE_CYCLES /\ 0 \in 0 .. MaxSwitches
      BY MonitorAssumption
    <3> QED  BY <1>1, <3>1 DEF Init, ControlType
  <2> QED  BY <2>1, <2>2, <2>3, <2>4, <2>5
<1>2. Inv /\ [CtrlEdge]_vars => Inv'
  <2>1. CASE CtrlEdge
    BY <2>1, ClockStep, ReadyStep, MeasureStep, AliveStep, ControlStep
  <2>2. CASE UNCHANGED vars
    BY <2>2 DEF vars, clock, monitor, ready, sampled, measure, aliveness, control,
       ClockType, ReadyType, MeasureType, AliveType, ControlType
  <2> QED  BY <2>1, <2>2
<1>3. Inv => TypeOK
  BY DEF ClockType, ReadyType, MeasureType, AliveType, ControlType, TypeOK
<1> QED  BY <1>1, <1>2, <1>3, PTL DEF Spec

-----------------------------------------------------------------------------
(* How far a sample is behind the counter *)

\* x is a value that the counter had, c the counter, p the position in its
\* period: since the tick that made the counter x the clock has advanced by
\* something from lo to hi, in units of one DEN-th of a period.
Behind(x, c, p, lo, hi) ==
  \E n \in Nat, q \in Int : x + n = c + q * COUNTER_MOD /\ DEN * n + p \in lo .. hi

LEMMA SmallRemainders ==
  ASSUME NEW n \in Nat \ {0}, NEW a \in Int
  PROVE  /\ 0 <= a /\ a < n => a % n = a
         /\ n <= a /\ a < 2 * n => a % n = a - n
         /\ -n <= a /\ a < 0 => a % n = a + n
OBVIOUS

LEMMA SpeedBound == ASSUME ClockType PROVE speed \in 0 .. DEN /\ DEN \in Nat \ {0}
BY MonitorAssumption DEF ClockType, Speeds

\* An edge moves the clock by its speed, with a tick or without.
LEMMA EdgeOfClock ==
  ASSUME ClockType, ClockRuns
  PROVE  \/ /\ position' = position + speed - DEN
            /\ \E k \in {0, 1} : counter_tx' = counter_tx + 1 - k * COUNTER_MOD
         \/ position' = position + speed /\ counter_tx' = counter_tx
<1>1. position \in 0 .. DEN - 1 /\ counter_tx \in 0 .. COUNTER_MOD - 1
  BY DEF ClockType, Counts
<1>2. COUNTER_MOD \in Nat \ {0}
  BY CountsType
<1>3. CASE Ticks
  <2>1. position' = position + speed - DEN
    BY <1>1, <1>3, SpeedBound, SmallRemainders DEF Ticks, ClockRuns
  <2>2. counter_tx' = (counter_tx + 1) % COUNTER_MOD
    BY <1>3 DEF ClockRuns
  <2>3. CASE counter_tx + 1 < COUNTER_MOD
    <3>0. counter_tx + 1 \in Int /\ 0 <= counter_tx + 1
      BY <1>1, <1>2
    <3>1. counter_tx' = counter_tx + 1
      BY <1>2, <2>2, <2>3, <3>0, SmallRemainders
    <3>2. 0 \in {0, 1}
      OBVIOUS
    <3>3. \E k \in {0, 1} : counter_tx' = counter_tx + 1 - k * COUNTER_MOD
      <4>1. counter_tx' = counter_tx + 1 - 0 * COUNTER_MOD
        BY <1>2, <3>0, <3>1
      <4> QED  BY <3>2, <4>1, Zenon
    <3> QED  BY <2>1, <3>3
  <2>4. CASE ~(counter_tx + 1 < COUNTER_MOD)
    <3>1. counter_tx + 1 = COUNTER_MOD
      BY <1>1, <1>2, <2>4
    <3>2. counter_tx' = counter_tx + 1 - 1 * COUNTER_MOD
      BY <1>1, <1>2, <2>2, <3>1, SmallRemainders
    <3> QED  BY <2>1, <3>2
  <2> QED  BY <2>3, <2>4
<1>4. CASE ~Ticks
  BY <1>1, <1>4, SpeedBound, SmallRemainders DEF Ticks, ClockRuns
<1> QED  BY <1>3, <1>4

LEMMA Further ==
  ASSUME ClockType, ClockRuns, NEW x \in Int, NEW lo \in Int, NEW hi \in Int,
         Behind(x, counter_tx, position, lo, hi)
  PROVE  Behind(x, counter_tx', position', lo + speed, hi + speed)
<1>1. PICK n \in Nat, q \in Int :
        x + n = counter_tx + q * COUNTER_MOD /\ DEN * n + position \in lo .. hi
  BY DEF Behind
<1>2. /\ position \in Int /\ counter_tx \in Int /\ speed \in Int /\ DEN \in Int
      /\ COUNTER_MOD \in Int
  BY SpeedBound, CountsType DEF ClockType, Counts
<1>3. CASE position' = position + speed /\ counter_tx' = counter_tx
  <2>1. DEN * n \in Int
    BY <1>2
  <2>2. DEN * n + position' \in lo + speed .. hi + speed
    BY <1>1, <1>2, <1>3, <2>1
  <2> QED  BY <1>1, <1>3, <2>2 DEF Behind
<1>4. ASSUME position' = position + speed - DEN, NEW k \in {0, 1},
             counter_tx' = counter_tx + 1 - k * COUNTER_MOD
      PROVE  Behind(x, counter_tx', position', lo + speed, hi + speed)
  <2>1. DEN * (n + 1) = DEN * n + DEN /\ DEN * n \in Int
    BY <1>2
  <2>2. (q + k) * COUNTER_MOD = q * COUNTER_MOD + k * COUNTER_MOD
    BY <1>2, <1>4
  <2>3. q * COUNTER_MOD \in Int /\ k * COUNTER_MOD \in Int /\ q + k \in Int /\ n + 1 \in Nat
    BY <1>2
  <2>4. x + (n + 1) = counter_tx' + (q + k) * COUNTER_MOD
    BY <1>1, <1>2, <1>4, <2>2, <2>3
  <2>5. DEN * (n + 1) + position' \in lo + speed .. hi + speed
    BY <1>1, <1>2, <1>4, <2>1
  <2> QED  BY <2>3, <2>4, <2>5 DEF Behind
<1> QED  BY <1>3, <1>4, EdgeOfClock

LEMMA Wider ==
  ASSUME NEW x, NEW c, NEW p \in Int, NEW lo \in Int, NEW hi \in Int,
         NEW lo2 \in Int, NEW hi2 \in Int, lo2 <= lo, hi <= hi2, Behind(x, c, p, lo, hi)
  PROVE  Behind(x, c, p, lo2, hi2)
<1>1. PICK n \in Nat, q \in Int :
        x + n = c + q * COUNTER_MOD /\ DEN * n + p \in lo .. hi
  BY DEF Behind
<1>2. DEN * n + p \in lo2 .. hi2
  BY <1>1, MonitorAssumption
<1> QED  BY <1>1, <1>2 DEF Behind

LEMMA Now ==
  ASSUME NEW c \in Int, NEW p \in 0 .. DEN - 1
  PROVE  Behind(c, c, p, 0, DEN - 1)
<1>1. DEN \in Nat \ {0} /\ COUNTER_MOD \in Nat \ {0}
  BY MonitorAssumption, CountsType
<1>2. c + 0 = c + 0 * COUNTER_MOD /\ DEN * 0 + p \in 0 .. DEN - 1
  BY <1>1
<1> QED  BY <1>2 DEF Behind

\* A fresh sample is the counter before the edge or after it.
LEMMA FreshSample ==
  ASSUME ClockType, ClockType', ClockRuns, SampleEdge
  PROVE  Behind(counter_meta', counter_tx', position', 0, speed + DEN - 1)
<1>1. /\ position \in 0 .. DEN - 1 /\ position' \in 0 .. DEN - 1
      /\ counter_tx \in Int /\ counter_tx' \in Int /\ speed \in 0 .. DEN
      /\ DEN \in Nat \ {0}
  BY SpeedBound DEF ClockType, Counts
<1>2. CASE counter_meta' = counter_tx'
  <2>1. Behind(counter_meta', counter_tx', position', 0, DEN - 1)
    BY <1>1, <1>2, Now
  <2> QED  BY <1>1, <2>1, Wider
<1>3. CASE counter_meta' = counter_tx
  <2>1. Behind(counter_meta', counter_tx', position', 0 + speed, DEN - 1 + speed)
    BY <1>1, <1>3, Now, Further
  <2> QED  BY <1>1, <2>1, Wider
<1> QED  BY <1>2, <1>3 DEF SampleEdge

-----------------------------------------------------------------------------
(* What the samples tell, and when *)

Good1 == Behind(counter_meta, counter_tx, position, 0, speed + DEN - 1)
Good2 == Behind(counter_sync, counter_tx, position, speed, 2 * speed + DEN - 1)
Good3 == Behind(counter_bin, counter_tx, position, 2 * speed, 3 * speed + DEN - 1)

\* The window under way began while the clock ran as it does.
Window == Behind(bin_prev, counter_tx, position, (measure_count + 3) * speed,
                 (measure_count + 4) * speed + DEN - 1)

\* The resets last until no lock is seen, which leaves the samples time.
WaitInv ==
  /\ state = "reset" => speed = 0
  /\ state = "wait_lock" =>
       /\ Good1
       /\ ready_count > 0 \/ gt_ready_ctrl => Good2
       /\ gt_ready_ctrl => Good3

\* A window that began since the controller came to VERIFY_RATE is of the clock
\* of now, and so is the count once such a window has ended.
VerifyInv ==
  state = "verify" /\ ~changed =>
    /\ Good1 /\ Good2 /\ Good3
    /\ verify_count >= measure_count => Window
    /\ verify_count >= measure_count + MEASURE_CYCLES => freq_counter \in WindowCounts(speed)

Types == ClockType /\ ReadyType /\ MeasureType /\ AliveType /\ ControlType

LEMMA Numbers ==
  ASSUME Types
  PROVE  /\ speed \in 0 .. DEN /\ DEN \in Nat \ {0} /\ position \in 0 .. DEN - 1
         /\ counter_tx \in Int /\ counter_meta \in Int /\ counter_sync \in Int
         /\ counter_bin \in Int /\ bin_prev \in Int
         /\ measure_count \in 0 .. MEASURE_CYCLES - 1 /\ MEASURE_CYCLES \in Nat \ {0}
         /\ verify_count \in Nat /\ COUNTER_MOD \in Nat \ {0}
BY SpeedBound, CountsType, MonitorAssumption DEF Types, ClockType, MeasureType, ControlType, Counts

\* One edge moves the samples on, if the clock keeps its speed.
LEMMA SamplesMove ==
  ASSUME Types, Types', CtrlEdge, speed' = speed
  PROVE  /\ Good1'
         /\ Good1 => Good2'
         /\ Good2 => Good3'
<1>1. ClockRuns /\ SampleEdge
  BY DEF CtrlEdge
<1>2. Good1'
  <2>1. Behind(counter_meta', counter_tx', position', 0, speed' + DEN - 1)
    BY <1>1, FreshSample DEF Types
  <2> QED  BY <2>1 DEF Good1
<1>3. ASSUME Good1 PROVE Good2'
  <2>1. Behind(counter_meta, counter_tx', position', 0 + speed, speed + DEN - 1 + speed)
    BY <1>1, <1>3, Numbers, Further DEF Good1, Types
  <2>2. 0 + speed = speed' /\ speed + DEN - 1 + speed = 2 * speed' + DEN - 1
    BY Numbers
  <2>3. counter_sync' = counter_meta
    BY <1>1 DEF SampleEdge
  <2> QED  BY <2>1, <2>2, <2>3 DEF Good2
<1>4. ASSUME Good2 PROVE Good3'
  <2>1. Behind(counter_sync, counter_tx', position', speed + speed, 2 * speed + DEN - 1 + speed)
    BY <1>1, <1>4, Numbers, Further DEF Good2, Types
  <2>2. speed + speed = 2 * speed' /\ 2 * speed + DEN - 1 + speed = 3 * speed' + DEN - 1
    BY Numbers
  <2>3. counter_bin' = counter_sync
    BY <1>1 DEF SampleEdge
  <2> QED  BY <2>1, <2>2, <2>3 DEF Good3
<1> QED  BY <1>2, <1>3, <1>4

LEMMA WaitStep == ASSUME Types, Types', WaitInv, CtrlEdge PROVE WaitInv'
<1>1. CASE Release
  <2>1. CASE state' = "reset"
    BY <1>1, <2>1 DEF Release, WaitInv
  <2>2. CASE state' = "wait_lock"
    <3>1. speed = 0 /\ ~locked_sync /\ speed' \in Int
      BY <1>1, <2>2, SpeedsType DEF Release, WaitInv
    <3>2. ready_count' = 0 /\ ~gt_ready_ctrl'
      BY <3>1 DEF CtrlEdge, ReadyEdge, ReadyCount
    <3>3. Good1'
      <4>1. Behind(counter_meta', counter_tx', position', 0, speed + DEN - 1)
        BY FreshSample DEF CtrlEdge, Types
      <4>2. speed' \in 0 .. DEN /\ DEN \in Nat /\ position' \in 0 .. DEN - 1
        BY MonitorAssumption DEF Types, ClockType, Speeds
      <4> QED  BY <3>1, <4>1, <4>2, Wider DEF Good1
    <3> QED  BY <2>2, <3>2, <3>3 DEF WaitInv
  <2> QED  BY <1>1, <2>1, <2>2 DEF Release
<1>2. CASE WaitLock
  <2>1. CASE state' = "wait_lock"
    <3>1. Good1 /\ speed' = speed /\ (ready_count > 0 => Good2)
      BY <1>2 DEF WaitLock, WaitInv
    <3>2. Good1' /\ Good2'
      BY <3>1, SamplesMove
    <3>3. gt_ready_ctrl' => ready_count > 0
      <4>1. gt_ready_ctrl' => ready_count = READY_STABLE_CYCLES
        BY Zenon DEF CtrlEdge, ReadyEdge
      <4> QED  BY <4>1, MonitorAssumption
    <3> QED  BY <2>1, <3>1, <3>2, <3>3, SamplesMove DEF WaitInv
  <2>2. CASE state' # "wait_lock"
    BY <1>2, <2>2 DEF WaitLock, WaitInv
  <2> QED  BY <2>1, <2>2
<1>3. CASE Away \/ Stop \/ VerifySettles \/ Accept \/ Reject
  BY <1>3 DEF Away, control, Stop, VerifySettles, Accept, Reject, Decide, WaitInv
<1> QED  BY <1>1, <1>2, <1>3 DEF CtrlEdge

\* The count of a window, if that began as Window says.
LEMMA CountOfWindow ==
  ASSUME Types, Good3, Window, measure_count = MEASURE_CYCLES - 1
  PROVE  Advance \in WindowCounts(speed)
<1>1. PICK x \in Nat, q \in Int :
        /\ counter_bin + x = counter_tx + q * COUNTER_MOD
        /\ DEN * x + position \in 2 * speed .. 3 * speed + DEN - 1
  BY DEF Good3, Behind
<1>2. PICK y \in Nat, r \in Int :
        /\ bin_prev + y = counter_tx + r * COUNTER_MOD
        /\ DEN * y + position \in (measure_count + 3) * speed
                               .. (measure_count + 4) * speed + DEN - 1
  BY DEF Window, Behind
<1> DEFINE a == y - x
           S == MEASURE_CYCLES * speed
           M == COUNTER_MOD
           d == counter_bin - bin_prev
<1>3. a \in Int /\ S \in Int /\ DEN * a \in Int /\ DEN * x \in Int /\ DEN * y \in Int
      /\ M \in Nat \ {0} /\ d \in Int
  BY Numbers
<1>4. DEN * a = DEN * y - DEN * x
  BY Numbers
<1>5. (measure_count + 3) * speed = S + 2 * speed /\ (measure_count + 4) * speed = S + 3 * speed
  BY Numbers
<1>6. /\ DEN * a >= S - speed - (DEN - 1)
      /\ DEN * a <= S + speed + (DEN - 1)
  BY <1>1, <1>2, <1>3, <1>4, <1>5, Numbers
<1>7. S - speed = (MEASURE_CYCLES - 1) * speed /\ S + speed = (MEASURE_CYCLES + 1) * speed
  BY Numbers
<1>8. 0 <= a /\ a < M
  <2>1. (MEASURE_CYCLES - 1) * speed >= 0
    BY Numbers
  <2>2. DEN * a > -DEN
    BY <1>3, <1>6, <1>7, <2>1, Numbers
  <2>3. a > -1
    BY <1>3, <2>2, Numbers
  <2>4. (MEASURE_CYCLES + 1) * speed <= (MEASURE_CYCLES + 1) * DEN
    BY Numbers
  <2>5. (MEASURE_CYCLES + 1) * DEN + DEN = DEN * (MEASURE_CYCLES + 2)
        /\ (MEASURE_CYCLES + 1) * DEN \in Int /\ (MEASURE_CYCLES + 1) * speed \in Int
    BY Numbers
  <2>6. DEN * a < DEN * (MEASURE_CYCLES + 2)
    BY <1>3, <1>6, <1>7, <2>4, <2>5, Numbers
  <2>7. a < MEASURE_CYCLES + 2
    BY <1>3, <2>6, Numbers
  <2> QED  BY <1>3, <2>3, <2>7, Numbers, WindowAssumption
<1>9. d = a + (q - r) * M
  <2>1. (q - r) * M = q * M - r * M /\ q * M \in Int /\ r * M \in Int
    BY <1>3
  <2>2. \A b, p, c, v, w \in Int : b + x = c + v /\ p + y = c + w => b - p = (y - x) + (v - w)
    OBVIOUS
  <2>3. counter_bin + x = counter_tx + q * M /\ bin_prev + y = counter_tx + r * M
    BY <1>1, <1>2
  <2>4. counter_bin \in Int /\ bin_prev \in Int /\ counter_tx \in Int
    BY Numbers
  <2> HIDE DEF a, M, d
  <2>5. counter_bin - bin_prev = (y - x) + (q * M - r * M)
    BY <2>1, <2>2, <2>3, <2>4
  <2> QED  BY <2>1, <2>5 DEF a, d
<1>10. d > -M /\ d < M
  BY <1>3 DEF Types, MeasureType, Counts
<1>11. q - r = 0 \/ q - r = -1
  <2>1. q - r \in Int /\ (q - r) * M \in Int
    BY <1>3
  <2>2. (q - r) * M > -2 * M /\ (q - r) * M < M
    BY <1>3, <1>8, <1>9, <1>10, <2>1
  <2>3. CASE q - r >= 1
    <3>1. (q - r) * M >= M
      BY <1>3, <2>1, <2>3
    <3> QED  BY <1>3, <2>1, <2>2, <3>1
  <2>4. CASE q - r <= -2
    <3>1. (q - r) * M <= -2 * M
      BY <1>3, <2>1, <2>4
    <3> QED  BY <1>3, <2>1, <2>2, <3>1
  <2> QED  BY <2>1, <2>3, <2>4
<1>12. d % M = a
  <2>1. CASE q - r = 0
    <3>1. d = a
      BY <1>3, <1>9, <2>1
    <3> QED  BY <1>3, <1>8, <3>1, SmallRemainders
  <2>2. CASE q - r = -1
    <3>1. d = a - M
      BY <1>3, <1>9, <2>2
    <3>2. -M <= d /\ d < 0
      BY <1>3, <1>8, <3>1
    <3>3. d % M = d + M
      BY <1>3, <3>2, SmallRemainders
    <3> QED  BY <1>3, <3>1, <3>3
  <2> QED  BY <1>11, <2>1, <2>2
<1>13. a \in Counts
  BY <1>3, <1>8 DEF Counts
<1>14. DEN * a \in (MEASURE_CYCLES - 1) * speed - (DEN - 1)
               .. (MEASURE_CYCLES + 1) * speed + (DEN - 1)
  <2>1. (MEASURE_CYCLES - 1) * speed \in Int /\ (MEASURE_CYCLES + 1) * speed \in Int
    BY Numbers
  <2> QED  BY <1>3, <1>6, <1>7, <2>1, Numbers
<1> QED  BY <1>12, <1>13, <1>14 DEF Advance, WindowCounts

LEMMA WindowStep ==
  ASSUME Types, Types', CtrlEdge, speed' = speed, Good3, verify_count' \in Nat,
         verify_count >= measure_count => Window,
         verify_count >= measure_count + MEASURE_CYCLES => freq_counter \in WindowCounts(speed),
         verify_count' = verify_count + 1
  PROVE  /\ verify_count' >= measure_count' => Window'
         /\ verify_count' >= measure_count' + MEASURE_CYCLES =>
              freq_counter' \in WindowCounts(speed')
<1>1. ClockRuns /\ MeasureEdge
  BY DEF CtrlEdge
<1>2. CASE measure_count = MEASURE_CYCLES - 1
  <2>1. measure_count' = 0 /\ freq_counter' = Advance /\ bin_prev' = counter_bin
    BY <1>1, <1>2 DEF MeasureEdge
  <2>2. Behind(counter_bin, counter_tx', position', 2 * speed + speed,
               3 * speed + DEN - 1 + speed)
    BY <1>1, Numbers, Further DEF Good3, Types
  <2>3. 2 * speed + speed = (0 + 3) * speed' /\ 3 * speed + DEN - 1 + speed = (0 + 4) * speed' + DEN - 1
    BY Numbers
  <2>4. Window'
    BY <2>1, <2>2, <2>3 DEF Window
  <2>5. ASSUME verify_count' >= measure_count' + MEASURE_CYCLES
        PROVE  freq_counter' \in WindowCounts(speed')
    <3>1. verify_count >= measure_count
      BY <1>2, <2>1, <2>5, Numbers
    <3> QED  BY <1>2, <2>1, <3>1, CountOfWindow
  <2> QED  BY <2>4, <2>5
<1>3. CASE measure_count # MEASURE_CYCLES - 1
  <2>1. measure_count' = measure_count + 1 /\ UNCHANGED <<bin_prev, freq_counter>>
    BY <1>1, <1>3 DEF MeasureEdge
  <2>2. ASSUME verify_count' >= measure_count' PROVE Window'
    <3>1. Window
      BY <2>1, <2>2, Numbers
    <3>2. (measure_count + 3) * speed \in Int /\ (measure_count + 4) * speed + DEN - 1 \in Int
      BY Numbers
    <3>3. Behind(bin_prev, counter_tx', position', (measure_count + 3) * speed + speed,
                 (measure_count + 4) * speed + DEN - 1 + speed)
      BY <1>1, <3>1, <3>2, Numbers, Further DEF Window, Types
    <3>4. /\ (measure_count + 3) * speed + speed = (measure_count' + 3) * speed'
          /\ (measure_count + 4) * speed + DEN - 1 + speed = (measure_count' + 4) * speed' + DEN - 1
      <4>1. /\ (measure_count + 3) * speed + speed = (measure_count + 1 + 3) * speed
            /\ (measure_count + 4) * speed + speed = (measure_count + 1 + 4) * speed
        BY Numbers
      <4>2. (measure_count + 4) * speed + DEN - 1 + speed = (measure_count + 4) * speed + speed + DEN - 1
        BY Numbers
      <4> QED  BY <2>1, <4>1, <4>2
    <3> QED  BY <2>1, <3>3, <3>4 DEF Window
  <2>3. ASSUME verify_count' >= measure_count' + MEASURE_CYCLES
        PROVE  freq_counter' \in WindowCounts(speed')
    BY <2>1, <2>3, Numbers
  <2> QED  BY <2>2, <2>3
<1> QED  BY <1>2, <1>3

\* The first edge in VERIFY_RATE: no window has ended since, and one begins at
\* most now.
LEMMA FirstEdge ==
  ASSUME Types, Types', CtrlEdge, speed' = speed, Good3, verify_count' = 0
  PROVE  /\ verify_count' >= measure_count' => Window'
         /\ ~(verify_count' >= measure_count' + MEASURE_CYCLES)
<1>1. ClockRuns /\ MeasureEdge /\ measure_count' \in Nat
  BY DEF CtrlEdge, Types, MeasureType
<1>2. ASSUME measure_count' = 0 PROVE Window'
  <2>1. bin_prev' = counter_bin
    BY <1>1, <1>2, Numbers DEF MeasureEdge
  <2>2. Behind(counter_bin, counter_tx', position', 2 * speed + speed,
               3 * speed + DEN - 1 + speed)
    BY <1>1, Numbers, Further DEF Good3, Types
  <2>3. 2 * speed + speed = (0 + 3) * speed' /\ 3 * speed + DEN - 1 + speed = (0 + 4) * speed' + DEN - 1
    BY Numbers
  <2> QED  BY <1>2, <2>1, <2>2, <2>3 DEF Window
<1> QED  BY <1>1, <1>2, Numbers

LEMMA VerifyStep ==
  ASSUME Types, Types', WaitInv, VerifyInv, CtrlEdge PROVE VerifyInv'
<1>1. CASE WaitLock
  <2> SUFFICES ASSUME state' = "verify" PROVE VerifyInv'
    BY DEF VerifyInv
  <2>1. speed' = speed /\ verify_count' = 0 /\ state = "wait_lock" /\ gt_ready_ctrl
    BY <1>1 DEF WaitLock
  <2>2. Good1 /\ Good2 /\ Good3
    BY <2>1 DEF WaitInv
  <2>3. Good1' /\ Good2' /\ Good3'
    BY <2>1, <2>2, SamplesMove
  <2> QED  BY <2>1, <2>2, <2>3, FirstEdge DEF VerifyInv
<1>2. CASE VerifySettles
  <2> SUFFICES ASSUME state' = "verify", ~changed' PROVE VerifyInv'
    BY DEF VerifyInv
  <2>1. /\ speed' = speed /\ ~changed /\ state = "verify"
        /\ verify_count' = verify_count + 1
    BY <1>2 DEF VerifySettles, Fails
  <2>2. /\ Good1 /\ Good2 /\ Good3
        /\ verify_count >= measure_count => Window
        /\ verify_count >= measure_count + MEASURE_CYCLES => freq_counter \in WindowCounts(speed)
    BY <2>1 DEF VerifyInv
  <2>3. Good1' /\ Good2' /\ Good3'
    BY <2>1, <2>2, SamplesMove
  <2>4. verify_count' \in Nat
    BY <2>1, Numbers
  <2> QED  BY <2>1, <2>2, <2>3, <2>4, WindowStep DEF VerifyInv
<1>3. CASE Away \/ Stop \/ Release \/ Accept \/ Reject
  BY <1>3 DEF Away, control, Stop, Release, Accept, Reject, Decide, VerifyInv
<1> QED  BY <1>1, <1>2, <1>3 DEF CtrlEdge

\* A rate is accepted only if the clock runs at it, whenever the frequency
\* windows began and however long they are.
THEOREM AcceptedRuns == Spec => AcceptedIsRunning
<1> DEFINE Inv == Types /\ WaitInv /\ VerifyInv
<1>1. Init => WaitInv /\ VerifyInv
  BY DEF Init, WaitInv, VerifyInv
<1>2. Types /\ Types' /\ WaitInv /\ VerifyInv /\ [CtrlEdge]_vars => WaitInv' /\ VerifyInv'
  <2>1. CASE CtrlEdge
    BY <2>1, WaitStep, VerifyStep
  <2>2. CASE UNCHANGED vars
    BY <2>2 DEF vars, clock, monitor, ready, sampled, measure, aliveness, control,
       WaitInv, VerifyInv, Good1, Good2, Good3, Window
  <2> QED  BY <2>1, <2>2
<1>3. Types /\ VerifyInv /\ [CtrlEdge]_vars => [Accept /\ ~changed => speed = Speed[target]]_vars
  <2> SUFFICES ASSUME Types, VerifyInv, Accept, ~changed PROVE speed = Speed[target]
    OBVIOUS
  <2>1. state = "verify" /\ ~Settling /\ InWindow
    BY Zenon DEF Accept, Decide
  <2>2. verify_count >= measure_count + MEASURE_CYCLES
    BY <2>1, Numbers, WindowAssumption, MonitorAssumption DEF Settling
  <2>3. freq_counter \in WindowCounts(speed)
    BY <2>1, <2>2 DEF VerifyInv
  <2>4. target \in Targets /\ speed \in Speeds \cup {0}
    BY DEF Types, ControlType, ClockType
  <2> QED  BY <2>1, <2>3, <2>4, WindowAssumption DEF InWindow
<1>4. TypeOK => Types
  BY DEF Types, ClockType, ReadyType, MeasureType, AliveType, ControlType, TypeOK
<1> QED  BY <1>1, <1>2, <1>3, <1>4, TypeCorrect, PTL DEF Spec, AcceptedIsRunning

-----------------------------------------------------------------------------
(* Whether the clock is alive *)

\* The edges, up to the timeout, for which freq_prev has been the count, all of
\* them of the clock of now.
Unchanged == IF alive_timeout < verify_count THEN alive_timeout ELSE verify_count
AliveInv ==
  state = "verify" /\ ~changed /\ speed # 0 =>
    /\ Behind(freq_prev, counter_tx, position, (Unchanged + 3) * speed, 4 * speed + DEN - 1)
    /\ alive_timeout < verify_count => alive

\* The same value cannot be behind by two different numbers of ticks, if both
\* are few.
LEMMA BehindMeets ==
  ASSUME Types, NEW x \in Int, NEW lo \in Int, NEW hi \in Int, NEW lo2 \in Int, NEW hi2 \in Int,
         hi <= 5 * DEN - 1, hi2 <= 5 * DEN - 1,
         Behind(x, counter_tx, position, lo, hi), Behind(x, counter_tx, position, lo2, hi2)
  PROVE  Behind(x, counter_tx, position, lo, hi2) /\ lo <= hi2
<1>1. PICK n \in Nat, q \in Int :
        x + n = counter_tx + q * COUNTER_MOD /\ DEN * n + position \in lo .. hi
  BY DEF Behind
<1>2. PICK m \in Nat, r \in Int :
        x + m = counter_tx + r * COUNTER_MOD /\ DEN * m + position \in lo2 .. hi2
  BY DEF Behind
<1>3. DEN * n \in Int /\ DEN * m \in Int /\ DEN \in Nat \ {0} /\ position \in 0 .. DEN - 1
  BY Numbers
<1>4. DEN * n < DEN * 5 /\ DEN * m < DEN * 5
  BY <1>1, <1>2, <1>3
<1>5. n < 5 /\ m < 5
  BY <1>3, <1>4
<1>6. COUNTER_MOD \in Nat /\ COUNTER_MOD > 4
  BY WindowAssumption, MonitorAssumption
<1>7. (q - r) * COUNTER_MOD = q * COUNTER_MOD - r * COUNTER_MOD
      /\ q * COUNTER_MOD \in Int /\ r * COUNTER_MOD \in Int
  BY <1>6
<1>8. \A c, v, w \in Int : x + n = c + v /\ x + m = c + w => n - m = v - w
  OBVIOUS
<1>9. n - m = (q - r) * COUNTER_MOD
  <2>1. counter_tx \in Int
    BY Numbers
  <2>2. n - m = q * COUNTER_MOD - r * COUNTER_MOD
    BY <1>1, <1>2, <1>7, <1>8, <2>1
  <2> QED  BY <1>7, <2>2
<1>10. n - m > -5 /\ n - m < 5
  BY <1>5
<1>11. q - r = 0
  <2>1. q - r \in Int /\ (q - r) * COUNTER_MOD \in Int
    BY <1>6
  <2>2. CASE q - r >= 1
    <3>1. (q - r) * COUNTER_MOD >= COUNTER_MOD
      BY <1>6, <2>1, <2>2
    <3> QED  BY <1>6, <1>9, <1>10, <2>1, <3>1
  <2>3. CASE q - r <= -1
    <3>1. (q - r) * COUNTER_MOD <= -COUNTER_MOD
      BY <1>6, <2>1, <2>3
    <3> QED  BY <1>6, <1>9, <1>10, <2>1, <3>1
  <2> QED  BY <2>1, <2>2, <2>3
<1>12. n = m
  <2>1. n - m = 0
    BY <1>6, <1>9, <1>11
  <2> QED  BY <2>1
<1>13. DEN * n + position \in lo .. hi2 /\ lo <= hi2
  BY <1>1, <1>2, <1>3, <1>12
<1> QED  BY <1>1, <1>13 DEF Behind

LEMMA CountedStep ==
  ASSUME Types, Types', CtrlEdge, speed' = speed, Good3
  PROVE  Behind(counter_bin, counter_tx', position', (0 + 3) * speed', 4 * speed' + DEN - 1)
<1>1. ClockRuns
  BY DEF CtrlEdge
<1>2. Behind(counter_bin, counter_tx', position', 2 * speed + speed, 3 * speed + DEN - 1 + speed)
  BY <1>1, Numbers, Further DEF Good3, Types
<1>3. /\ 2 * speed + speed = (0 + 3) * speed'
      /\ 3 * speed + DEN - 1 + speed = 4 * speed' + DEN - 1
  BY Numbers
<1> QED  BY <1>2, <1>3

LEMMA AliveVerify ==
  ASSUME Types, Types', CtrlEdge, speed' = speed, speed # 0, Good3,
         verify_count' = verify_count + 1,
         Behind(freq_prev, counter_tx, position, (Unchanged + 3) * speed, 4 * speed + DEN - 1),
         alive_timeout < verify_count => alive
  PROVE  /\ Behind(freq_prev', counter_tx', position', (Unchanged' + 3) * speed', 4 * speed' + DEN - 1)
         /\ alive_timeout' < verify_count' => alive'
<1>1. ClockRuns /\ AliveEdge
  BY DEF CtrlEdge
<1>2. /\ alive_timeout \in 0 .. ALIVE_TIMEOUT /\ verify_count \in Nat /\ ALIVE_TIMEOUT \in Nat
      /\ freq_prev \in Int
  BY MonitorAssumption DEF Types, AliveType, ControlType, Counts
<1>3. CASE Counted
  <2>1. alive_timeout' = 0 /\ freq_prev' = counter_bin /\ alive'
    BY <1>1, <1>3 DEF AliveEdge
  <2>2. Unchanged' = 0
    BY <1>2, <2>1 DEF Unchanged
  <2> QED  BY <2>1, <2>2, CountedStep
<1>4. CASE ~Counted
  <2>1. freq_prev' = counter_bin /\ freq_prev = counter_bin
    BY <1>1, <1>4 DEF AliveEdge, Counted
  <2>2. Unchanged \in Nat /\ Unchanged <= ALIVE_TIMEOUT
    BY <1>2 DEF Unchanged
  <2>3. (Unchanged + 3) * speed \in Int
    BY <2>2, Numbers
  <2>4. /\ Behind(counter_bin, counter_tx, position, (Unchanged + 3) * speed, 3 * speed + DEN - 1)
        /\ (Unchanged + 3) * speed <= 3 * speed + DEN - 1
    <3>1. 4 * speed + DEN - 1 <= 5 * DEN - 1 /\ 3 * speed + DEN - 1 <= 5 * DEN - 1
      BY Numbers
    <3> QED  BY <2>1, <2>3, <3>1, Numbers, BehindMeets DEF Good3
  <2>5. Unchanged < ALIVE_TIMEOUT
    <3>1. (Unchanged + 3) * speed = Unchanged * speed + 3 * speed /\ Unchanged * speed \in Int
      BY <2>2, Numbers
    <3>2. Unchanged * speed < DEN
      BY <2>4, <3>1, Numbers
    <3>3. ALIVE_TIMEOUT * speed >= DEN
      BY WindowAssumption DEF Types, ClockType, Speeds
    <3>4. Unchanged # ALIVE_TIMEOUT
      <4> SUFFICES ASSUME Unchanged = ALIVE_TIMEOUT PROVE FALSE
        OBVIOUS
      <4>1. Unchanged * speed = ALIVE_TIMEOUT * speed /\ Unchanged * speed \in Int
        BY <3>1
      <4> QED  BY <3>2, <3>3, <4>1, Numbers
    <3> QED  BY <1>2, <2>2, <3>4
  <2>6. Behind(counter_bin, counter_tx', position', (Unchanged + 3) * speed + speed,
               3 * speed + DEN - 1 + speed)
    BY <1>1, <2>3, <2>4, Numbers, Further DEF Types
  <2>7. /\ (Unchanged + 3) * speed + speed = (Unchanged + 1 + 3) * speed
        /\ 3 * speed + DEN - 1 + speed = 4 * speed + DEN - 1
    BY <2>2, Numbers
  <2>8. alive_timeout' = IF alive_timeout < ALIVE_TIMEOUT THEN alive_timeout + 1 ELSE alive_timeout
    BY <1>1, <1>4 DEF AliveEdge
  <2>9. Unchanged' = Unchanged + 1
    BY <1>2, <2>5, <2>8 DEF Unchanged
  <2>10. ASSUME alive_timeout' < verify_count' PROVE alive'
    <3>1. alive_timeout < verify_count /\ alive_timeout # ALIVE_TIMEOUT
      BY <1>2, <2>5, <2>8, <2>10 DEF Unchanged
    <3> QED  BY <1>1, <3>1 DEF AliveEdge
  <2>11. Behind(counter_bin, counter_tx', position', (Unchanged' + 3) * speed', 4 * speed' + DEN - 1)
    BY <2>6, <2>7, <2>9
  <2> QED  BY <2>1, <2>10, <2>11
<1> QED  BY <1>3, <1>4

LEMMA AliveInvStep ==
  ASSUME Types, Types', WaitInv, VerifyInv, AliveInv, CtrlEdge PROVE AliveInv'
<1>1. CASE WaitLock
  <2> SUFFICES ASSUME state' = "verify" PROVE AliveInv'
    BY DEF AliveInv
  <2>1. speed' = speed /\ verify_count' = 0 /\ state = "wait_lock" /\ gt_ready_ctrl
    BY <1>1 DEF WaitLock
  <2>2. Good3 /\ freq_prev' = counter_bin
    BY <2>1 DEF WaitInv, CtrlEdge, AliveEdge
  <2>3. alive_timeout' \in Nat
    BY MonitorAssumption DEF Types, AliveType
  <2>4. Unchanged' = 0 /\ ~(alive_timeout' < verify_count')
    BY <2>1, <2>3 DEF Unchanged
  <2> QED  BY <2>1, <2>2, <2>4, CountedStep DEF AliveInv
<1>2. CASE VerifySettles
  <2> SUFFICES ASSUME state' = "verify", ~changed', speed' # 0 PROVE AliveInv'
    BY DEF AliveInv
  <2>1. /\ speed' = speed /\ ~changed /\ state = "verify"
        /\ verify_count' = verify_count + 1
    BY <1>2 DEF VerifySettles, Fails
  <2>2. /\ Good3 /\ speed # 0
        /\ Behind(freq_prev, counter_tx, position, (Unchanged + 3) * speed, 4 * speed + DEN - 1)
        /\ alive_timeout < verify_count => alive
    BY <2>1 DEF VerifyInv, AliveInv
  <2> QED  BY <2>1, <2>2, AliveVerify DEF AliveInv
<1>3. CASE Away \/ Stop \/ Release \/ Accept \/ Reject
  BY <1>3 DEF Away, control, Stop, Release, Accept, Reject, Decide, AliveInv
<1> QED  BY <1>1, <1>2, <1>3 DEF CtrlEdge

\* A clock that has run at the target's speed since the locks were there is
\* never taken for dead, or for too fast or too slow.
THEOREM RunningAccepted == Spec => RunningIsAccepted
<1>1. Init => WaitInv /\ VerifyInv /\ AliveInv
  BY DEF Init, WaitInv, VerifyInv, AliveInv
<1>2. Types /\ Types' /\ WaitInv /\ VerifyInv /\ AliveInv /\ [CtrlEdge]_vars
        => WaitInv' /\ VerifyInv' /\ AliveInv'
  <2>1. CASE CtrlEdge
    BY <2>1, WaitStep, VerifyStep, AliveInvStep
  <2>2. CASE UNCHANGED vars
    BY <2>2 DEF vars, clock, monitor, ready, sampled, measure, aliveness, control,
       WaitInv, VerifyInv, AliveInv, Good1, Good2, Good3, Window, Unchanged
  <2> QED  BY <2>1, <2>2
<1>3. Types /\ VerifyInv /\ AliveInv /\ [CtrlEdge]_vars
        => [Reject /\ ~changed => speed # Speed[target]]_vars
  <2> SUFFICES ASSUME Types, VerifyInv, AliveInv, Reject, ~changed, speed = Speed[target]
               PROVE  FALSE
    OBVIOUS
  <2>1. state = "verify" /\ ~Settling /\ ~(alive /\ InWindow)
    BY Zenon DEF Reject, Decide
  <2>2. target \in Targets /\ speed # 0 /\ alive_timeout \in 0 .. ALIVE_TIMEOUT
    BY MonitorAssumption DEF Types, ControlType, AliveType
  <2>3. verify_count >= measure_count + MEASURE_CYCLES /\ alive_timeout < verify_count
    BY <2>1, <2>2, Numbers, WindowAssumption, MonitorAssumption DEF Settling
  <2>4. freq_counter \in WindowCounts(speed) /\ alive
    BY <2>1, <2>2, <2>3 DEF VerifyInv, AliveInv
  <2> QED  BY <2>1, <2>2, <2>4, WindowAssumption DEF InWindow
<1>4. TypeOK => Types
  BY DEF Types, ClockType, ReadyType, MeasureType, AliveType, ControlType, TypeOK
<1> QED  BY <1>1, <1>2, <1>3, <1>4, TypeCorrect, PTL DEF Spec, RunningIsAccepted

-----------------------------------------------------------------------------
(* How long a stopped clock goes unnoticed *)

\* Edges of ctrl_clk until alive drops, if txusrclk2 stands still: the samples
\* catch up with the counter, and then the timeout runs.
EdgesAlive ==
  CASE counter_meta # counter_tx -> ALIVE_TIMEOUT + 5
    [] counter_meta = counter_tx /\ counter_sync # counter_tx -> ALIVE_TIMEOUT + 4
    [] counter_meta = counter_tx /\ counter_sync = counter_tx
         /\ counter_bin # counter_tx -> ALIVE_TIMEOUT + 3
    [] OTHER -> IF freq_prev # counter_tx THEN ALIVE_TIMEOUT + 2
                ELSE IF alive THEN ALIVE_TIMEOUT + 1 - alive_timeout
                ELSE 0

\* Without a tick the counter and each sample that has caught up stay.
LEMMA StoppedSamples ==
  ASSUME Types, speed = 0, CtrlEdge
  PROVE  /\ counter_tx' = counter_tx /\ counter_meta' = counter_tx
         /\ counter_sync' = counter_meta /\ counter_bin' = counter_sync
         /\ freq_prev' = counter_bin
<1>1. ~Ticks
  BY MonitorAssumption DEF Types, ClockType, Ticks
<1> QED  BY <1>1 DEF CtrlEdge, ClockRuns, SampleEdge, AliveEdge

LEMMA EdgesAliveRange ==
  ASSUME Types
  PROVE  EdgesAlive \in 0 .. ALIVE_TIMEOUT + 5 /\ (EdgesAlive = 0 => ~alive)
<1>1. alive_timeout \in 0 .. ALIVE_TIMEOUT /\ ALIVE_TIMEOUT \in Nat
  BY MonitorAssumption DEF Types, AliveType
<1> QED  BY <1>1 DEF EdgesAlive

LEMMA EdgesAliveStep ==
  ASSUME Types, Types', speed = 0, CtrlEdge
  PROVE  EdgesAlive' < EdgesAlive \/ (EdgesAlive = 0 /\ EdgesAlive' = 0)
<1>a. /\ counter_tx' = counter_tx /\ counter_meta' = counter_tx
      /\ counter_sync' = counter_meta /\ counter_bin' = counter_sync
      /\ freq_prev' = counter_bin
  BY StoppedSamples
<1>b. /\ alive_timeout \in 0 .. ALIVE_TIMEOUT /\ alive_timeout' \in 0 .. ALIVE_TIMEOUT
      /\ ALIVE_TIMEOUT \in Nat /\ alive \in BOOLEAN /\ alive' \in BOOLEAN
  BY MonitorAssumption DEF Types, AliveType
<1>1. CASE counter_meta # counter_tx
  BY <1>a, <1>b, <1>1 DEF EdgesAlive
<1>2. CASE counter_meta = counter_tx /\ counter_sync # counter_tx
  BY <1>a, <1>b, <1>2 DEF EdgesAlive
<1>3. CASE counter_meta = counter_tx /\ counter_sync = counter_tx
           /\ counter_bin # counter_tx
  BY <1>a, <1>b, <1>3 DEF EdgesAlive
<1>4. CASE counter_meta = counter_tx /\ counter_sync = counter_tx
           /\ counter_bin = counter_tx
  <2>1. /\ counter_meta' = counter_tx' /\ counter_sync' = counter_tx'
        /\ counter_bin' = counter_tx' /\ freq_prev' = counter_tx'
    BY <1>a, <1>4
  <2>2. EdgesAlive' = IF alive' THEN ALIVE_TIMEOUT + 1 - alive_timeout' ELSE 0
    BY <2>1 DEF EdgesAlive
  <2>3. CASE freq_prev # counter_tx
    BY <1>b, <1>4, <2>2, <2>3 DEF EdgesAlive
  <2>4. CASE freq_prev = counter_tx
    <3>1. EdgesAlive = IF alive THEN ALIVE_TIMEOUT + 1 - alive_timeout ELSE 0
      BY <1>4, <2>4 DEF EdgesAlive
    <3>2. ~Counted
      BY <1>4, <2>4 DEF Counted
    <3>3. alive' = (alive /\ alive_timeout # ALIVE_TIMEOUT)
      BY <3>2 DEF CtrlEdge, AliveEdge
    <3>4. alive_timeout < ALIVE_TIMEOUT => alive_timeout' = alive_timeout + 1
      BY <3>2 DEF CtrlEdge, AliveEdge
    <3>5. CASE ~alive
      <4>1. ~alive'
        BY <3>3, <3>5
      <4> QED  BY <2>2, <3>1, <3>5, <4>1
    <3>6. CASE alive /\ alive_timeout = ALIVE_TIMEOUT
      <4>1. ~alive'
        BY <3>3, <3>6
      <4> QED  BY <1>b, <2>2, <3>1, <3>6, <4>1
    <3>7. CASE alive /\ alive_timeout # ALIVE_TIMEOUT
      <4>1. alive'
        BY <3>3, <3>7
      <4>2. alive_timeout' = alive_timeout + 1
        BY <1>b, <3>4, <3>7
      <4> QED  BY <1>b, <2>2, <3>1, <3>7, <4>1, <4>2
    <3> QED  BY <1>b, <3>5, <3>6, <3>7
  <2> QED  BY <2>3, <2>4
<1> QED  BY <1>1, <1>2, <1>3, <1>4

\* A clock that stands still is taken for dead within ALIVE_TIMEOUT + 5 edges of
\* ctrl_clk, whatever the samples held, and stays so: EdgesAlive goes down at
\* each of them, and at 0 alive is off.  This is the count behind StoppedIsNoticed.
THEOREM StoppedNoticed ==
  Spec => /\ [](EdgesAlive \in 0 .. ALIVE_TIMEOUT + 5 /\ (EdgesAlive = 0 => ~alive))
          /\ [][speed = 0 => \/ EdgesAlive' < EdgesAlive
                             \/ EdgesAlive = 0 /\ EdgesAlive' = 0]_vars
<1>1. TypeOK => Types
  BY DEF Types, ClockType, ReadyType, MeasureType, AliveType, ControlType, TypeOK
<1>2. Types => EdgesAlive \in 0 .. ALIVE_TIMEOUT + 5 /\ (EdgesAlive = 0 => ~alive)
  BY EdgesAliveRange
<1>3. Types /\ Types' /\ [CtrlEdge]_vars
        => [speed = 0 => \/ EdgesAlive' < EdgesAlive
                         \/ EdgesAlive = 0 /\ EdgesAlive' = 0]_vars
  BY EdgesAliveStep
<1> QED  BY <1>1, <1>2, <1>3, TypeCorrect, PTL DEF Spec
=============================================================================
