# laser_tx: verification

TLA+ models, model-checking runs and machine-checked proofs for the laser
transmitter of this repository: a Zynq FPGA that sends a configurable 63- or
127-bit pattern through a GTX transceiver at 500 or 1000 Mb/s, switched at run
time, under the control of firmware that takes UDP commands.

Paths below: `rate/` is `src/laser_tx.srcs/sources_1/new/`, `core/` is
`rate/laser_tx_core/`, `fw/` is `src/vitis_bringup/bringup/src/`.

## 1. The system

| Component | Source | State | Operations |
|---|---|---|---|
| Firmware server | `fw/laser_udp_server.c`, `laser_gpio.c`, `laser_bram.c`, `laser_gt.c`, `gt_rate_plan.c` | shadow of the control word, the command in hand | one command per UDP datagram, in a callback nothing preempts: `WRITE_CONFIG`, `SELECT_CONFIG`, `APPLY`, `ENABLE`, `DISABLE`, `SOFT_RESET`, `RATE SET`, read-only ones |
| Bring-up tests | `fw/main.c`, `laser_config_cases.c`, `laser_ad9528.c`; `src/vitis_bringup/main.c` with its copies of the drivers | the test in progress | open the devices, disable and reset, write one of 10 (older program: 4) test records, apply it, wait for the verdict, enable |
| Configuration loader | `core/config_loader.v` | words read so far, published bundle, update toggle | on a flip of the APPLY bit read 8 words, check them, publish bundle and toggle |
| Core, tx side | `core/laser_tx_core.v`, `cdc_toggle_sync.v` | synchronisers, captured bundle, `pending_start`, `engine_start` | capture, arm, start; soft reset; reset from the transceiver |
| Transmit engine | `core/pattern_tx_engine.v` | position in the phase, offset of the pattern, busy, done | start, one 64-bit word per edge, loop, disable |
| Pattern source, triggers, status word | `core/pattern_source.v`, `sync_signal_gen.v`, `status_register.v` | none | combinational |
| Dynamic rate controller | `rate/laser_gt_rate_switch_500m_1000m.v` | 13-state machine, timers, rate in force, target | request, validate, quiesce, reset, reprogram GT and MMCM by DRP, release, wait for locks, verify |
| GT wrapper | `rate/laser_gt_tx_profile0.v`, `laser_gt_usrclk_profile0.v` | ready counter, frequency counter, ready flops | `gt_ready`, reset of the core |
| Static 1000M variant, board tops, vendor GT core, scripts, test bench | see `PROJECT.json` | | not modelled, section 8 |

How they interact. The firmware and the FPGA share two words, a control word
(index, APPLY flip, enable, soft reset, rate id, rate-request flip) and a status
word each for core and GT, and the BRAM with the configurations. Loader and rate controller
run on the 50 MHz AXI clock; capture, engine and triggers on `txusrclk2`
(7.8125 or 15.625 MHz), which comes out of the very MMCM the rate controller
resets and reprograms. Events cross as flipped bits; the configuration crosses
as an unsynchronised bundle behind its flip. The controller reads busy and done
of the engine to find the transmitter idle, and `rate_busy` holds the
transmitter in reset.

What is hard, and what makes each part correct:

* **Rate controller** - requests at any moment of a switch, six waits on
  signals that may never come, two DRP ports without readback, registers that
  survive a failed switch. No strobe outside reset; every switch ends; DONE
  means the reported rate; the last request is served.
* **Firmware against controller** - status words up to 100 ms old, polling that
  gives up, restarts in the middle of a switch, a transmitter that starts again by
  itself after a reset. Requests do not overlap, OK is true, no sequence that the
  firmware could know of is cut off, every command is answered.
* **Firmware, all programs** - eight signals share one word that every call
  reads, changes and writes back; a record is eight bus writes; numbers of the
  host pass through casts and shifts; any device may fail to open; the FPGA keeps
  its state over a restart. Each call acts on its own signals only, OK means
  stored, no test leaves the transmitter on by accident, what is printed is so.
* **Configuration path** - two clocks, one of which stops; one-shot flips that
  are lost or doubled by a reset, and commands of a start-up that wait for nothing.
  What runs is what was applied (but for a start-up, section 5); a legal APPLY
  starts it.
* **Engine** - a word, a phase, a gap and the pattern have four unrelated
  lengths. Each bit is sent once, in order, with its triggers; the transmitter
  never looks idle too early.

The hazards, each at its line and with its properties, are in `PROJECT.json`.

## 2. Modules

```
RateService ......... abstract: a rate is asked for, checked, switched to
   ^ implements (ImplementsService, ServiceImplemented)
RateSwitch .......... the controller, cycle by cycle     RateSwitchRefinement
RateSystem .......... RateService + firmware + ready gating + transmitter
PatternStream ....... abstract: the bit at each position of the stream
   ^ implements (ImplementsStream, StreamImplemented)
TxEngine ............ the engine, word by word           TxEngineRefinement
TxCore .............. firmware commands, loader, capture and start
GtMonitor ........... ready count, frequency window, the decision by them
ControlPort ......... abstract: eight signals and the stored configurations
   ^ implements (ImplementsPort, PortImplemented)
Firmware ............ the server with every command, both bring-up tests
HostWords ........... the words the two sides exchange, packed and taken apart
MC*                   instances for TLC        *Proofs   theorems for TLAPS
```

`RateService` has two uses: it is what `RateSwitch` is shown to implement, and
its actions are the controller's inside `RateSystem`. So the composition does not
repeat the controller's thirteen states, and what it shows holds of the real controller.
In return `RateSystem` proves what `RateSwitch` assumes of its user: that nobody
requests a rate during a switch, apart from restarts of the firmware.

### RateSwitch
One edge of `ctrl_clk` is one action, and each state has its own; the variables
are the registers, except those written together with `target_rate_id` (operators
of it) and those that only feed debug probes. `hw_gt` and `hw_mmcm` are what the
DRP writes leave in the transceiver and the MMCM. Locks, idle, DRP ready, the
frequency count are chosen afresh at every edge. `Capture` is the request logic
at the head of the clocked block, part of every action. The GT DRP sub-steps are
two actions, strobing and waiting, over `gt_step`.

### RateSystem
The firmware's `handle_rate_command` access by access (`RateSet`, `WaitTxIdle`,
`Refuse`/`Request`, `PollAnswer`/`PollTimeout`), including that the checks use
the status word read before the wait. `GtChanges` is the loss and return of
locks and clock; `TxTick` the two flops and the reset of the transmitter; `EndRound`
the last word of a sequence or round.

A sequence begins in one of two ways. `Apply`, `Enable` and `SoftReset` are commands,
so none falls into a rate command. `StartsAgain` is the transmitter's own: it leaves
reset with the update toggle at 1 (`reload`), takes its configuration again and,
if enabled, starts, whatever the firmware is doing at that moment. So a lock that is
lost and back behind the firmware's look at BUSY starts a sequence that the request
then cuts (section 5). `SequenceUndisturbed` is about all others: the history
variable `unguarded` marks a start of that kind that came after the look, and
whatever a restart of the firmware, which asks for rate 0, finds being sent.

* In the code a start follows the command, or the end of the reset, by a few edges
  of `txusrclk2`. A command's start happens at once here, before the next datagram;
  `StartsAgain` any time later, before or after any access of the firmware.
* The first round of a loop shows BUSY without DONE, as a sequence does; the later
  ones look idle.

* A poll and a restart wait until the controller has taken the last request up
  (`Settled`): one bus access is longer than the two cycles that takes.
* The controller's own reset (`Forget`) is left out here; it is the reset of the
  whole processing system, after which all of this starts again.

### TxEngine
One edge of `txusrclk2` per action: start, disable, a running word, idle. The
lane arithmetic of the code is written out for a word of `WORD` lanes and a
pattern bit is represented by its index in the pattern, so that sending the
wrong bit is seen whatever the bits are. `PatternStream` is the same stream
position by position.

### TxCore
`AxiTick` is a step of the loader, a word of a record at a time; `TxTick` an
edge of `txusrclk2` in `cdc_toggle_sync.v`, the synchronisers, the capture block
and the engine's start. The command actions are the firmware's. A configuration
is represented by the record it is made from, so the replacement of a zero seed and the
split into fields are not seen; an index stands for index, source and length
bits together. `applied` is a history variable: the record selected when the
APPLY bit last flipped.

* `Settled`: where the host waits, the load of the last command is over (17 cycles,
  340 ns) and `SETTLE` edges of a running `txusrclk2` (128 ns each at the slow
  rate) have passed: a UDP datagram or a `usleep(10)` is tens of microseconds.
* Three commands do not wait. `Select` and `SetEnable` may come as soon as the loader
  has seen the flip (`ApplySeen`), a bus access later. And the first soft reset of a
  start-up (`starting`) comes right behind `laser_gpio_init`, whose write may have been
  an APPLY of record 0: it may rise anywhere in the load or in the
  synchroniser, and swallow that update. `kept` is a history variable: what was
  published before such a restart, until the next APPLY or reset of the transmitter.
* `ClockStops` takes the transmitter's reset at once. In the hardware the first
  edges after the stop bring it in; `gt_ready_ctrl` needs 64 cycles of stable
  locks (1.28 us), longer than those two edges.
* The bundle is captured in one step: a capture on the very edge of a
  publication, which would mix two bundles, cannot be seen here. `docs/
  known_risks_and_next_steps.md` lists the clock crossing as open.

### GtMonitor

The last two states of the controller, WAIT_LOCK and VERIFY_RATE, with the
registers of the GT wrapper they read. `RateSwitch` takes the frequency it reads
to be that of the clock of that moment (`Measurable`); here the frequency is
what the source makes it: the count of a window that began at some moment,
perhaps before the switch, from samples that lag three cycles behind.
`AcceptedIsRunning` and `RunningIsAccepted` together are that assumption. One
action, `CtrlEdge`, is an edge of `ctrl_clk` and whatever `txusrclk2`, no faster,
does in that cycle. The three locks are one, since every reader takes their
conjunction; while they stand the clock keeps its speed, except in VERIFY_RATE,
where it may fail (`changed`).

`WindowAssumption` is what the code's parameters must satisfy for that: the wait in
VERIFY_RATE holds a whole window wherever it begins and is longer than the aliveness
timeout, the counter does not wrap in a window, and the accepted counts are those of
the rate alone. The code's values do: windows of 50000 cycles, a wait of 100000, a
timeout of 255, accepted counts 7700-7950 and 15400-15900 for clocks of 5/32 and 10/32
of `ctrl_clk`. TLC checks it for the small instance, the proofs need no other.

### HostWords
The layouts, as operators, written from both ends: what the firmware's masks and
shifts do (`Selected`, `RateRequested`, `ToWords`, `GtStatusRead`, the casts
`Byte` and `Half`) and what the RTL's slices and concatenations do
(`ControlPorts`, `FromWords`, `GtStatusOut`). The control word is the set of its
bits that are 1, a record is eight numbers. The rate plan's table and the names of
states and errors are here too. Bits of the status word that the firmware only
prints are left out.

### Firmware
`todo` is the list of driver calls that the program in hand has still to make,
`main(a, c)` the list each program starts with; a call is one action. So the
order and the early returns of `main.c`, `run_uart_test` and the server's set-up
are data, and every call meets every other across a restart. In the server
`Datagram` runs `handle_udp_command` on some request: a rejected one answers at
once (`Respond`), an accepted one starts a list of calls that ends in `reply`
(`Start`).

* A token is a word or a number. A word stands for all spellings `token_equals`
  takes for it; a number is cut to `ULONG_MAX`, as `strtoul` does. A datagram
  longer than the buffer loses its last tokens.
* A lost, repeated or late datagram needs no state: the server keeps nothing
  between two, and `Datagram` takes any request at any time.
* `Write` may lose one of its eight bus writes (`MaxLosses`); then the read-back
  decides. Opening a device may fail, each with the exit the code has for it.
* The FPGA takes part as `Load`, the loader's verdict on the selected record, and
  as the GT status word, which may tell of any state in `GtStates`. `TxCore` has the
  loader in detail, `RateSystem` the rate request access by access; here both are
  one step.
* `Restart` starts either test or the server over at any point. The FPGA keeps
  `bram`, `apply_seen` and `cfg`; the GPIO keeps its word until `gpio_init`.
* `promised` is a history variable, the configurations the host was told are
  stored; a new `WRITE_CONFIG` to an index withdraws the promise for it.

`ControlPort` is what the FPGA may expect: signals of its own for each purpose, and
one operation at a time on them. That `Firmware` implements it is the statement that
no mask touches a neighbour and no signal changes within a soft reset.

## 3. Runs

| Run | Question | Instance |
|---|---|---|
| `rate_overlap` | the controller under requests for any id, resets and failures at any edge; does it implement `RateService`, safety and liveness | every wait 1 cycle, table of 2 |
| `rate_exclusive` | is the whole MMCM table programmed and a supported rate in force, if nobody interferes | table of 3 |
| `rate_retry` | *violated*: DONE means the hardware was programmed | never reset |
| `gt_monitor` | is a rate accepted exactly if the clock runs at it, whenever the frequency window began | 1 switch, windows of 6 |
| `system` | firmware, controller, ready gating and transmitter together | 1 restart |
| `system_retry` | *violated*: a failed switch can be left by asking again | 1 host, strong fairness |
| `engine_stream` | is every word, trigger, busy and done that of the stream | 4 lanes, all alignments |
| `engine_fixed_loop` | *violated*: a loop without shift keeps its pattern | loops only |
| `engine_shortest_loop` | *violated*: one phase boundary per word at most | the shortest phase |
| `tx_config` | is what runs what was applied, and does APPLY start it | 2 records of 2 words |
| `tx_ready` | *violated*: cfg_valid and ENABLE start the engine | the same |
| `firmware` | do all programs act on the FPGA one signal at a time, keep what they promise, enable only what was checked, and answer the truth | 31 requests, 14 test cases, 2 starts, 1 lost write |

Bounds, and why they are enough.

* *Waits of one cycle.* A wait can then still succeed at once, succeed at its
  last cycle, or fail; longer ones add states that differ in the count alone.
  The proofs hold for every length.
* *A table of two or three entries.* The table needs an entry for each of the two
  values that decide the clock (`FbEntry`, `OutEntry`) and one more, to stop after,
  between and before them. The proofs hold for every length.
* *`WORD = 4`.* The engine's arithmetic depends on the word only through
  comparisons of positions; pattern lengths of `WORD - 1` and `2 WORD - 1`
  stand for 63 and 127, repeats go to 2, gaps are empty, one bit, shorter than
  a word and longer than a word.
* *`MaxRestarts = 1`.* One restart after an odd or an even number of requests, at any
  point of a switch; with two (2.2 million states) the same properties hold, and the
  proofs hold for any number.
* *Records of two words, `Written = {0}`.* Word 0 stands for the words the
  loader checks, word 1 for those it passes on: two legal and two illegal
  records. Record 0 is rewritten between the applies and is what a restart applies;
  record 1 stays erased.
* *`MEASURE_CYCLES = 6`, `VERIFY_SETTLE_CYCLES = 12`, one switch.* The ratio of
  two is the source's (50000 and 100000). The switch may begin at any phase of the
  window; six cycles hold the three of the synchroniser, and give two rates counts
  that are told apart with an error of one at each end. `COUNTER_MOD = 8` makes the
  counter wrap in every other window.
* *Firmware: `Indices = {0, 255}`, 31 requests.* Record 0 is the one the tests and a
  cleared control word use, 255 sets every bit of the index. Requests are at, and
  one beyond, each limit of `WRITE_CONFIG` and `SELECT_CONFIG` (index 255 and 256,
  `insert_after` 65535 and 65536), with too few and too many tokens, and one for each
  other command, its argument errors included; the proofs take any set of requests.
  `ULONG_MAX = 70000` is the least round number above every limit, so saturation and
  range checks still differ; `MAX_TOKENS = 14` is the longest command and one more
  token; `CONFIG_WAIT_ITERATIONS = 2` gives a first, early poll and a last.
* *`MaxBoots = 2`, `MaxLosses = 1`.* Any program meets the state any other left at
  any point. The comparison looks at one record at a time, so one lost write meets
  every case of it; the proofs hold for any number.
* *`SETTLE = 2`.* The least value for which the properties hold: with 1, an APPLY
  followed by the SOFT_RESET command loses its update, because the update pulse takes
  one edge more through its synchroniser than the level.

## 4. Fairness and liveness

* `RateSwitch`, `RateService`: weak fairness of `Clock`; the controller's clock
  comes from the processor and does not stop. Every other input may stay silent.
* `RateSystem`: weak fairness of the controller's progress, which `rate_overlap`
  shows of the controller, of `txusrclk2` while it runs, and of the command in
  hand, since nothing preempts the server. None of the host, which need not send
  commands, except in `RetrySpec`, where it keeps asking and the firmware still
  refuses.
* `TxEngine`: weak fairness of `RunWord`, an edge of a running clock.
* `GtMonitor`: weak fairness of `ctrl_clk`, as above.
* `Firmware`: none. It states safety only: nobody has to send anything, and the
  waits end by their own count. Answers to rate commands are `RateSystem`'s
  `CommandsAnswered`.
* `TxCore`: weak fairness of each clock. `txusrclk2` may stop, and the host and
  the locks are under no obligation.

`SwitchTerminates`, `RequestIsServed`, `StoppedIsNoticed`, `CommandsAnswered`,
`ApplyStartsEngine` and the liveness of both refinements are model-checked only. But
for `CommandsAnswered` and the refinements, the count behind each is proved
(section 6): a number of edges that every edge takes down, so that what is left to
fairness is that the clock goes on.

## 5. What the code does not keep

Five runs state what a document or a comment of the repository says and show an
execution of the code in which it fails; the quotes are in `PROJECT.json`.

1. **A loop without phase shift rotates the pattern** (`engine_fixed_loop`): the
   next phase takes the rotated pattern whenever there is a next phase, while
   `phase_offset` returns to 0.
2. **The shortest loop loses its position** (`engine_shortest_loop`): 63 bits in a
   64-bit word, without gap and with `repeat = 1`, crosses two boundaries in some words.
3. **DONE without programming** (`rate_retry`): after a switch that failed past
   its DRP writes, a request for the old rate is "already current".
4. **A failed switch is not left** (`system_retry`): `rate_error` keeps `gt_ready`
   low and the firmware requests nothing without `gt_ready`.
5. **A reset forgets the configuration, and the status does not say so**
   (`tx_ready`). A rate switch resets the transmitter. If the number of APPLYs is
   odd, the toggle synchroniser sees an update as it leaves reset and reloads
   the configuration; if it is even, there is nothing to see. `cfg_valid` of the
   status word is the loader's and stays 1, and ENABLE starts nothing.

Others that have no run of their own:

* **A switch can cut off a sequence.** The firmware waits for the transmitter
  (`fw/laser_udp_server.c:83-86`) and then requests (`:365`). A transmitter that lost
  its locks may be back in between and start by itself, if its APPLYs are odd in
  number; `rate_busy` then resets it. The design plan wants it waited for
  (`docs/debug_reports/04_dynamic_rate_switch_design_plan.md:653`).
  `SequenceUndisturbed` without `~unguarded` fails in this way, after ten steps.
* **A start-up can lose the update it makes.** Clearing the control word is an APPLY
  of record 0 if the APPLY bit was set, and the soft reset behind it waits for nothing
  (`fw/laser_udp_server.c:131-143`, `src/vitis_bringup/main.c:98-106`). An update pulse
  that falls into it is dropped (`core/laser_tx_core.v:186`): the status word is then
  that of record 0, while ENABLE runs the record of before. `CapturedIsApplied` and
  `RunningIsApplied` without `kept` fail in this way. The next APPLY puts it right.
* **A loop looks idle.** `done` is set after the first round and stays, and the rate
  controller takes busy-and-done for idle: a looping transmitter can be switched.
* **An id outside the two rates** written in the middle of a switch is never
  validated: `CurrentRateSupported` holds if requests during a switch are for the
  supported rates (proved; `rate_exclusive` has none), and fails as soon as
  `BusyRequestIds` holds 0, which is what a restarting firmware writes.
* **A wrong PASS on a warm board.** `gpio_init` clears APPLY, which the loader takes
  for an event; the first poll of `wait_for_config_result` (`fw/main.c:38`) can read
  the verdict of the record before. A test that expects an error then passes on
  another's. `ColdVerdict` is therefore about a board just configured.
* **Two tests expect errors the hardware does not raise.**
  `fw/laser_config_cases.c:18-29` counts a zero seed and a mismatch of direct mode as
  invalid; the loader replaces the seed and accepts the mode, so both end in
  `failed_result`. `docs/debug_reports/01_profile0_500m_ila_validation_summary.md:111`
  has the seed as an open question.
* **The MMCM's multiplier of the 500M plan** is printed as 12.188
  (`fw/gt_rate_plan.c:14`), while the MMCM has 39.0
  (`rate/laser_gt_usrclk_profile0.v:58`). `PlanTrue` covers the clocks and dividers of
  the plan, which agree; nothing computes with the multiplier.
* **A state without a name**: the controller's state 11 is printed RATE_UNKNOWN.
* **The AD9528 is only reported on.** `docs/ad9528_bringup.md:17` says that a failure
  stops the start of the GT; `fw/main.c:107` prints it and goes on.
* **A GPIO that does not open** after a restart leaves an enabled transmitter
  enabled: the one exception in `EnabledIsChecked`.

## 6. What is proved

TLAPS proves these for every value of the constants that satisfies the named
assumptions.

* **RateSwitchProofs** - from `ParamAssumption`, `TableAssumption` and
  `BusyAssumption`. `TypeCorrect`, `StatusConsistent`, `DrpSafe`,
  `LockWaitUnblocked`, `Bounded`, `LineRate`, `LastRequest`. None of these is
  inductive alone. `DrpSafe` and `LockWaitUnblocked` need which resets are held in
  each state; `Bounded` needs the count at zero on entry to each wait, since the
  waits share it; `LineRate` and `LastRequest` need the meaning of the flags
  (`StatusConsistent`) and that only three kinds of step end in DONE: the target
  is in force, verification accepts it, or DONE is kept. Verification decides
  `LineRate`: only a transceiver at the target's rate gives a count in its
  window, so even a target rewritten during the DRP writes is not misreported.
  `RateSupported` assumes the ids requested during a switch to be
  supported (`SupportedInv`: an unsampled edge and a target past its validation
  are supported too), `MmcmProgrammed` that there are none (`MmcmInv`: the
  entries below the index hold the target's values). `ServiceImplemented` is the
  step-by-step refinement of `RateService`.
  `SwitchBounded`: `EdgesLeft` adds up the waits a switch still has before it and
  what is left of the one in hand; every edge of a switch takes it down, from at most
  `SwitchEdges`. With the code's parameters that is 6 175 806 edges, 0.12 s at 50 MHz,
  so the 20 s that the firmware polls (`fw/laser_udp_server.c:225`, 200 000 times
  100 us) end in TIMEOUT only if the controller's clock does not run.
  `RequestKept`: a request is kept until it is taken up, at most one edge after that.
* **RateSystemProofs** - `TypeCorrect`, `NoOverlap`, `TrueAnswers`, `SequenceSafe`,
  `ErrorIsFinal`. The key is
  `SnapshotInv`: from the reading of an idle status word to the request nobody
  else can have made the controller busy, however old the word is. `PollInv`
  ties the polled DONE to the request in hand, `SendingInv` a sequence that is not
  `unguarded` to an idle controller and to a firmware that is not past its look at
  BUSY. `ErrorIsFinal` is item 4 of section 5 for any number of
  restarts: from a failed switch that has reached the transmitter, with no command
  in hand (`Stopped`), the controller stays in error but for the check of the id 0 that
  a restart writes, and the transmitter is never ready again (`Trapped`).
* **TxEngineProofs** - `TypeCorrect` (no rotation or lane select reads beyond the
  pattern), `SentBeforeIdle`, and `WordStartsInPhase` under `LoopsFillAWord`:
  the assumption that fails in run `engine_shortest_loop`.
* **TxEngineStreamProofs** - `StreamImplemented`: what the engine puts out in a word,
  bits, triggers, busy and done, is what `PatternStream` has next, for every word
  width and every set of configurations that is `Sendable`, which leaves out just the
  loops of items 1 and 2 of section 5. `StreamInv` ties the registers to the
  stream: the position in the phase, the patterns of this phase and the next, the
  bit that goes out next. The word is then compared lane by lane: `SymbolIs` is
  the symbol at a position, `CurrentLanes` and `NextLanes` the lanes before
  and behind a phase boundary, `WordIsNext` and `TriggerIsBoundary` the whole word and its
  trigger; `AfterStay`, `AfterNext` and `AfterEnd` carry `StreamInv` over the three
  ways a word can end. Both sides count positions, so it takes no induction over them.
  `PatternAtOffset` is its part about the rotated pattern.
* **TxCoreProofs** - `TypeCorrect` and `LoadCorrect` from `CoreAssumption`;
  `NothingMissed` and `NothingElseSent` also from `HostIsSlow`, that is
  `SETTLE >= 2`, which is about the commands that wait; the others come at any time. `LoadInv` says that the words read so far are the applied record's.
  `PipeInv` follows a toggle through the synchroniser: what each flop has sampled,
  that a load takes its turn but for the start-up, that nothing moves while the clock is
  stopped, which configuration an armed start belongs to, and (`KeptInv`, `Held`) that
  a swallowed update leaves the very configuration that the restart replaced, with the
  engine stopped by the soft reset that swallowed it. `FiveEdges`: an update on its way
  runs in the engine within five edges of `txusrclk2`, if nobody disables, resets or
  applies meanwhile; `Due` says at each edge how many are left. `ForgottenStays` is item
  5 of section 5 in general: what a reset has forgotten stays forgotten until a
  record is published again.
* **GtMonitorProofs** - `TypeCorrect`, `AcceptedRuns`, `RunningAccepted` and
  `StoppedNoticed`, from `MonitorAssumption` and `WindowAssumption`. `Behind` says how many ticks a sample is
  behind the counter, between two bounds and modulo its width; `Good1` to `Good3` state
  it of the three samples. `WaitInv`: the resets and the ready count leave the samples
  time to be of the present clock before VERIFY_RATE begins. `VerifyInv`: a window that
  began in VERIFY_RATE (`verify_count >= measure_count`) began with a sample of that
  clock, and once it has ended its count is in `WindowCounts(speed)`. `AliveInv`: a
  running clock's sample cannot repeat for a whole timeout. `StoppedNoticed` is the
  converse: a clock that stands still is taken for dead within `ALIVE_TIMEOUT + 5`
  edges (260 with the code's 255) and stays so.
* **HostWordsProofs** - `RoundTrip`: a configuration within the limits of
  `WRITE_CONFIG` comes through casts, packing and slices unchanged; `StatusRead`: the
  firmware's masks undo the RTL's concatenation for every status. No assumption but
  the types; it is arithmetic of quotients and remainders.
* **FirmwareProofs** - from `FirmwareAssumption` (the least it says is that the word
  of `strtoul` has more than 16 bits and the buffer holds the longest command) and
  `GtStatesAssumption`, for every set of requests and of GT states, any number of
  restarts and lost writes. All theorems use `ListInv`: what is left to do is the end
  of an orderly list, `write` is followed by `verify` and `reset_on` by `reset_off`, a
  test enables last and only if it expects no error.
  - `TypeCorrect` (with `ProgramType`, `DeviceType`).
  - `OkIsStored`: `StoredInv` says that an OK in preparation has its record's writes,
    or the comparison, still ahead, or the record in place. `OkMeansStored` then
    follows by `RoundTrip`, since the range check bounds what is stored.
  - `PortImplemented`: `ResetInv`, the reset bit is on only if the next call ends it;
    then each call changes the ports of its own operation (`EnablePorts` ...
    `RatePorts`). This is the refinement of `ControlPort`.
  - `EnabledChecked`: `CheckInv` follows the test's record from the comparison to the
    verdict and says that from `disable` on the transmitter is off.
  - `AnswersTrue`: by `StatusRead` and the plan's figures.
  - `ColdVerdictHolds`: by `ColdInv`, the place in a test's list shows what the loader
    can have seen: nothing of this boot before `apply`, the test's record from there on,
    and behind the wait its verdict. The server neither passes nor fails a test.

## 7. What is model-checked only

All liveness (section 4), the fairness that `ImplementsService` and
`ImplementsStream` ask of their specifications included: it needs ENABLED, which the
prover does not handle. And the five violations, two of which have a theorem that
states them in general (`ErrorIsFinal`, `ForgottenStays`). Every other property of a
run has a theorem. `StatusConsistent`, `SwitchBounded`, `RequestKept`,
`StoppedNoticed` and `FiveEdges` are proved without a run of their own.

## 8. What is not modelled

* `pattern_source.v` (the PRBS), `sync_signal_gen.v`, `status_register.v` and the
  status synchronisers: combinational, or diagnostic values without coherence
  between bits, as the code's own comment says.
* The dry-run state machine of `laser_tx_core.v` 302-453, which drives nothing.
* The TXOUTCLK debug monitor of the GT wrapper, glitches of its unregistered Gray
  code, the vendor core, the static 1000M variant, wiring, scripts.
* In the firmware: lwIP, printing and `laser_status.c`, which only prints; the bytes
  of the SPI transfers to the AD9528, whose result nothing uses; a datagram cut in the
  middle of a token; a loader that never answers, for which the last poll of
  `wait_for_config_result` is there.
* A bundle torn by a capture on the edge of a publication (section 2, `TxCore`).

## 9. Plan

Built, in this order: `RateSwitch` with `RateService` (the part that can wedge
the hardware), `TxEngine` with `PatternStream`, `RateSystem`, `TxCore`,
`GtMonitor`, `HostWords` and `Firmware` with `ControlPort`.

What could follow:

1. A pattern source module with the two shift registers as recursive functions:
   period, balance, never zero; the pattern of the engine then comes from it.
2. The bundle as separate words captured at an edge that may be the publishing
   one, to settle when it can be torn at the end of a reset.
3. `TxCore` inside `RateSystem`: what a rate switch does to a configuration, with
   `Starts` and `StartsAgain` replaced by the capture and start logic.
