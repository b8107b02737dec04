------------------------------- MODULE TxCore -------------------------------
(***************************************************************************)
(* How a configuration gets from the host to the pattern engine: the       *)
(* control word the firmware writes (laser_gpio.c), config_loader.v, which *)
(* reads the selected record from the BRAM when the APPLY bit flips and    *)
(* publishes it, and laser_tx_core.v, which carries the published bundle   *)
(* over to txusrclk2 behind a synchronised toggle and starts the engine.   *)
(*                                                                         *)
(* AxiTick and TxTick are the edges of the two clocks; they interleave     *)
(* freely, and txusrclk2 stops while the MMCM is reset.  A configuration   *)
(* is represented by the record it is made from, an index stands for the   *)
(* index, source and length bits of the control word together, and the     *)
(* engine by the configuration it runs: TxEngine has its details.          *)
(***************************************************************************)
EXTENDS Naturals

CONSTANTS
  Words,    \* the values of a word of a record
  Zero,     \* the word an erased BRAM holds
  WORDS,    \* words of a record (LASER_CONFIG_WORD_COUNT)
  Legal,    \* the records that config_loader's check accepts
  Indices,  \* the selections a control word can hold
  Index0,   \* the selection of a cleared control word
  Written,  \* the selections whose records the host writes
  SETTLE    \* edges of txusrclk2 that the host's next command comes later

Records == [0 .. WORDS - 1 -> Words]
Erased  == [k \in 0 .. WORDS - 1 |-> Zero]

ASSUME CoreAssumption ==
  /\ WORDS \in Nat \ {0} /\ SETTLE \in Nat
  /\ Zero \in Words /\ Index0 \in Indices /\ Written \subseteq Indices
  /\ Legal \subseteq Records /\ Erased \notin Legal

Idle == [k \in {} |-> Zero]  \* no record

VARIABLES
  bram,
  config_index, apply_toggle, enable, soft_reset,  \* the control word
  starting,           \* the firmware has restarted and not yet made its soft reset
  settle,             \* edges of txusrclk2 before the host's next command
  applied,            \* history: the record selected when APPLY last flipped
  kept,               \* history: what was published before a restart applied
                      \* record 0, until the next APPLY or reset; or Nothing
  apply_seen, loading, word_index, base_addr, words,  \* config_loader
  cfg_axi, cfg_update_toggle,          \* what it publishes: the bundle
  gt_ready_ctrl,      \* ready, in the controller's clock
  usrclk_runs,        \* txusrclk2 ticks
  gt_ready_meta_tx, gt_ready_tx,
  sync_ff1, sync_ff2, dst_toggle, dst_pulse,          \* cdc_toggle_sync
  enable_meta, enable_tx, soft_reset_meta, soft_reset_tx,
  cfg_tx, pending_start, engine_start,
  engine              \* the record it runs, or Idle

host   == <<bram, config_index, apply_toggle, enable, soft_reset, starting, applied>>
loader == <<apply_seen, loading, word_index, base_addr, words, cfg_axi,
            cfg_update_toggle>>
gt     == <<gt_ready_ctrl, usrclk_runs>>
tx     == <<gt_ready_meta_tx, gt_ready_tx, sync_ff1, sync_ff2, dst_toggle, dst_pulse,
            enable_meta, enable_tx, soft_reset_meta, soft_reset_tx,
            cfg_tx, pending_start, engine_start, engine>>
vars   == <<host, settle, kept, loader, gt, tx>>

\* config_loader's check of a record: cfg_valid and the configuration.
Checked(r) == [valid |-> r \in Legal, words |-> r]
Cleared == Checked(Erased)
Nothing == Checked(Idle)

tx_rst == ~gt_ready_tx

Init ==
  /\ bram = [i \in Indices |-> Erased]
  /\ config_index = Index0 /\ apply_toggle = FALSE
  /\ enable = FALSE /\ soft_reset = FALSE
  /\ starting = FALSE /\ settle = 0 /\ applied = Erased /\ kept = Nothing
  /\ apply_seen = FALSE /\ loading = FALSE /\ word_index = 0
  /\ base_addr = Index0 /\ words = Erased
  /\ cfg_axi = Cleared /\ cfg_update_toggle = FALSE
  /\ gt_ready_ctrl = FALSE /\ usrclk_runs = TRUE
  /\ gt_ready_meta_tx = FALSE /\ gt_ready_tx = FALSE
  /\ sync_ff1 = FALSE /\ sync_ff2 = FALSE /\ dst_toggle = FALSE /\ dst_pulse = FALSE
  /\ enable_meta = FALSE /\ enable_tx = FALSE
  /\ soft_reset_meta = FALSE /\ soft_reset_tx = FALSE
  /\ cfg_tx = Cleared /\ pending_start = FALSE /\ engine_start = FALSE
  /\ engine = Idle

-----------------------------------------------------------------------------
(* The host's commands *)

\* Between two commands, each a datagram or behind a usleep, passes more time than
\* a load takes, and SETTLE edges of a running txusrclk2.
LoaderIdle == ~loading /\ apply_seen = apply_toggle
Settled == LoaderIdle /\ (settle = 0 \/ ~usrclk_runs)

\* The start-up code is through its soft reset, and no other is in hand.
Serving == ~starting /\ ~soft_reset

\* laser_bram_write_config, one word; the firmware may stop after any of them.
WriteWord(i, k, w) ==
  /\ Settled /\ Serving
  /\ bram' = [bram EXCEPT ![i][k] = w]
  /\ UNCHANGED <<config_index, apply_toggle, enable, soft_reset, starting, applied,
                 settle, kept, loader, gt, tx>>

\* One bus access is longer than the loader takes to see the APPLY of the last.
ApplySeen == apply_seen = apply_toggle

\* laser_gpio_select_config: a load under way has latched the old selection.
Select(i) ==
  /\ ApplySeen /\ Serving
  /\ config_index' = i
  /\ UNCHANGED <<bram, apply_toggle, enable, soft_reset, starting, applied,
                 settle, kept, loader, gt, tx>>

\* laser_gpio_toggle_apply
Apply ==
  /\ Settled /\ Serving
  /\ apply_toggle' = ~apply_toggle
  /\ applied' = bram[config_index] /\ kept' = Nothing
  /\ settle' = SETTLE
  /\ UNCHANGED <<bram, config_index, enable, soft_reset, starting, loader, gt, tx>>

\* laser_gpio_set_enable: a bring-up test enables as soon as a status word,
\* perhaps still that of the load before, shows cfg_valid.
SetEnable ==
  /\ ApplySeen /\ Serving
  /\ enable' = ~enable
  /\ settle' = SETTLE
  /\ UNCHANGED <<bram, config_index, apply_toggle, soft_reset, starting, applied, kept,
                 loader, gt, tx>>

\* Each half of laser_gpio_soft_reset: write, then usleep.  The first one of the
\* start-up code comes right after laser_gpio_init, whatever that has set off;
\* the set_enable(0) between them writes the same word again.
SoftReset ==
  /\ Settled \/ (starting /\ ~soft_reset)
  /\ soft_reset' = ~soft_reset
  /\ starting' = (starting /\ ~soft_reset)
  /\ settle' = SETTLE
  /\ UNCHANGED <<bram, config_index, apply_toggle, enable, applied, kept, loader, gt, tx>>

\* The firmware starts again, after a boot: laser_gpio_init clears the control
\* word.  If the APPLY bit was set, that is an APPLY of index 0.
Restart ==
  /\ Settled
  /\ config_index' = Index0 /\ apply_toggle' = FALSE
  /\ enable' = FALSE /\ soft_reset' = FALSE /\ starting' = TRUE
  /\ applied' = IF apply_toggle THEN bram[Index0] ELSE applied
  /\ kept' = IF apply_toggle THEN cfg_axi ELSE kept
  /\ settle' = SETTLE
  /\ UNCHANGED <<bram, loader, gt, tx>>

-----------------------------------------------------------------------------
(* config_loader, on the AXI clock *)

StartLoad ==
  /\ ~loading /\ apply_toggle # apply_seen
  /\ apply_seen' = apply_toggle
  /\ base_addr' = config_index
  /\ word_index' = 0 /\ loading' = TRUE
  /\ UNCHANGED <<words, cfg_axi, cfg_update_toggle>>

LastWord_TooFar == word_index = WORDS
LastWord == word_index = WORDS - 1

\* ST_WAIT and ST_CAP of one word.
Fetched_LiveIndex == [words EXCEPT ![word_index] = bram[config_index][word_index]]
Fetched == [words EXCEPT ![word_index] = bram[base_addr][word_index]]

LoadWord ==
  /\ loading /\ ~LastWord
  /\ words' = Fetched
  /\ word_index' = word_index + 1
  /\ UNCHANGED <<apply_seen, loading, base_addr, cfg_axi, cfg_update_toggle>>

\* The last word goes straight into the bundle.
Publish ==
  /\ loading /\ LastWord
  /\ cfg_axi' = Checked(Fetched)
  /\ cfg_update_toggle' = ~cfg_update_toggle
  /\ loading' = FALSE
  /\ UNCHANGED <<apply_seen, word_index, base_addr, words>>

AxiTick ==
  /\ StartLoad \/ LoadWord \/ Publish
  /\ UNCHANGED <<host, settle, kept, gt, tx>>

-----------------------------------------------------------------------------
(* Ready and the transmitter's clock *)

\* A lock is lost, or a rate switch begins.
GtDrops ==
  /\ gt_ready_ctrl
  /\ gt_ready_ctrl' = FALSE
  /\ UNCHANGED <<host, settle, kept, loader, usrclk_runs, tx>>

\* READY_STABLE_CYCLES of locks, which need the clock.
GtRises ==
  /\ usrclk_runs /\ ~gt_ready_ctrl
  /\ gt_ready_ctrl' = TRUE
  /\ UNCHANGED <<host, settle, kept, loader, usrclk_runs, tx>>

TxReset ==
  /\ sync_ff1' = FALSE /\ sync_ff2' = FALSE /\ dst_toggle' = FALSE /\ dst_pulse' = FALSE
  /\ enable_meta' = FALSE /\ enable_tx' = FALSE
  /\ soft_reset_meta' = FALSE /\ soft_reset_tx' = FALSE
  /\ cfg_tx' = Cleared /\ pending_start' = FALSE /\ engine_start' = FALSE
  /\ engine' = Idle
  /\ kept' = IF LoaderIdle THEN Nothing ELSE kept

\* With the MMCM in reset nothing moves in the transmitter's domain, and the
\* first edges afterwards bring its reset in: the reset is taken here at once.
ClockStops ==
  /\ usrclk_runs /\ usrclk_runs' = FALSE
  /\ gt_ready_ctrl' = FALSE /\ gt_ready_meta_tx' = FALSE /\ gt_ready_tx' = FALSE
  /\ TxReset
  /\ UNCHANGED <<host, settle, loader>>

ClockResumes ==
  /\ ~usrclk_runs /\ usrclk_runs' = TRUE
  /\ settle' = IF LoaderIdle THEN 0 ELSE settle
  /\ UNCHANGED <<host, kept, loader, gt_ready_ctrl, tx>>

-----------------------------------------------------------------------------
(* laser_tx_core, on txusrclk2 *)

ReadyFlops ==
  /\ gt_ready_meta_tx' = gt_ready_ctrl
  /\ gt_ready_tx' = gt_ready_meta_tx

Synchronise_RisingOnly ==
  /\ sync_ff1' = cfg_update_toggle /\ sync_ff2' = sync_ff1
  /\ dst_toggle' = sync_ff2 /\ dst_pulse' = (sync_ff2 /\ ~dst_toggle)
Synchronise ==
  /\ sync_ff1' = cfg_update_toggle /\ sync_ff2' = sync_ff1
  /\ dst_toggle' = sync_ff2 /\ dst_pulse' = (sync_ff2 # dst_toggle)

Levels ==
  /\ enable_meta' = enable /\ enable_tx' = enable_meta
  /\ soft_reset_meta' = soft_reset /\ soft_reset_tx' = soft_reset_meta

\* A soft reset keeps the configuration and arms its start; an update that
\* arrives in it is lost.
UnderSoftReset ==
  /\ soft_reset_tx
  /\ pending_start' = cfg_tx.valid /\ engine_start' = FALSE
  /\ UNCHANGED cfg_tx

Capture_NotArmed ==
  /\ ~soft_reset_tx /\ dst_pulse
  /\ cfg_tx' = cfg_axi
  /\ UNCHANGED pending_start /\ engine_start' = FALSE
Capture ==
  /\ ~soft_reset_tx /\ dst_pulse
  /\ cfg_tx' = cfg_axi
  /\ pending_start' = cfg_axi.valid /\ engine_start' = FALSE

\* A start is armed while disabled, and given once when enabled.
Arm ==
  /\ ~soft_reset_tx /\ ~dst_pulse
  /\ engine_start' = (enable_tx /\ pending_start)
  /\ pending_start' = (~enable_tx /\ cfg_tx.valid)
  /\ UNCHANGED cfg_tx

\* A start replaces what runs; the engine ends a sequence by itself.
Starting_OnlyIdle ==
  ~soft_reset_tx /\ engine_start /\ enable_tx /\ cfg_tx.valid /\ engine = Idle
Starting == ~soft_reset_tx /\ engine_start /\ enable_tx /\ cfg_tx.valid

EngineStep ==
  \/ Starting /\ engine' = cfg_tx.words
  \/ ~Starting /\ ~soft_reset_tx /\ enable_tx /\ UNCHANGED engine
  \/ ~Starting /\ engine' = Idle

TxTick ==
  /\ usrclk_runs /\ ReadyFlops
  /\ IF tx_rst THEN TxReset
     ELSE /\ Synchronise /\ Levels
          /\ UnderSoftReset \/ Capture \/ Arm
          /\ EngineStep /\ UNCHANGED kept
  /\ settle' = IF LoaderIdle /\ settle > 0 THEN settle - 1 ELSE settle
  /\ UNCHANGED <<host, loader, gt>>

-----------------------------------------------------------------------------
Command == \/ \E i \in Written, k \in 0 .. WORDS - 1, w \in Words : WriteWord(i, k, w)
           \/ \E i \in Indices : Select(i)
           \/ Apply \/ SetEnable \/ SoftReset \/ Restart

Next == Command \/ AxiTick \/ GtDrops \/ GtRises \/ ClockStops \/ ClockResumes \/ TxTick

\* The AXI clock always runs, txusrclk2 ticks unless it is stopped.
Spec == Init /\ [][Next]_vars /\ WF_vars(AxiTick) /\ WF_vars(TxTick)

-----------------------------------------------------------------------------
(* Properties *)

Configs == [valid : BOOLEAN, words : Records]

HostTypeOK ==
  /\ bram \in [Indices -> Records] /\ config_index \in Indices
  /\ apply_toggle \in BOOLEAN /\ enable \in BOOLEAN /\ soft_reset \in BOOLEAN
  /\ starting \in BOOLEAN /\ settle \in 0 .. SETTLE
  /\ applied \in Records /\ kept \in Configs \cup {Nothing}

LoaderTypeOK ==
  /\ apply_seen \in BOOLEAN /\ loading \in BOOLEAN
  /\ word_index \in 0 .. WORDS - 1
  /\ base_addr \in Indices /\ words \in Records
  /\ cfg_axi \in Configs /\ cfg_update_toggle \in BOOLEAN

GtTypeOK ==
  /\ gt_ready_ctrl \in BOOLEAN /\ usrclk_runs \in BOOLEAN
  /\ gt_ready_meta_tx \in BOOLEAN /\ gt_ready_tx \in BOOLEAN

TxTypeOK ==
  /\ sync_ff1 \in BOOLEAN /\ sync_ff2 \in BOOLEAN
  /\ dst_toggle \in BOOLEAN /\ dst_pulse \in BOOLEAN
  /\ enable_meta \in BOOLEAN /\ enable_tx \in BOOLEAN
  /\ soft_reset_meta \in BOOLEAN /\ soft_reset_tx \in BOOLEAN
  /\ cfg_tx \in Configs /\ pending_start \in BOOLEAN /\ engine_start \in BOOLEAN
  /\ engine \in Records \cup {Idle}

TypeOK == HostTypeOK /\ LoaderTypeOK /\ GtTypeOK /\ TxTypeOK

\* No update is between the loader and the transmitter, which is out of reset.
Drained ==
  /\ LoaderIdle /\ usrclk_runs /\ gt_ready_tx
  /\ sync_ff1 = cfg_update_toggle /\ sync_ff2 = cfg_update_toggle
  /\ dst_toggle = cfg_update_toggle /\ ~dst_pulse

\* When the loader is done, what it publishes is the record that was selected
\* and stored when APPLY was made, whatever the control word says since then,
\* and checked as that record: the registers are never a mixture of two loads.
LoadedIsApplied == LoaderIdle => cfg_axi = Checked(applied)

\* The transmitter has the published configuration or, after a reset, none: no
\* update is missed between two commands, although the bundle itself is not
\* synchronised.  The one exception is the update of a restart, which the soft
\* reset behind it may swallow: then the transmitter has the configuration of
\* before, until the next APPLY or reset, and never an older one.
CapturedIsApplied == Drained => cfg_tx \in {cfg_axi, Cleared, kept}

\* What the engine sends is what the status word calls the valid configuration,
\* once a start under way is through, with the same exception.
Quiet == Drained /\ ~pending_start /\ ~engine_start
RunningIsApplied ==
  Quiet /\ engine # Idle /\ cfg_axi.valid
    => engine = cfg_axi.words \/ (kept.valid /\ engine = kept.words)

Undisturbed(w) == /\ cfg_axi = [valid |-> TRUE, words |-> w]
                  /\ enable /\ ~soft_reset /\ gt_ready_ctrl

\* An update on its way in a transmitter that is neither reset nor about to be.
OnItsWay == /\ gt_ready_meta_tx /\ gt_ready_tx
            /\ ~soft_reset_meta /\ ~soft_reset_tx
            /\ sync_ff1 = cfg_update_toggle /\ dst_toggle # cfg_update_toggle

\* A legal APPLY on an enabled, ready transmitter starts the engine with that
\* configuration, whatever it was doing, unless the host takes back the enable
\* or applies again, or the transmitter is reset.
ApplyStartsEngine ==
  \A w \in Legal : (Undisturbed(w) /\ OnItsWay) ~> (engine = w \/ ~Undisturbed(w))

\* "Wait until cfg_valid=1", then ENABLE, or wait for ready: the engine starts
\* with that configuration as soon as both have reached the transmitter.
ValidStartsWhenEnabled ==
  \A w \in Legal : (Undisturbed(w) /\ ~enable_tx) ~> (engine = w \/ ~Undisturbed(w))
=============================================================================
