---------------------------- MODULE TxCoreProofs ----------------------------
(***************************************************************************)
(* What TxCore guarantees for any records, selections and word values: the *)
(* loader publishes the record that was applied, and, if the host lets two *)
(* edges of txusrclk2 pass where it waits, the transmitter has that        *)
(* configuration or none and the engine runs no other, but for the update  *)
(* that the soft reset of a firmware start may swallow.                    *)
(***************************************************************************)
EXTENDS TxCore, TLAPS

-----------------------------------------------------------------------------
(* Types *)

\* Parts of the state that a step leaves alone keep their types.
LEMMA TypeUnchanged ==
  /\ HostTypeOK /\ UNCHANGED <<host, settle, kept>> => HostTypeOK'
  /\ LoaderTypeOK /\ UNCHANGED loader => LoaderTypeOK'
  /\ GtTypeOK /\ TxTypeOK /\ UNCHANGED tx => TxTypeOK'
  /\ GtTypeOK /\ UNCHANGED <<gt, tx>> => GtTypeOK'
BY DEF HostTypeOK, LoaderTypeOK, GtTypeOK, TxTypeOK, host, loader, gt, tx

LEMMA ClearedType == Erased \in Records /\ Cleared \in Configs
BY CoreAssumption DEF Cleared, Checked, Erased, Records, Configs

LEMMA InitType == Init => TypeOK
<1> SUFFICES ASSUME Init PROVE TypeOK
  OBVIOUS
<1> USE CoreAssumption, ClearedType DEF Init
<1>1. HostTypeOK
  <2>1. settle \in 0 .. SETTLE
    OBVIOUS
  <2>2. bram \in [Indices -> Records]
    OBVIOUS
  <2> QED BY <2>1, <2>2 DEF HostTypeOK
<1>2. LoaderTypeOK
  <2>1. word_index \in 0 .. WORDS - 1
    OBVIOUS
  <2> QED BY <2>1 DEF LoaderTypeOK
<1>3. GtTypeOK /\ TxTypeOK
  BY DEF GtTypeOK, TxTypeOK
<1> QED BY <1>1, <1>2, <1>3 DEF TypeOK

LEMMA FetchedType == TypeOK => Fetched \in Records
BY CoreAssumption DEF TypeOK, HostTypeOK, LoaderTypeOK, Fetched, Records

LEMMA CommandType == TypeOK /\ Command => HostTypeOK' /\ UNCHANGED <<loader, gt, tx>>
<1> SUFFICES ASSUME TypeOK, Command PROVE HostTypeOK' /\ UNCHANGED <<loader, gt, tx>>
  OBVIOUS
<1>0. HostTypeOK /\ cfg_axi \in Configs
  BY DEF TypeOK, LoaderTypeOK
<1> USE CoreAssumption, <1>0 DEF HostTypeOK
<1>1. ASSUME NEW i \in Written, NEW k \in 0 .. WORDS - 1, NEW w \in Words,
             WriteWord(i, k, w)
      PROVE  HostTypeOK' /\ UNCHANGED <<loader, gt, tx>>
  <2>1. bram' \in [Indices -> Records]
    BY <1>1 DEF WriteWord, Records
  <2> QED BY <1>1, <2>1 DEF WriteWord
<1>2. ASSUME NEW i \in Indices, Select(i)
      PROVE  HostTypeOK' /\ UNCHANGED <<loader, gt, tx>>
  BY <1>2 DEF Select
<1>3. CASE Apply
  BY <1>3 DEF Apply
<1>4. CASE SetEnable
  BY <1>4 DEF SetEnable
<1>5. CASE SoftReset
  BY <1>5 DEF SoftReset
<1>6. CASE Restart
  <2>1. /\ settle' \in 0 .. SETTLE /\ applied' \in Records /\ config_index' \in Indices
        /\ starting' \in BOOLEAN /\ kept' \in Configs \cup {Nothing}
    BY <1>6 DEF Restart
  <2>2. /\ apply_toggle' \in BOOLEAN /\ enable' \in BOOLEAN /\ soft_reset' \in BOOLEAN
        /\ UNCHANGED <<bram, loader, gt, tx>>
    BY <1>6 DEF Restart
  <2> QED BY <2>1, <2>2
<1> QED BY <1>1, <1>2, <1>3, <1>4, <1>5, <1>6 DEF Command

LEMMA AxiType ==
  TypeOK /\ AxiTick => LoaderTypeOK' /\ UNCHANGED <<host, settle, kept, gt, tx>>
<1> SUFFICES ASSUME TypeOK, AxiTick
             PROVE  LoaderTypeOK' /\ UNCHANGED <<host, settle, kept, gt, tx>>
  OBVIOUS
<1>0. /\ LoaderTypeOK /\ apply_toggle \in BOOLEAN /\ config_index \in Indices
      /\ Fetched \in Records
  BY FetchedType DEF TypeOK, HostTypeOK
<1> USE CoreAssumption, <1>0 DEF LoaderTypeOK, AxiTick
<1>1. CASE StartLoad
  BY <1>1 DEF StartLoad
<1>2. CASE LoadWord
  BY <1>2 DEF LoadWord, LastWord
<1>3. CASE Publish
  <2>1. cfg_axi' \in Configs
    BY <1>3 DEF Publish, Configs, Checked
  <2>2. loading' \in BOOLEAN /\ cfg_update_toggle' \in BOOLEAN
    BY <1>3 DEF Publish
  <2> QED BY <1>3, <2>1, <2>2 DEF Publish
<1> QED BY <1>1, <1>2, <1>3

PacedTypeOK == settle \in 0 .. SETTLE /\ kept \in Configs \cup {Nothing}

LEMMA ResetType == TxReset /\ TypeOK => TxTypeOK' /\ kept' \in Configs \cup {Nothing}
BY ClearedType DEF TxReset, TxTypeOK, TypeOK, HostTypeOK

LEMMA TxType ==
  TypeOK /\ TxTick => /\ PacedTypeOK' /\ GtTypeOK' /\ TxTypeOK'
                     /\ UNCHANGED <<host, loader>>
<1> SUFFICES ASSUME TypeOK, TxTick
             PROVE  /\ PacedTypeOK' /\ GtTypeOK' /\ TxTypeOK'
                    /\ UNCHANGED <<host, loader>>
  OBVIOUS
<1>0. /\ PacedTypeOK /\ cfg_axi \in Configs /\ cfg_update_toggle \in BOOLEAN
      /\ enable \in BOOLEAN /\ soft_reset \in BOOLEAN /\ GtTypeOK /\ TxTypeOK
  BY DEF TypeOK, HostTypeOK, LoaderTypeOK, PacedTypeOK
<1>1. settle' \in 0 .. SETTLE /\ UNCHANGED <<host, loader>>
  BY CoreAssumption, <1>0 DEF TxTick, PacedTypeOK
<1> USE DEF PacedTypeOK
<1>2. GtTypeOK'
  BY <1>0 DEF TxTick, ReadyFlops, GtTypeOK, gt
<1>3. CASE tx_rst
  BY <1>1, <1>2, <1>3, ResetType DEF TxTick
<1>4. CASE ~tx_rst
  <2>1. cfg_tx' \in Configs /\ pending_start' \in BOOLEAN /\ engine_start' \in BOOLEAN
    BY <1>0, <1>4 DEF TxTick, UnderSoftReset, Capture, Arm, Configs, TxTypeOK
  <2>2. engine' \in Records \cup {Idle}
    BY <1>0, <1>4 DEF TxTick, EngineStep, Starting, Configs, TxTypeOK
  <2>3. TxTypeOK'
    BY <1>0, <1>4, <2>1, <2>2 DEF TxTick, Synchronise, Levels, TxTypeOK
  <2>4. kept' = kept
    BY <1>4 DEF TxTick
  <2> QED BY <1>0, <1>1, <1>2, <2>3, <2>4
<1> QED BY <1>3, <1>4

LEMMA GtType ==
  TypeOK /\ (GtDrops \/ GtRises \/ ClockStops \/ ClockResumes)
    => /\ PacedTypeOK' /\ GtTypeOK' /\ TxTypeOK'
       /\ UNCHANGED <<host, loader>>
<1> SUFFICES ASSUME TypeOK, GtDrops \/ GtRises \/ ClockStops \/ ClockResumes
             PROVE  /\ PacedTypeOK' /\ GtTypeOK' /\ TxTypeOK'
                    /\ UNCHANGED <<host, loader>>
  OBVIOUS
<1> USE DEF PacedTypeOK
<1>0. PacedTypeOK /\ GtTypeOK /\ TxTypeOK
  BY DEF TypeOK, HostTypeOK
<1>1. settle' \in 0 .. SETTLE /\ UNCHANGED <<host, loader>>
  BY CoreAssumption, <1>0 DEF GtDrops, GtRises, ClockStops, ClockResumes
<1>2. GtTypeOK'
  BY <1>0 DEF GtDrops, GtRises, ClockStops, ClockResumes, GtTypeOK, tx
<1>3. CASE ClockStops
  BY <1>1, <1>2, <1>3, ResetType DEF ClockStops
<1>4. CASE GtDrops \/ GtRises \/ ClockResumes
  <2>1. UNCHANGED <<kept, tx>>
    BY <1>4 DEF GtDrops, GtRises, ClockResumes
  <2> QED BY <1>0, <1>1, <1>2, <2>1, TypeUnchanged
<1> QED BY <1>3, <1>4

LEMMA TypeStep == TypeOK /\ [Next]_vars => TypeOK'
<1> SUFFICES ASSUME TypeOK, [Next]_vars PROVE TypeOK'
  OBVIOUS
<1>1. CASE Command
  BY <1>1, CommandType, TypeUnchanged DEF TypeOK
<1>2. CASE AxiTick
  BY <1>2, AxiType, TypeUnchanged DEF TypeOK
<1>3. CASE TxTick \/ GtDrops \/ GtRises \/ ClockStops \/ ClockResumes
  <2>1. /\ PacedTypeOK' /\ GtTypeOK' /\ TxTypeOK'
        /\ UNCHANGED <<host, loader>>
    BY <1>3, TxType, GtType
  <2>2. HostTypeOK'
    BY <2>1 DEF TypeOK, HostTypeOK, PacedTypeOK, host
  <2> QED BY <2>1, <2>2, TypeUnchanged DEF TypeOK
<1>4. CASE UNCHANGED vars
  BY <1>4, TypeUnchanged DEF vars, TypeOK
<1> QED BY <1>1, <1>2, <1>3, <1>4 DEF Next

\* Every register keeps its type: the loader's word index never leaves the
\* record, whatever its length.
THEOREM TypeCorrect == Spec => []TypeOK
<1>1. Init => TypeOK
  BY InitType
<1>2. TypeOK /\ [Next]_vars => TypeOK'
  BY TypeStep
<1> QED BY <1>1, <1>2, PTL DEF Spec

-----------------------------------------------------------------------------
(* The loader *)

LoadInv ==
  /\ LoadedIsApplied
  /\ loading => /\ ApplySeen /\ bram[base_addr] = applied
                /\ \A k \in 0 .. word_index - 1 : words[k] = applied[k]
  /\ ~ApplySeen => ~loading /\ bram[config_index] = applied

LEMMA InitLoad == Init => LoadInv
BY DEF Init, LoadInv, LoadedIsApplied, ApplySeen, LoaderIdle, Cleared, Erased

\* The record is complete when its last word comes.
LEMMA FetchedIsApplied ==
  TypeOK /\ LoadInv /\ loading /\ LastWord => Fetched = applied
<1> SUFFICES ASSUME TypeOK, LoadInv, loading, LastWord PROVE Fetched = applied
  OBVIOUS
<1>1. /\ Fetched \in Records /\ applied \in Records /\ words \in Records
      /\ word_index \in 0 .. WORDS - 1 /\ bram[base_addr] = applied
      /\ \A k \in 0 .. word_index - 1 : words[k] = applied[k]
  BY FetchedType DEF TypeOK, HostTypeOK, LoaderTypeOK, LoadInv
<1>2. ASSUME NEW k \in 0 .. WORDS - 1 PROVE Fetched[k] = applied[k]
  BY CoreAssumption, <1>1 DEF Fetched, Records, LastWord
<1>3. /\ Fetched = [k \in 0 .. WORDS - 1 |-> Fetched[k]]
      /\ applied = [k \in 0 .. WORDS - 1 |-> applied[k]]
  BY <1>1 DEF Records
<1> QED BY <1>2, <1>3

LEMMA LoadStep == TypeOK /\ LoadInv /\ [Next]_vars => LoadInv'
<1> SUFFICES ASSUME TypeOK, LoadInv, [Next]_vars PROVE LoadInv'
  OBVIOUS
<1>0. /\ apply_toggle \in BOOLEAN /\ apply_seen \in BOOLEAN /\ loading \in BOOLEAN
      /\ word_index \in 0 .. WORDS - 1
  BY DEF TypeOK, HostTypeOK, LoaderTypeOK
<1> USE <1>0 DEF LoadInv, LoadedIsApplied, ApplySeen, LoaderIdle
<1>1. ASSUME NEW i \in Written, NEW k \in 0 .. WORDS - 1, NEW w \in Words,
             WriteWord(i, k, w)
      PROVE  LoadInv'
  BY <1>1 DEF WriteWord, Settled, loader
<1>2. ASSUME NEW i \in Indices, Select(i) PROVE LoadInv'
  BY <1>2 DEF Select, loader
<1>3. CASE Apply
  BY <1>3 DEF Apply, Settled, loader
<1>4. CASE SetEnable \/ SoftReset
  BY <1>4 DEF SetEnable, SoftReset, loader
<1>5. CASE Restart
  BY <1>5 DEF Restart, Settled, loader
<1>6. CASE AxiTick
  <2>1. CASE StartLoad
    BY <1>6, <2>1 DEF AxiTick, StartLoad, host
  <2>2. CASE LoadWord
    <3>1. /\ UNCHANGED <<apply_toggle, apply_seen, loading, bram, base_addr, applied>>
          /\ loading /\ word_index' = word_index + 1
      BY <1>6, <2>2 DEF AxiTick, LoadWord, host
    <3>2. ASSUME NEW k \in 0 .. word_index' - 1 PROVE words'[k] = applied'[k]
      BY <1>6, <2>2, <3>1, CoreAssumption
         DEF LoadWord, Fetched, TypeOK, LoaderTypeOK, Records
    <3> QED BY <3>1, <3>2
  <2>3. CASE Publish
    <3>1. Fetched = applied
      BY <2>3, FetchedIsApplied DEF Publish
    <3> QED BY <1>6, <2>3, <3>1 DEF AxiTick, Publish, host
  <2> QED BY <1>6, <2>1, <2>2, <2>3 DEF AxiTick
<1>7. CASE TxTick \/ GtDrops \/ GtRises \/ ClockStops \/ ClockResumes
  BY <1>7 DEF TxTick, GtDrops, GtRises, ClockStops, ClockResumes, host, loader
<1>8. CASE UNCHANGED vars
  BY <1>8 DEF vars, host, loader
<1> QED BY <1>1, <1>2, <1>3, <1>4, <1>5, <1>6, <1>7, <1>8 DEF Next, Command

\* Whatever the control word says during a load, the loader publishes the record
\* that was selected and stored when APPLY was made.
THEOREM LoadCorrect == Spec => []LoadedIsApplied
<1>1. Init => LoadInv
  BY InitLoad
<1>2. TypeOK /\ LoadInv /\ [Next]_vars => LoadInv'
  BY LoadStep
<1>3. LoadInv => LoadedIsApplied
  BY DEF LoadInv
<1> QED BY <1>1, <1>2, <1>3, TypeCorrect, PTL DEF Spec

-----------------------------------------------------------------------------
(* The transmitter *)

\* The host's waits are two edges of txusrclk2 and more: each is a datagram or a
\* usleep of 10 us, and an edge comes every 128 ns or sooner.  Nothing is assumed
\* of Select, of ENABLE and of the soft reset of a firmware start, which may
\* follow at once.
HostIsSlow == SETTLE >= 2

\* Nothing was captured since the last reset: nothing runs and nothing is armed.
Blank == cfg_tx = Cleared /\ engine = Idle /\ ~pending_start /\ ~engine_start

\* Not even a toggle has come through since.
PipeEmpty == ~sync_ff1 /\ ~sync_ff2 /\ ~dst_toggle /\ ~dst_pulse /\ Blank

\* An update that has not been sampled is recent, or came during a reset.
SampledInv ==
  sync_ff1 # cfg_update_toggle => PipeEmpty \/ (settle = SETTLE /\ LoaderIdle)

\* While a load is under way the host does not go on, except in its start-up.
LoadTakesTurn == ~LoaderIdle => settle = SETTLE /\ (starting \/ ~soft_reset)

\* No clock, no state.
StoppedInv == ~usrclk_runs => PipeEmpty

\* A restart's own load finds the configuration it replaces still published, and
\* the next one is an APPLY: the bit is clear.
KeptInv == /\ kept # Nothing => ~apply_toggle
           /\ starting /\ ~LoaderIdle => kept = cfg_axi

\* How far an update is, and why no soft reset meets it.
Unsampled == sync_ff1 # cfg_update_toggle /\ settle >= 2 /\ ~soft_reset
InFf1     == sync_ff1 # sync_ff2 /\ settle >= 1 /\ ~soft_reset
InFf2     == sync_ff2 # dst_toggle /\ ~soft_reset_meta
Pulsing   == dst_pulse /\ ~soft_reset_tx

\* No update is under way: it was captured, or swallowed.
Through == /\ sync_ff1 = cfg_update_toggle /\ sync_ff2 = cfg_update_toggle
           /\ dst_toggle = cfg_update_toggle /\ ~dst_pulse

\* The transmitter has what a restart replaced.  The soft reset that swallowed
\* the update has also stopped the engine, so that only a valid one runs.
Held == /\ LoaderIdle /\ cfg_tx = kept
        /\ engine # Idle => kept.valid \/ ~Through

UpdateInv == \/ cfg_tx = cfg_axi \/ Blank \/ InFf2 \/ Pulsing \/ Held
             \/ ~starting /\ (~LoaderIdle \/ Unsampled \/ InFf1)

\* The engine runs what the transmitter has, or a start will replace it.
EngineInv == \/ engine = Idle \/ pending_start \/ engine_start
             \/ ~cfg_tx.valid \/ engine = cfg_tx.words

PipeInv == /\ SampledInv /\ LoadTakesTurn /\ StoppedInv
           /\ KeptInv /\ UpdateInv /\ EngineInv

\* Nothing is no configuration.
LEMMA NothingElse == Nothing \notin Configs
<1>1. ASSUME NEW r \in Records PROVE r # Idle
  <2>1. DOMAIN r = 0 .. WORDS - 1 /\ 0 \in 0 .. WORDS - 1
    BY <1>1, CoreAssumption DEF Records
  <2>2. DOMAIN Idle = {}
    BY DEF Idle
  <2> QED BY <2>1, <2>2
<1>2. ASSUME NEW c \in Configs PROVE c.words \in Records
  BY DEF Configs
<1> QED BY <1>1, <1>2 DEF Nothing, Checked

LEMMA InitPipe == Init => PipeInv
BY CoreAssumption DEF Init, PipeInv, SampledInv, LoadTakesTurn, StoppedInv, KeptInv,
   UpdateInv, EngineInv, PipeEmpty, Blank, LoaderIdle

\* A command changes nothing for an update under way: while it is young the
\* host waits, and later no soft reset catches it, but for that of a start.
LEMMA CommandPipe == HostIsSlow /\ TypeOK /\ PipeInv /\ Command => PipeInv'
<1> SUFFICES ASSUME HostIsSlow, TypeOK, PipeInv, Command PROVE PipeInv'
  OBVIOUS
<1>1. UNCHANGED <<loader, gt, tx>>
  BY CommandType
<1>2. /\ SampledInv /\ LoadTakesTurn /\ StoppedInv /\ KeptInv /\ UpdateInv /\ EngineInv
  BY DEF PipeInv
<1>3. StoppedInv' /\ EngineInv' /\ (PipeEmpty' <=> PipeEmpty)
  BY <1>1, <1>2 DEF StoppedInv, EngineInv, PipeEmpty, Blank, gt, tx
<1>4. Settled => settle = 0 \/ PipeEmpty
  BY <1>2 DEF Settled, StoppedInv
<1>5. SETTLE >= 2 /\ SETTLE >= 1
  BY CoreAssumption DEF HostIsSlow
<1> USE DEF LoaderIdle
<1>6. CASE UNCHANGED <<apply_toggle, soft_reset, starting, kept>> /\ settle' \in {settle, SETTLE}
  BY <1>1, <1>2, <1>3, <1>5, <1>6 DEF PipeInv, SampledInv, LoadTakesTurn, KeptInv, UpdateInv,
     Blank, Unsampled, InFf1, InFf2, Pulsing, Held, Through, loader, gt, tx
<1>7. CASE Apply
  <2>1. /\ Settled /\ ~starting' /\ ~soft_reset' /\ settle' = SETTLE /\ kept' = Nothing
        /\ apply_toggle' = ~apply_toggle
        /\ UNCHANGED <<apply_seen, loading, cfg_update_toggle, sync_ff1>>
    BY <1>1, <1>7 DEF Apply, Serving, loader, tx
  <2>2. ~LoaderIdle'
    BY <2>1 DEF Settled, TypeOK, HostTypeOK, LoaderTypeOK
  <2>3. sync_ff1 # cfg_update_toggle => PipeEmpty
    BY <1>2, <1>4, <1>5, <2>1 DEF SampledInv
  <2> QED BY <1>3, <2>1, <2>2, <2>3 DEF PipeInv, SampledInv, LoadTakesTurn, KeptInv, UpdateInv
<1>8. CASE SoftReset
  <2>1. /\ UNCHANGED <<apply_toggle, kept, cfg_axi, cfg_update_toggle, apply_seen, loading>>
        /\ settle' = SETTLE /\ starting' = (starting /\ ~soft_reset)
        /\ soft_reset' = ~soft_reset
        /\ Settled \/ (starting /\ ~soft_reset)
    BY <1>1, <1>8 DEF SoftReset, loader
  <2>2. SampledInv' /\ LoadTakesTurn' /\ KeptInv'
    BY <1>1, <1>2, <1>3, <2>1 DEF SampledInv, LoadTakesTurn, KeptInv, Settled, tx
  <2>3. UpdateInv'
    BY <1>1, <1>2, <1>4, <2>1 DEF UpdateInv, Settled, PipeEmpty, Blank, Unsampled, InFf1,
       InFf2, Pulsing, Held, Through, tx
  <2> QED BY <1>3, <2>2, <2>3 DEF PipeInv
<1>9. CASE Restart
  <2>1. /\ Settled /\ apply_toggle' = FALSE /\ soft_reset' = FALSE /\ starting' = TRUE
        /\ settle' = SETTLE /\ kept' = (IF apply_toggle THEN cfg_axi ELSE kept)
        /\ UNCHANGED <<cfg_axi, cfg_update_toggle, apply_seen, loading>>
    BY <1>1, <1>9 DEF Restart, loader
  <2>2. apply_toggle \in BOOLEAN /\ apply_seen \in BOOLEAN /\ cfg_tx \in Configs
    BY DEF TypeOK, HostTypeOK, LoaderTypeOK, TxTypeOK
  <2>3. SampledInv'
    BY <1>1, <1>2, <1>3, <1>4, <1>5, <2>1 DEF SampledInv, Settled, PipeEmpty, tx
  <2>4. LoadTakesTurn' /\ KeptInv'
    BY <1>2, <2>1, <2>2 DEF LoadTakesTurn, KeptInv, Settled
  <2>5. UpdateInv'
    <3>1. CASE Held /\ apply_toggle
      BY <1>2, <2>2, <3>1, NothingElse DEF Held, KeptInv
    <3>2. CASE Held /\ ~apply_toggle
      BY <1>1, <2>1, <2>2, <3>2 DEF Held, Through, UpdateInv, tx
    <3>3. CASE cfg_tx = cfg_axi \/ Blank \/ InFf2 \/ Pulsing
      BY <1>1, <2>1, <3>3 DEF UpdateInv, Blank, InFf2, Pulsing, tx
    <3>4. CASE ~LoaderIdle \/ Unsampled \/ InFf1
      BY <1>1, <1>4, <2>1, <3>4 DEF UpdateInv, Settled, Unsampled, InFf1, PipeEmpty, Blank, tx
    <3> QED BY <1>2, <3>1, <3>2, <3>3, <3>4 DEF UpdateInv
  <2> QED BY <1>3, <2>3, <2>4, <2>5 DEF PipeInv
<1> QED BY <1>6, <1>7, <1>8, <1>9 DEF Command, WriteWord, Select, SetEnable

\* Only a publication matters: it finds the last one sampled, or the
\* transmitter blank.
LEMMA AxiPipe == HostIsSlow /\ TypeOK /\ LoadInv /\ PipeInv /\ AxiTick => PipeInv'
<1> SUFFICES ASSUME HostIsSlow, TypeOK, LoadInv, PipeInv, AxiTick PROVE PipeInv'
  OBVIOUS
<1>1. UNCHANGED <<host, settle, kept, gt, tx>> /\ ~LoaderIdle
  BY DEF AxiTick, StartLoad, LoadWord, Publish, LoaderIdle
<1>2. /\ settle = SETTLE /\ (starting \/ ~soft_reset) /\ (starting => kept = cfg_axi)
      /\ SampledInv /\ StoppedInv /\ KeptInv /\ UpdateInv /\ EngineInv
  BY <1>1 DEF PipeInv, LoadTakesTurn, KeptInv
<1>3. StoppedInv' /\ EngineInv' /\ LoadTakesTurn'
  BY <1>1, <1>2 DEF StoppedInv, EngineInv, LoadTakesTurn, PipeEmpty, Blank, host, gt, tx
<1>4. CASE StartLoad \/ LoadWord
  <2>1. UNCHANGED <<cfg_axi, cfg_update_toggle>> /\ ~LoaderIdle'
    BY <1>1, <1>4 DEF StartLoad, LoadWord, LoaderIdle, host
  <2>2. SampledInv' /\ KeptInv'
    BY <1>1, <1>2, <2>1 DEF SampledInv, KeptInv, PipeEmpty, Blank, host, tx
  <2>3. UpdateInv'
    BY <1>1, <1>2, <2>1 DEF UpdateInv, Blank, Unsampled, InFf1, InFf2, Pulsing, Held, host, tx
  <2> QED BY <1>3, <2>2, <2>3 DEF PipeInv
<1>5. CASE Publish
  <2>1. LoaderIdle' /\ cfg_update_toggle' = ~cfg_update_toggle
    BY <1>1, <1>5 DEF Publish, LoadInv, ApplySeen, LoaderIdle, host
  <2>2. SampledInv' /\ KeptInv'
    BY <1>1, <1>2, <2>1 DEF SampledInv, KeptInv, host
  <2>3. CASE sync_ff1 # cfg_update_toggle
    <3>1. Blank
      BY <1>1, <1>2, <2>3 DEF SampledInv, PipeEmpty
    <3> QED BY <1>1, <1>3, <2>2, <3>1 DEF PipeInv, UpdateInv, Blank, tx
  <2>4. CASE sync_ff1 = cfg_update_toggle
    <3>1. sync_ff1' # cfg_update_toggle'
      BY <1>1, <2>1, <2>4 DEF tx, TypeOK, LoaderTypeOK, TxTypeOK
    <3>2. CASE ~starting
      <4>1. settle' >= 2 /\ ~soft_reset' /\ ~starting'
        BY <1>1, <1>2, <3>2 DEF HostIsSlow, host
      <4> QED BY <1>3, <2>2, <3>1, <4>1 DEF PipeInv, UpdateInv, Unsampled
    <3>3. CASE starting
      <4>1. CASE cfg_tx = cfg_axi
        BY <1>1, <1>2, <1>3, <2>1, <2>2, <3>1, <3>3, <4>1
           DEF PipeInv, UpdateInv, Held, Through, tx
      <4>2. CASE Blank \/ InFf2 \/ Pulsing
        BY <1>1, <1>3, <2>2, <4>2 DEF PipeInv, UpdateInv, Blank, InFf2, Pulsing, tx
      <4> QED BY <1>1, <1>2, <3>3, <4>1, <4>2 DEF UpdateInv, Held
    <3> QED BY <3>2, <3>3
  <2> QED BY <2>3, <2>4
<1> QED BY <1>4, <1>5 DEF AxiTick

LEMMA ResetPipe == TxReset => PipeEmpty' /\ EngineInv' /\ kept' \in {Nothing, kept}
BY DEF TxReset, PipeEmpty, Blank, EngineInv

\* A reset takes a swallowed update with it, not the one still being loaded.
LEMMA ResetKept ==
  KeptInv /\ TxReset /\ UNCHANGED <<host, loader>> => KeptInv'
BY DEF TxReset, KeptInv, LoaderIdle, host, loader

\* Every edge takes the last update one stage further.
LEMMA TxPipe == HostIsSlow /\ TypeOK /\ PipeInv /\ TxTick => PipeInv'
<1> SUFFICES ASSUME HostIsSlow, TypeOK, PipeInv, TxTick PROVE PipeInv'
  OBVIOUS
<1>1. /\ UNCHANGED <<host, loader, gt>> /\ usrclk_runs
      /\ ~LoaderIdle => settle' = settle
      /\ settle >= 2 => settle' >= 1
  BY DEF TxTick, TypeOK, HostTypeOK
<1>2. UNCHANGED <<apply_toggle, soft_reset, starting, cfg_axi, cfg_update_toggle, usrclk_runs>>
      /\ (LoaderIdle' <=> LoaderIdle)
  BY <1>1 DEF host, loader, gt, LoaderIdle
<1>3. LoadTakesTurn' /\ StoppedInv'
  BY <1>1, <1>2 DEF PipeInv, LoadTakesTurn, StoppedInv
<1>4. CASE tx_rst
  <2>1. PipeEmpty' /\ EngineInv' /\ KeptInv'
    BY <1>1, <1>4, ResetPipe, ResetKept DEF TxTick, PipeInv
  <2> QED BY <1>3, <2>1 DEF PipeInv, SampledInv, UpdateInv, PipeEmpty
<1>5. CASE ~tx_rst
  <2>1. /\ Synchronise /\ Levels /\ (UnderSoftReset \/ Capture \/ Arm) /\ EngineStep
        /\ kept' = kept
    BY <1>5 DEF TxTick
  <2>2. SampledInv' /\ KeptInv'
    BY <1>2, <2>1 DEF Synchronise, SampledInv, KeptInv, PipeInv
  <2>3. EngineInv'
    <3>1. CASE UnderSoftReset
      BY <2>1, <3>1 DEF UnderSoftReset, EngineStep, Starting, EngineInv
    <3>2. CASE Capture
      BY <3>2 DEF Capture, EngineInv
    <3>3. CASE Arm
      BY <2>1, <3>3 DEF Arm, EngineStep, Starting, EngineInv, PipeInv
    <3> QED BY <2>1, <3>1, <3>2, <3>3
  <2>4. UpdateInv'
    <3>1. CASE Capture
      BY <1>2, <3>1 DEF Capture, UpdateInv
    <3>2. CASE ~Capture
      <4>1. UNCHANGED cfg_tx /\ (UnderSoftReset \/ Arm)
        BY <2>1, <3>2 DEF UnderSoftReset, Arm
      <4>2. CASE cfg_tx = cfg_axi
        BY <1>2, <4>1, <4>2 DEF UpdateInv
      <4>3. CASE Blank
        <5>1. ~pending_start' /\ ~engine_start' /\ engine' = Idle
          BY <2>1, <3>2, <4>3, CoreAssumption
             DEF Blank, UnderSoftReset, Arm, EngineStep, Starting, Cleared, Checked
        <5> QED BY <4>1, <4>3, <5>1 DEF Blank, UpdateInv
      <4>4. CASE ~starting /\ ~LoaderIdle
        BY <1>2, <4>4 DEF UpdateInv
      <4>5. CASE ~starting /\ Unsampled
        BY <1>1, <1>2, <2>1, <4>5 DEF Unsampled, InFf1, Synchronise, UpdateInv
      <4>6. CASE ~starting /\ InFf1
        BY <1>2, <2>1, <4>6 DEF InFf1, InFf2, Synchronise, Levels, UpdateInv
      <4>7. CASE InFf2
        BY <1>2, <2>1, <4>7 DEF InFf2, Pulsing, Synchronise, Levels, UpdateInv
      <4>8. CASE Pulsing
        BY <3>2, <4>1, <4>8 DEF Pulsing, UnderSoftReset, Arm
      <4>9. CASE Held
        <5>1. ASSUME engine' # Idle, ~kept.valid PROVE ~Through'
          <6>1. ~Starting /\ engine' = engine /\ ~soft_reset_tx
            BY <2>1, <4>9, <5>1 DEF EngineStep, Starting, Held
          <6>2. ~Through /\ ~dst_pulse
            BY <4>1, <4>9, <5>1, <6>1 DEF UnderSoftReset, Arm, Held
          <6> QED BY <1>2, <2>1, <6>2 DEF Through, Synchronise
        <5> QED BY <1>2, <2>1, <4>1, <4>9, <5>1 DEF Held, UpdateInv
      <4> QED BY <4>2, <4>3, <4>4, <4>5, <4>6, <4>7, <4>8, <4>9 DEF PipeInv, UpdateInv
    <3> QED BY <3>1, <3>2
  <2> QED BY <1>3, <2>2, <2>3, <2>4 DEF PipeInv
<1> QED BY <1>4, <1>5

LEMMA GtPipe ==
  PipeInv /\ (GtDrops \/ GtRises \/ ClockStops \/ ClockResumes) => PipeInv'
<1> SUFFICES ASSUME PipeInv, GtDrops \/ GtRises \/ ClockStops \/ ClockResumes
             PROVE  PipeInv'
  OBVIOUS
<1>1. /\ UNCHANGED <<host, loader>>
      /\ UNCHANGED <<apply_toggle, apply_seen, loading, soft_reset, starting, cfg_axi,
                      cfg_update_toggle>>
      /\ ~LoaderIdle => settle' = settle
  BY DEF GtDrops, GtRises, ClockStops, ClockResumes, host, loader
<1>2. LoadTakesTurn'
  BY <1>1 DEF PipeInv, LoadTakesTurn, LoaderIdle
<1>3. CASE GtDrops \/ GtRises
  BY <1>1, <1>2, <1>3 DEF GtDrops, GtRises, PipeInv, SampledInv, StoppedInv, KeptInv,
     UpdateInv, EngineInv, PipeEmpty, Blank, Unsampled, InFf1, InFf2, Pulsing, Held, Through,
     LoaderIdle, tx
<1>4. CASE ClockStops
  <2>1. KeptInv'
    BY <1>1, <1>4, ResetKept DEF ClockStops, PipeInv
  <2> QED BY <1>2, <1>4, <2>1, ResetPipe DEF ClockStops, PipeInv, SampledInv, StoppedInv,
             UpdateInv, PipeEmpty
<1>5. CASE ClockResumes
  <2>1. PipeEmpty' /\ KeptInv'
    BY <1>1, <1>5 DEF ClockResumes, PipeInv, StoppedInv, KeptInv, PipeEmpty, Blank,
       LoaderIdle, tx
  <2> QED BY <1>2, <2>1 DEF PipeInv, SampledInv, StoppedInv, UpdateInv, EngineInv,
             PipeEmpty, Blank
<1> QED BY <1>3, <1>4, <1>5

LEMMA PipeStep == HostIsSlow /\ TypeOK /\ LoadInv /\ PipeInv /\ [Next]_vars => PipeInv'
<1> SUFFICES ASSUME HostIsSlow, TypeOK, LoadInv, PipeInv, [Next]_vars PROVE PipeInv'
  OBVIOUS
<1>1. CASE Next
  BY <1>1, CommandPipe, AxiPipe, TxPipe, GtPipe DEF Next
<1>2. CASE UNCHANGED vars
  BY <1>2 DEF vars, host, loader, gt, tx, PipeInv, SampledInv, LoadTakesTurn, StoppedInv,
     KeptInv, UpdateInv, EngineInv, PipeEmpty, Blank, Unsampled, InFf1, InFf2, Pulsing, Held,
     Through, LoaderIdle
<1> QED BY <1>1, <1>2

LEMMA PipeAlways == ASSUME HostIsSlow PROVE Spec => []PipeInv
<1>1. Init => PipeInv /\ TypeOK /\ LoadInv
  BY InitPipe, InitType, InitLoad
<1>2. PipeInv /\ TypeOK /\ LoadInv /\ [Next]_vars => (PipeInv /\ TypeOK /\ LoadInv)'
  BY HostIsSlow, PipeStep, TypeStep, LoadStep
<1> QED BY <1>1, <1>2, PTL DEF Spec

\* If the host's waits last two edges of txusrclk2, the transmitter never keeps a
\* configuration older than the published one, however commands, resets, stopped
\* clocks and restarts follow each other, except after a restart that applied
\* record 0: the soft reset behind it may meet its update anywhere between the
\* loader and the capture, and then the configuration of before the restart,
\* never an older one, is what an ENABLE runs.
THEOREM NothingMissed == ASSUME HostIsSlow PROVE Spec => []CapturedIsApplied
<1>1. PipeInv => CapturedIsApplied
  BY DEF PipeInv, UpdateInv, CapturedIsApplied, Drained, Blank, Unsampled, InFf1, InFf2,
     Pulsing, Held
<1> QED BY <1>1, PipeAlways, PTL

\* Under the same assumption, and with the same exception, the engine sends the
\* published configuration and no other, once a start under way is through.
THEOREM NothingElseSent == ASSUME HostIsSlow PROVE Spec => []RunningIsApplied
<1>1. PipeInv => RunningIsApplied
  BY DEF PipeInv, UpdateInv, EngineInv, RunningIsApplied, Quiet, Drained, Blank, Unsampled,
     InFf1, InFf2, Pulsing, Held, Through
<1> QED BY <1>1, PipeAlways, PTL

-----------------------------------------------------------------------------
(* What an update takes, and what a lost one leaves *)

\* How many edges an update on its way still needs: to pass the synchroniser, to
\* be captured, to be armed and to start the engine.  The enable, which is set
\* all the time, comes through meanwhile.
NoResetSeen == /\ gt_ready_meta_tx /\ gt_ready_tx
               /\ ~soft_reset_meta /\ ~soft_reset_tx
Sampled  == NoResetSeen /\ sync_ff1 = cfg_update_toggle
Synced   == Sampled /\ sync_ff2 = cfg_update_toggle
Arrived  == Synced /\ dst_toggle = cfg_update_toggle
Captured == Arrived /\ ~dst_pulse /\ enable_meta /\ enable_tx /\ cfg_tx = cfg_axi
Due(w, n) ==
  \/ n = 5 /\ Sampled /\ dst_toggle # cfg_update_toggle /\ sync_ff2 # cfg_update_toggle
  \/ n = 4 /\ Synced /\ dst_toggle # cfg_update_toggle
  \/ n = 3 /\ Arrived /\ dst_pulse /\ enable_meta
  \/ n = 2 /\ Captured /\ pending_start /\ ~engine_start
  \/ n = 1 /\ Captured /\ engine_start
  \/ n = 0 /\ engine = w

\* Nobody takes the enable back, resets the transmitter or applies again.
LeftAlone(w) == Undisturbed(w) /\ Undisturbed(w)' /\ UNCHANGED cfg_update_toggle

LEMMA OnItsWayIsDue == ASSUME OnItsWay, NEW w PROVE Due(w, 5) \/ Due(w, 4)
BY DEF OnItsWay, Due, Sampled, Synced, NoResetSeen

LEMMA DueElsewhere ==
  ASSUME NEW w, NEW n \in 1 .. 5, Due(w, n), LeftAlone(w), [Next]_vars, ~TxTick
  PROVE  Due(w, n)'
<1>1. UNCHANGED tx /\ UNCHANGED <<cfg_axi, cfg_update_toggle>>
  <2>1. UNCHANGED <<cfg_axi, cfg_update_toggle>>
    BY DEF LeftAlone, Undisturbed
  <2>2. CASE Command
    BY <2>1, <2>2 DEF Command, WriteWord, Select, Apply, SetEnable, SoftReset, Restart
  <2>3. CASE AxiTick \/ GtDrops \/ GtRises \/ ClockResumes
    BY <2>1, <2>3 DEF AxiTick, GtDrops, GtRises, ClockResumes
  <2>4. ~ClockStops
    BY DEF LeftAlone, Undisturbed, ClockStops
  <2>5. CASE UNCHANGED vars
    BY <2>1, <2>5 DEF vars
  <2> QED  BY <2>2, <2>3, <2>4, <2>5 DEF Next
<1> QED  BY <1>1 DEF tx, Due, Sampled, Synced, Arrived, Captured, NoResetSeen

LEMMA DueEdge ==
  ASSUME TypeOK, NEW w, NEW n \in 1 .. 5, Due(w, n), LeftAlone(w), TxTick
  PROVE  Due(w, n - 1)'
<1>1. /\ NoResetSeen /\ Synchronise /\ Levels /\ ReadyFlops /\ EngineStep
      /\ UnderSoftReset \/ Capture \/ Arm
      /\ cfg_axi = [valid |-> TRUE, words |-> w] /\ enable /\ ~soft_reset /\ gt_ready_ctrl
      /\ UNCHANGED <<cfg_axi, cfg_update_toggle>>
  <2>1. NoResetSeen
    BY DEF Due, Sampled, Synced, Arrived, Captured
  <2> QED  BY <2>1 DEF NoResetSeen, TxTick, tx_rst, LeftAlone, Undisturbed
<1>2. /\ NoResetSeen' /\ sync_ff1' = cfg_update_toggle' /\ enable_meta'
      /\ enable_tx' = enable_meta /\ sync_ff2' = sync_ff1 /\ dst_toggle' = sync_ff2
      /\ dst_pulse' = (sync_ff2 # dst_toggle)
  BY <1>1 DEF NoResetSeen, Synchronise, Levels, ReadyFlops
<1>3. /\ sync_ff2 \in BOOLEAN /\ dst_toggle \in BOOLEAN /\ cfg_update_toggle \in BOOLEAN
  BY DEF TypeOK, TxTypeOK, LoaderTypeOK
<1>4. CASE n = 5
  <2>1. dst_toggle' # cfg_update_toggle' /\ sync_ff2' = cfg_update_toggle'
    BY <1>1, <1>2, <1>3, <1>4 DEF Due, Sampled
  <2> QED  BY <1>2, <1>4, <2>1 DEF Due, Synced, Sampled
<1>5. CASE n = 4
  <2>1. /\ dst_toggle' = cfg_update_toggle' /\ sync_ff2' = cfg_update_toggle'
        /\ dst_pulse' = TRUE
    BY <1>1, <1>2, <1>3, <1>5 DEF Due, Synced, Sampled
  <2> QED  BY <1>2, <1>5, <2>1 DEF Due, Arrived, Synced, Sampled
<1>6. CASE n \in {1, 2, 3}
  <2>1. Arrived /\ enable_meta
    BY <1>6 DEF Due, Captured
  <2>2. Arrived' /\ ~dst_pulse' /\ enable_meta' /\ enable_tx'
    BY <1>1, <1>2, <2>1 DEF Arrived, Synced, Sampled
  <2>3. CASE n = 3
    <3>1. cfg_tx' = cfg_axi' /\ pending_start' /\ ~engine_start'
      <4>1. ~soft_reset_tx /\ dst_pulse /\ (UnderSoftReset \/ Capture \/ Arm)
        BY <1>1, <2>3 DEF Due, NoResetSeen
      <4>2. Capture
        BY <4>1 DEF UnderSoftReset, Arm
      <4>3. cfg_axi.valid = TRUE /\ cfg_axi' = cfg_axi
        BY <1>1
      <4> QED  BY <4>2, <4>3 DEF Capture
    <3> QED  BY <2>2, <2>3, <3>1 DEF Due, Captured
  <2>4. CASE n = 2
    <3>1. cfg_tx' = cfg_axi' /\ engine_start'
      <4>1. /\ ~soft_reset_tx /\ ~dst_pulse /\ enable_tx /\ pending_start /\ cfg_tx = cfg_axi
            /\ UnderSoftReset \/ Capture \/ Arm
        BY <1>1, <2>4 DEF Due, Captured, NoResetSeen
      <4>2. Arm
        BY <4>1 DEF UnderSoftReset, Capture
      <4>3. cfg_axi' = cfg_axi
        BY <1>1
      <4> QED  BY <4>1, <4>2, <4>3 DEF Arm
    <3> QED  BY <2>2, <2>4, <3>1 DEF Due, Captured
  <2>5. CASE n = 1
    <3>1. engine' = w
      BY <1>1, <2>5 DEF Due, Captured, EngineStep, Starting, NoResetSeen
    <3> QED  BY <2>5, <3>1 DEF Due
  <2> QED  BY <1>6, <2>3, <2>4, <2>5
<1> QED  BY <1>4, <1>5, <1>6

\* An update on its way takes at most five edges of txusrclk2 to run in the
\* engine, whatever the engine was doing: every edge brings it one closer and
\* nothing else puts it back, unless the host takes back the enable or applies
\* again, or the transmitter is reset.  ApplyStartsEngine only says that it
\* gets there.
THEOREM FiveEdges ==
  Spec => [][\A w \in Legal :
               /\ OnItsWay => Due(w, 5) \/ Due(w, 4)
               /\ \A n \in 1 .. 5 :
                    Due(w, n) /\ LeftAlone(w) => IF TxTick THEN Due(w, n - 1)' ELSE Due(w, n)']_vars
<1> DEFINE A == \A w \in Legal :
                  /\ OnItsWay => Due(w, 5) \/ Due(w, 4)
                  /\ \A n \in 1 .. 5 :
                       Due(w, n) /\ LeftAlone(w) => IF TxTick THEN Due(w, n - 1)' ELSE Due(w, n)'
<1>1. TypeOK /\ [Next]_vars => A
  BY OnItsWayIsDue, DueElsewhere, DueEdge
<1> HIDE DEF A
<1>2. Spec => [][A]_vars
  BY <1>1, TypeCorrect, PTL DEF Spec
<1> QED  BY <1>2 DEF A

\* A transmitter that was reset after an even number of loads waits in vain: the
\* synchroniser restarts from zero, sees no update and captures nothing, so that
\* no ENABLE, soft reset or lock starts the engine until a record is published
\* again, although the status word shows a valid configuration.
Forgotten == PipeEmpty /\ ~cfg_update_toggle
THEOREM ForgottenStays == Spec => [][Forgotten => Forgotten' \/ Publish]_vars
<1>1. ASSUME TypeOK, Forgotten, [Next]_vars, ~Publish PROVE Forgotten'
  <2>1. UNCHANGED cfg_update_toggle
    BY <1>1 DEF Next, Command, WriteWord, Select, Apply, SetEnable, SoftReset, Restart, AxiTick,
       StartLoad, LoadWord, GtDrops, GtRises, ClockStops, ClockResumes, TxTick, vars, loader
  <2>2. CASE Command \/ AxiTick \/ GtDrops \/ GtRises \/ ClockResumes \/ UNCHANGED vars
    <3>1. UNCHANGED tx
      BY <2>2 DEF Command, WriteWord, Select, Apply, SetEnable, SoftReset, Restart, AxiTick,
         GtDrops, GtRises, ClockResumes, vars
    <3> QED  BY <1>1, <2>1, <3>1 DEF Forgotten, PipeEmpty, Blank, tx
  <2>3. CASE ClockStops \/ (TxTick /\ tx_rst)
    <3>1. PipeEmpty'
      BY <2>3, ResetPipe DEF ClockStops, TxTick
    <3> QED  BY <1>1, <2>1, <3>1 DEF Forgotten
  <2>4. CASE TxTick /\ ~tx_rst
    <3>1. Synchronise /\ (UnderSoftReset \/ Capture \/ Arm) /\ EngineStep
      BY <2>4 DEF TxTick
    <3>2. ~sync_ff1' /\ ~sync_ff2' /\ ~dst_toggle' /\ ~dst_pulse'
      <4>1. sync_ff2 = FALSE /\ dst_toggle = FALSE
        BY <1>1 DEF Forgotten, PipeEmpty, TypeOK, TxTypeOK
      <4> QED  BY <1>1, <3>1, <4>1 DEF Synchronise, Forgotten, PipeEmpty
    <3>3. Blank'
      BY <1>1, <3>1, CoreAssumption
         DEF Forgotten, PipeEmpty, Blank, UnderSoftReset, Capture, Arm, EngineStep, Starting,
             Cleared, Checked
    <3> QED  BY <1>1, <2>1, <3>2, <3>3 DEF Forgotten, PipeEmpty
  <2> QED  BY <1>1, <2>2, <2>3, <2>4 DEF Next
<1>2. TypeOK /\ [Next]_vars => (Forgotten => Forgotten' \/ Publish)
  BY <1>1
<1> QED  BY <1>2, TypeCorrect, PTL DEF Spec
=============================================================================
