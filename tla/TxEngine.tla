------------------------------ MODULE TxEngine ------------------------------
(***************************************************************************)
(* pattern_tx_engine.v: the engine that turns a pattern of 63 or 127 bits  *)
(* into a stream of 64-bit words.  A phase repeats the pattern with a gap  *)
(* after some of the repetitions; the next phase starts, in the middle of  *)
(* a word if need be, with the pattern rotated by one bit.  The engine     *)
(* works on whole words: it keeps the position of the word in its phase    *)
(* and two copies of the pattern, rotated to the phase and to the next     *)
(* bit, and selects the WORD lanes of a word in parallel.                  *)
(*                                                                         *)
(* The word width is a parameter: the engine depends on it only through    *)
(* the two pattern lengths WORD - 1 and 2 * WORD - 1.  A pattern bit is    *)
(* represented by its index in base_pattern, so a lane of a word tells     *)
(* which bit it carries, and NoBit stands for data 0 with valid_mask 0.    *)
(* sequence_active, which always equals busy, is left out.                 *)
(***************************************************************************)
EXTENDS Integers, FiniteSetsExt

CONSTANTS
  WORD,      \* lanes of a word: 64
  POS_MOD,   \* phase_pos counts modulo this: 2^40
  Configs    \* the configurations a sequence may be started with

SHORT_LEN == WORD - 1
LONG_LEN  == 2 * WORD - 1
NoBit     == -1
Lanes     == 0 .. WORD - 1
Bits      == 0 .. LONG_LEN - 1

\* What config_loader lets through: at least one repetition, and a gap that
\* starts after at most as many repetitions as there are.
LegalConfigs(maxRepeat, gaps) ==
  { c \in [len : {SHORT_LEN, LONG_LEN}, repeat : 1 .. maxRepeat,
           insert : 0 .. maxRepeat, gap : gaps,
           shift : BOOLEAN, loop : BOOLEAN] : c.insert <= c.repeat }

ASSUME EngineAssumption ==
  /\ WORD \in Nat /\ WORD >= 2
  /\ POS_MOD \in Nat /\ POS_MOD > 2 * WORD
  /\ \A c \in Configs :
       /\ c.len \in {SHORT_LEN, LONG_LEN} /\ c.repeat \in Nat \ {0}
       /\ c.insert \in 0 .. c.repeat /\ c.gap \in Nat
       /\ c.shift \in BOOLEAN /\ c.loop \in BOOLEAN
       /\ c.repeat * c.len + c.gap + WORD < POS_MOD

VARIABLES
  active,               \* the configuration captured at start
  phase_pattern,        \* the pattern rotated to the phase
  pattern_cursor,       \* the pattern rotated to the next bit
  phase_pos, phase_offset, running, phase_start_pending,
  word,                 \* txdata and valid_mask
  phase_active, phase_start_pulse, busy, done, current_state

engineState == <<active, phase_pattern, pattern_cursor, phase_pos,
                 phase_offset, running, phase_start_pending>>
engineOut   == <<word, phase_active, phase_start_pulse, busy, done, current_state>>
vars == <<engineState, engineOut>>

-----------------------------------------------------------------------------
(* Operators of the datapath *)

Least(a, b) == IF a <= b THEN a ELSE b

\* The registers captured at start.
Captured(c) ==
  [ len |-> c.len, shift |-> c.shift, loop |-> c.loop,
    phase_total |-> c.repeat * c.len + c.gap,
    gap_start   |-> c.insert * c.len,
    gap_end     |-> c.insert * c.len + c.gap,
    gap_present |-> c.gap # 0 ]

\* expanded_pattern_input: the short pattern is repeated over all the bits.
Expanded(len) == [i \in Bits |-> i % len]

Rotate_Unexpanded(s, count, len) == [i \in Bits |-> s[(count + i) % LONG_LEN]]
Rotate(s, count, len) ==
  IF len = SHORT_LEN THEN [i \in Bits |-> s[count + (i % SHORT_LEN)]]
                     ELSE [i \in Bits |-> s[(count + i) % LONG_LEN]]

phase_remaining == (active.phase_total - phase_pos) % POS_MOD
remaining_rel   == Least(WORD, phase_remaining)

last_phase_OneMore == ~active.shift \/ phase_offset = active.len
last_phase    == ~active.shift \/ phase_offset = active.len - 1
has_next_phase == active.loop \/ ~last_phase
RoundEnds_EachPhase == TRUE
RoundEnds     == last_phase /\ active.loop
next_offset   == IF last_phase THEN 0 ELSE phase_offset + 1
next_pattern  == Rotate(phase_pattern, 1, active.len)

\* The gap of the current phase, cut to the lanes of this word.  An empty
\* interval at the end of the word means that there is none.
CurrentGap_Late ==
  IF active.gap_present /\ phase_pos < active.gap_end
  THEN [from |-> Least(WORD, active.gap_start),
        to   |-> Least(WORD, active.gap_end - phase_pos)]
  ELSE [from |-> WORD, to |-> WORD]
CurrentGap ==
  IF active.gap_present /\ phase_pos < active.gap_end
  THEN [from |-> IF phase_pos >= active.gap_start THEN 0
                 ELSE Least(WORD, active.gap_start - phase_pos),
        to   |-> Least(WORD, active.gap_end - phase_pos)]
  ELSE [from |-> WORD, to |-> WORD]

\* The gap of the next phase, relative to its first bit.
NextGap ==
  IF active.gap_present /\ active.gap_start < WORD
  THEN [from |-> active.gap_start, to |-> Least(WORD, active.gap_end)]
  ELSE [from |-> WORD, to |-> WORD]

Width(gap) == gap.to - gap.from
GapBitsBefore_Ignored(position, gap) == 0
GapBitsBefore(position, gap) ==
  IF position <= gap.from THEN 0
  ELSE IF position >= gap.to THEN Width(gap)
  ELSE position - gap.from

\* One lane: a bit of the pattern, which gap lanes do not consume.
Select(pattern, pos, gap) ==
  IF pos < gap.from THEN pattern[pos]
  ELSE IF pos < gap.to THEN NoBit
  ELSE pattern[pos - Width(gap)]

txdata_calc ==
  [lane \in Lanes |->
     IF lane < remaining_rel
     THEN Select(pattern_cursor, lane, CurrentGap)
     ELSE IF has_next_phase
     THEN Select(next_pattern, lane - remaining_rel, NextGap)
     ELSE NoBit]

Blank == [lane \in Lanes |-> NoBit]

-----------------------------------------------------------------------------
Init ==
  /\ active = [len |-> SHORT_LEN, shift |-> FALSE, loop |-> FALSE,
               phase_total |-> SHORT_LEN, gap_start |-> 0, gap_end |-> 0,
               gap_present |-> FALSE]
  /\ phase_pattern = [i \in Bits |-> NoBit]
  /\ pattern_cursor = [i \in Bits |-> NoBit]
  /\ phase_pos = 0 /\ phase_offset = 0
  /\ running = FALSE /\ phase_start_pending = FALSE
  /\ word = Blank /\ phase_active = FALSE /\ phase_start_pulse = FALSE
  /\ busy = FALSE /\ done = FALSE /\ current_state = "IDLE"

Quiet ==
  word' = Blank /\ phase_active' = FALSE /\ phase_start_pulse' = FALSE

\* rst, which is tx_rst or the synchronised soft reset.
Rst ==
  /\ active' = [len |-> SHORT_LEN, shift |-> FALSE, loop |-> FALSE,
                phase_total |-> SHORT_LEN, gap_start |-> 0, gap_end |-> 0,
                gap_present |-> FALSE]
  /\ phase_pattern' = [i \in Bits |-> NoBit]
  /\ pattern_cursor' = [i \in Bits |-> NoBit]
  /\ phase_pos' = 0 /\ phase_offset' = 0
  /\ running' = FALSE /\ phase_start_pending' = FALSE
  /\ Quiet
  /\ busy' = FALSE /\ done' = FALSE /\ current_state' = "IDLE"

\* start with enable and a valid pattern, also in the middle of a sequence.
Start(c) ==
  /\ active' = Captured(c)
  /\ phase_pattern' = Expanded(c.len) /\ pattern_cursor' = Expanded(c.len)
  /\ phase_pos' = 0 /\ phase_offset' = 0
  /\ running' = TRUE /\ phase_start_pending' = TRUE
  /\ Quiet
  /\ busy' = TRUE /\ done' = FALSE /\ current_state' = "RUN"

\* enable is low: the sequence is dropped, done and the position stay.
Disabled ==
  /\ running' = FALSE
  /\ Quiet
  /\ busy' = FALSE /\ current_state' = "IDLE"
  /\ UNCHANGED <<active, phase_pattern, pattern_cursor, phase_pos,
                 phase_offset, phase_start_pending, done>>

\* The word lies within its phase.
StayInPhase_AtBoundary ==
  /\ phase_remaining >= WORD
  /\ phase_pos' = (phase_pos + WORD) % POS_MOD
  /\ pattern_cursor' = Rotate(pattern_cursor, WORD - Width(CurrentGap), active.len)
  /\ phase_start_pending' = FALSE
  /\ UNCHANGED <<phase_offset, phase_pattern, running, done>>
StayInPhase ==
  /\ phase_remaining > WORD
  /\ phase_pos' = (phase_pos + WORD) % POS_MOD
  /\ pattern_cursor' = Rotate(pattern_cursor, WORD - Width(CurrentGap), active.len)
  /\ phase_start_pending' = FALSE
  /\ UNCHANGED <<phase_offset, phase_pattern, running, done>>

\* The word ends its phase, and the next one starts with it or after it.
EnterNextPhase ==
  /\ phase_remaining <= WORD /\ has_next_phase
  /\ phase_offset' = next_offset
  /\ phase_pattern' = next_pattern
  /\ done' = (done \/ RoundEnds)
  /\ LET consumed == WORD - remaining_rel
         valid    == consumed - GapBitsBefore(consumed, NextGap)
     IN  /\ phase_pos' = consumed
         /\ pattern_cursor' = Rotate(next_pattern, valid, active.len)
  /\ phase_start_pending' = (phase_remaining = WORD)
  /\ UNCHANGED running

EndSequence ==
  /\ phase_remaining <= WORD /\ ~has_next_phase
  /\ running' = FALSE /\ done' = TRUE
  /\ phase_start_pending' = FALSE
  /\ UNCHANGED <<phase_pos, phase_offset, phase_pattern, pattern_cursor>>

\* One word of a running sequence.
RunWord ==
  /\ running
  /\ word' = txdata_calc
  /\ phase_start_pulse' =
       (phase_start_pending \/ (phase_remaining < WORD /\ has_next_phase))
  /\ phase_active' = TRUE /\ busy' = TRUE /\ current_state' = "RUN"
  /\ (StayInPhase \/ EnterNextPhase \/ EndSequence)
  /\ UNCHANGED active

\* Enabled, and nothing to send.
Idle ==
  /\ ~running
  /\ Quiet
  /\ busy' = FALSE
  /\ current_state' = IF done THEN "DONE" ELSE "IDLE"
  /\ UNCHANGED <<engineState, done>>

Next == Rst \/ (\E c \in Configs : Start(c)) \/ Disabled \/ RunWord \/ Idle

\* Fairness: txusrclk2 runs while the engine is out of reset, and start is a
\* pulse, so a running sequence gets its next word.
Spec == Init /\ [][Next]_vars /\ WF_vars(RunWord)

-----------------------------------------------------------------------------
(* Properties *)

TypeOK ==
  /\ active.len \in {SHORT_LEN, LONG_LEN}
  /\ phase_pattern \in [Bits -> Bits \cup {NoBit}]
  /\ pattern_cursor \in [Bits -> Bits \cup {NoBit}]
  /\ phase_pos \in 0 .. POS_MOD - 1
  /\ phase_offset \in 0 .. active.len - 1
  /\ word \in [Lanes -> Bits \cup {NoBit}]
  /\ running \in BOOLEAN /\ phase_start_pending \in BOOLEAN
  /\ phase_active \in BOOLEAN /\ phase_start_pulse \in BOOLEAN
  /\ busy \in BOOLEAN /\ done \in BOOLEAN
  /\ current_state \in {"IDLE", "RUN", "DONE"}

\* "One 64-bit word can cross at most one phase boundary": a word never starts
\* beyond the end of its phase.
PositionInPhase == running => phase_pos < active.phase_total

\* What the rate controller takes for an idle transmitter.
laser_idle == ~busy \/ done

\* Whenever the transmitter looks idle to the rate controller, a sequence that
\* ends has ended: no word of it is cut off by the resets that follow.
IdleMeansSent == laser_idle /\ ~active.loop => ~running

\* "txdata[i] = base_pattern[(phase_offset + bit_idx) mod pattern_len]": the
\* pattern of a phase is the base pattern rotated by phase_offset.
PhasePatternAtOffset ==
  running => \A i \in Bits : phase_pattern[i] = (phase_offset + i) % active.len
=============================================================================
