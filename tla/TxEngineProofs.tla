--------------------------- MODULE TxEngineProofs ---------------------------
(***************************************************************************)
(* What the transmit engine guarantees for every word width, every width   *)
(* of the position counter and every set of configurations.                *)
(***************************************************************************)
EXTENDS TxEngine, TLAPS

\* A number below the modulus is its own remainder.
LEMMA SmallRemainder ==
  ASSUME NEW n \in Nat, NEW m \in Nat, n < m
  PROVE  n % m = n
  BY SMT

LEMMA RemainderRange ==
  ASSUME NEW n \in Int, NEW m \in Nat, m > 0
  PROVE  n % m \in 0 .. m - 1
  BY SMT

-----------------------------------------------------------------------------
(* IdleMeansSent: a running sequence is busy, and done only in a loop. *)

RunningIsBusy == running => busy /\ (done => active.loop)

\* Whatever the configurations, the transmitter never looks idle to the rate
\* controller while a sequence that ends is still being sent.
THEOREM SentBeforeIdle == Spec => []IdleMeansSent
<1>1. Init => RunningIsBusy
  BY DEF Init, RunningIsBusy
<1>2. RunningIsBusy /\ [Next]_vars => RunningIsBusy'
  <2> SUFFICES ASSUME RunningIsBusy, [Next]_vars PROVE RunningIsBusy'
    OBVIOUS
  <2>1. CASE Rst  BY <2>1 DEF Rst, RunningIsBusy
  <2>2. ASSUME NEW c \in Configs, Start(c) PROVE RunningIsBusy'
    BY <2>2 DEF Start, RunningIsBusy
  <2>3. CASE Disabled  BY <2>3 DEF Disabled, RunningIsBusy
  <2>4. CASE RunWord
    <3>1. running /\ busy' /\ active' = active  BY <2>4 DEF RunWord
    <3>2. CASE StayInPhase
      BY <3>1, <3>2, Zenon DEF StayInPhase, RunningIsBusy
    <3>3. CASE EnterNextPhase
      BY <3>1, <3>3, Zenon DEF EnterNextPhase, RunningIsBusy, RoundEnds
    <3>4. CASE EndSequence
      BY <3>4, Zenon DEF EndSequence, RunningIsBusy
    <3> QED  BY <2>4, <3>2, <3>3, <3>4, Zenon DEF RunWord
  <2>5. CASE Idle  BY <2>5 DEF Idle, engineState, RunningIsBusy
  <2>6. CASE UNCHANGED vars
    BY <2>6 DEF vars, engineState, engineOut, RunningIsBusy
  <2> QED  BY <2>1, <2>2, <2>3, <2>4, <2>5, <2>6 DEF Next
<1>3. RunningIsBusy => IdleMeansSent
  BY DEF RunningIsBusy, IdleMeansSent, laser_idle
<1> QED  BY <1>1, <1>2, <1>3, PTL DEF Spec

-----------------------------------------------------------------------------
(* TypeOK: every lane of every word selects a bit that exists. *)

PatternBits == Bits \cup {NoBit}
PatternOK   == phase_pattern \in [Bits -> PatternBits] /\ pattern_cursor \in [Bits -> PatternBits]
PositionOK  == phase_pos \in 0 .. POS_MOD - 1 /\ phase_offset \in 0 .. active.len - 1
FlagsOK     == /\ running \in BOOLEAN /\ phase_start_pending \in BOOLEAN
               /\ phase_active \in BOOLEAN /\ phase_start_pulse \in BOOLEAN
               /\ busy \in BOOLEAN /\ done \in BOOLEAN
               /\ current_state \in {"IDLE", "RUN", "DONE"}
WordOK      == word \in [Lanes -> PatternBits]

\* The captured gap is an interval of the phase.
ActiveOK == /\ active.len \in {SHORT_LEN, LONG_LEN}
            /\ active.phase_total \in Nat
            /\ active.gap_start \in Nat /\ active.gap_end \in Nat
            /\ active.gap_start <= active.gap_end

TypeInv == PatternOK /\ PositionOK /\ FlagsOK /\ WordOK /\ ActiveOK

LEMMA Lengths == /\ WORD \in Nat /\ WORD >= 2 /\ POS_MOD \in Nat /\ POS_MOD > 2 * WORD
                 /\ SHORT_LEN = WORD - 1 /\ LONG_LEN = 2 * WORD - 1
  BY EngineAssumption DEF SHORT_LEN, LONG_LEN

LEMMA CapturedOK ==
  ASSUME NEW c \in Configs
  PROVE  /\ Captured(c).len \in {SHORT_LEN, LONG_LEN}
         /\ Captured(c).phase_total \in Nat
         /\ Captured(c).gap_start \in Nat /\ Captured(c).gap_end \in Nat
         /\ Captured(c).gap_start <= Captured(c).gap_end
<1> DEFINE bits == c.repeat * c.len
           gap  == c.insert * c.len
<1>1. c.len \in {SHORT_LEN, LONG_LEN} /\ c.repeat \in Nat /\ c.insert \in 0 .. c.repeat
      /\ c.gap \in Nat
  BY EngineAssumption
<1>2. c.len \in Nat /\ c.insert \in Nat  BY <1>1, Lengths, SMT
<1>3. bits \in Nat /\ gap \in Nat  BY <1>1, <1>2, SMT
<1>4. /\ Captured(c).len = c.len /\ Captured(c).phase_total = bits + c.gap
      /\ Captured(c).gap_start = gap /\ Captured(c).gap_end = gap + c.gap
  BY DEF Captured
<1> HIDE DEF bits, gap
<1> QED  BY <1>1, <1>3, <1>4, SMT

LEMMA RotateType ==
  ASSUME NEW s \in [Bits -> PatternBits], NEW count \in 0 .. WORD,
         NEW len \in {SHORT_LEN, LONG_LEN}
  PROVE  Rotate(s, count, len) \in [Bits -> PatternBits]
<1>1. CASE len = SHORT_LEN
  <2>1. ASSUME NEW i \in Bits PROVE count + (i % SHORT_LEN) \in Bits
    <3>1. i \in Int /\ SHORT_LEN \in Nat /\ SHORT_LEN > 0  BY Lengths, SMT DEF Bits
    <3>2. i % SHORT_LEN \in 0 .. SHORT_LEN - 1  BY <3>1, RemainderRange
    <3> HIDE DEF Bits
    <3>3. count + (i % SHORT_LEN) \in 0 .. LONG_LEN - 1
      BY <3>2, Lengths, SMT
    <3> QED  BY <3>3 DEF Bits
  <2> QED  BY <1>1, <2>1 DEF Rotate
<1>2. CASE len # SHORT_LEN
  <2>1. ASSUME NEW i \in Bits PROVE (count + i) % LONG_LEN \in Bits
    <3>1. count + i \in Int /\ LONG_LEN \in Nat /\ LONG_LEN > 0
      BY Lengths, SMT DEF Bits
    <3> QED  BY <3>1, RemainderRange DEF Bits
  <2> QED  BY <1>2, <2>1 DEF Rotate
<1> QED  BY <1>1, <1>2

\* A gap cut to a word.
GapInWord(gap) == gap.from \in 0 .. WORD /\ gap.to \in 0 .. WORD /\ gap.from <= gap.to

LEMMA CurrentGapInWord == ASSUME TypeInv PROVE GapInWord(CurrentGap)
<1> DEFINE gs == active.gap_start
           ge == active.gap_end
<1>1. gs \in Nat /\ ge \in Nat /\ gs <= ge /\ phase_pos \in Nat
  BY Lengths DEF TypeInv, ActiveOK, PositionOK
<1>2. CurrentGap.from =
        (IF active.gap_present /\ phase_pos < ge
         THEN IF phase_pos >= gs THEN 0 ELSE Least(WORD, gs - phase_pos)
         ELSE WORD)
  BY DEF CurrentGap
<1>3. CurrentGap.to =
        (IF active.gap_present /\ phase_pos < ge THEN Least(WORD, ge - phase_pos) ELSE WORD)
  BY DEF CurrentGap
<1> HIDE DEF gs, ge
<1>4. CASE active.gap_present /\ phase_pos < ge
  <2>1. /\ CurrentGap.from = IF phase_pos >= gs THEN 0 ELSE Least(WORD, gs - phase_pos)
        /\ CurrentGap.to = Least(WORD, ge - phase_pos)
    BY <1>2, <1>3, <1>4
  <2> QED  BY <2>1, <1>1, <1>4, Lengths, SMT DEF GapInWord, Least
<1>5. CASE ~(active.gap_present /\ phase_pos < ge)
  <2>1. CurrentGap.from = WORD /\ CurrentGap.to = WORD  BY <1>2, <1>3, <1>5
  <2> QED  BY <2>1, Lengths, SMT DEF GapInWord
<1> QED  BY <1>4, <1>5

LEMMA NextGapInWord == ASSUME TypeInv PROVE GapInWord(NextGap)
<1> DEFINE gs == active.gap_start
           ge == active.gap_end
<1>1. gs \in Nat /\ ge \in Nat /\ gs <= ge  BY DEF TypeInv, ActiveOK
<1>2. NextGap.from = (IF active.gap_present /\ gs < WORD THEN gs ELSE WORD)
  BY DEF NextGap
<1>3. NextGap.to = (IF active.gap_present /\ gs < WORD THEN Least(WORD, ge) ELSE WORD)
  BY DEF NextGap
<1> HIDE DEF gs, ge
<1>4. CASE active.gap_present /\ gs < WORD
  <2>1. NextGap.from = gs /\ NextGap.to = Least(WORD, ge)  BY <1>2, <1>3, <1>4
  <2> QED  BY <2>1, <1>1, <1>4, Lengths, SMT DEF GapInWord, Least
<1>5. CASE ~(active.gap_present /\ gs < WORD)
  <2>1. NextGap.from = WORD /\ NextGap.to = WORD  BY <1>2, <1>3, <1>5
  <2> QED  BY <2>1, Lengths, SMT DEF GapInWord
<1> QED  BY <1>4, <1>5

LEMMA SelectType ==
  ASSUME NEW pattern \in [Bits -> PatternBits], NEW pos \in 0 .. WORD - 1,
         NEW gap, GapInWord(gap)
  PROVE  Select(pattern, pos, gap) \in PatternBits
<1>1. CASE pos < gap.from
  <2>1. pos \in Bits  BY Lengths, SMT DEF Bits
  <2> QED  BY <1>1, <2>1 DEF Select
<1>2. CASE pos >= gap.from /\ pos < gap.to
  BY <1>2, SMT DEF Select, GapInWord, PatternBits
<1>3. CASE pos >= gap.to
  <2>1. pos - Width(gap) \in 0 .. LONG_LEN - 1
    BY <1>3, Lengths, SMT DEF Width, GapInWord
  <2>2. Select(pattern, pos, gap) = pattern[pos - Width(gap)]
    BY <1>3, SMT DEF Select, GapInWord
  <2> QED  BY <2>1, <2>2 DEF Bits
<1> QED  BY <1>1, <1>2, <1>3, SMT DEF GapInWord

LEMMA RemainingType == ASSUME TypeInv
                       PROVE phase_remaining \in 0 .. POS_MOD - 1 /\ remaining_rel \in 0 .. WORD
<1> DEFINE left == active.phase_total - phase_pos
<1>1. left \in Int  BY Lengths, SMT DEF TypeInv, ActiveOK, PositionOK
<1> HIDE DEF left
<1>2. left % POS_MOD \in 0 .. POS_MOD - 1  BY <1>1, Lengths, RemainderRange
<1>3. phase_remaining \in 0 .. POS_MOD - 1  BY <1>2 DEF phase_remaining, left
<1> QED  BY <1>3, Lengths, SMT DEF remaining_rel, Least

LEMMA NextPatternType == ASSUME TypeInv PROVE next_pattern \in [Bits -> PatternBits]
<1>1. 1 \in 0 .. WORD  BY Lengths, SMT
<1> QED  BY <1>1, RotateType DEF next_pattern, TypeInv, PatternOK, ActiveOK

LEMMA WordType == ASSUME TypeInv PROVE txdata_calc \in [Lanes -> PatternBits]
<1> SUFFICES ASSUME NEW lane \in Lanes
             PROVE  (IF lane < remaining_rel
                     THEN Select(pattern_cursor, lane, CurrentGap)
                     ELSE IF has_next_phase
                     THEN Select(next_pattern, lane - remaining_rel, NextGap)
                     ELSE NoBit) \in PatternBits
  BY DEF txdata_calc
<1>1. lane \in 0 .. WORD - 1  BY DEF Lanes
<1>2. Select(pattern_cursor, lane, CurrentGap) \in PatternBits
  BY <1>1, SelectType, CurrentGapInWord DEF TypeInv, PatternOK
<1>3. CASE ~(lane < remaining_rel)
  <2>1. lane - remaining_rel \in 0 .. WORD - 1
    BY <1>1, <1>3, RemainingType, Lengths, SMT
  <2>2. Select(next_pattern, lane - remaining_rel, NextGap) \in PatternBits
    BY <2>1, SelectType, NextGapInWord, NextPatternType
  <2> QED  BY <1>3, <2>2 DEF PatternBits
<1> QED  BY <1>2, <1>3

LEMMA TypeInit == Init => TypeInv
<1> SUFFICES ASSUME Init PROVE TypeInv  OBVIOUS
<1>1. PatternOK  BY DEF Init, PatternOK, PatternBits
<1>2. PositionOK  BY Lengths, SMT DEF Init, PositionOK
<1>3. FlagsOK  BY DEF Init, FlagsOK
<1>4. WordOK  BY DEF Init, WordOK, Blank, PatternBits
<1>5. ActiveOK  BY Lengths, SMT DEF Init, ActiveOK
<1> QED  BY <1>1, <1>2, <1>3, <1>4, <1>5 DEF TypeInv

LEMMA RunWordType == ASSUME TypeInv, RunWord PROVE TypeInv'
<1>1. active' = active /\ word' = txdata_calc  BY DEF RunWord
<1>2. WordOK' /\ ActiveOK'
  BY <1>1, WordType DEF WordOK, ActiveOK, TypeInv
<1>3. phase_active' = TRUE /\ busy' = TRUE /\ current_state' = "RUN"
      /\ phase_start_pulse' \in BOOLEAN
  BY Zenon DEF RunWord, TypeInv, FlagsOK
<1>4. active.len \in {SHORT_LEN, LONG_LEN} /\ phase_pos \in 0 .. POS_MOD - 1
      /\ phase_offset \in 0 .. active.len - 1
  BY DEF TypeInv, ActiveOK, PositionOK
<1>5. running \in BOOLEAN /\ done \in BOOLEAN  BY DEF TypeInv, FlagsOK
<1>6. CASE StayInPhase
  <2>1. PatternOK'
    <3>1. WORD - Width(CurrentGap) \in 0 .. WORD
      BY CurrentGapInWord, Lengths, SMT DEF GapInWord, Width
    <3> QED  BY <1>6, <1>4, <3>1, RotateType DEF StayInPhase, PatternOK, TypeInv
  <2>2. PositionOK'
    <3>1. phase_pos + WORD \in Int  BY <1>4, Lengths, SMT
    <3>2. phase_pos' \in 0 .. POS_MOD - 1
      BY <1>6, <3>1, Lengths, RemainderRange DEF StayInPhase
    <3> QED  BY <1>1, <1>4, <1>6, <3>2 DEF StayInPhase, PositionOK
  <2>3. FlagsOK'  BY <1>3, <1>5, <1>6, Zenon DEF StayInPhase, FlagsOK
  <2> QED  BY <1>2, <2>1, <2>2, <2>3 DEF TypeInv
<1>7. CASE EnterNextPhase
  <2> DEFINE consumed == WORD - remaining_rel
             before   == GapBitsBefore(consumed, NextGap)
  <2>1. consumed \in 0 .. WORD  BY RemainingType, Lengths, SMT
  <2>2. /\ phase_pattern' = next_pattern /\ phase_pos' = consumed
        /\ pattern_cursor' = Rotate(next_pattern, consumed - before, active.len)
        /\ phase_offset' = next_offset
    BY <1>7 DEF EnterNextPhase
  <2> HIDE DEF consumed
  <2>3. consumed - before \in 0 .. WORD
    BY <2>1, NextGapInWord, Lengths, SMT DEF GapBitsBefore, Width, GapInWord
  <2> HIDE DEF before
  <2>4. PatternOK'
    BY <1>4, <2>2, <2>3, RotateType, NextPatternType DEF PatternOK
  <2>5. PositionOK'
    <3>1. next_offset \in 0 .. active.len - 1
      <4>1. CASE last_phase
        <5>1. next_offset = 0  BY <4>1 DEF next_offset
        <5> QED  BY <5>1, <1>4, Lengths, SMT
      <4>2. CASE ~last_phase
        <5>1. next_offset = phase_offset + 1 /\ phase_offset # active.len - 1
          BY <4>2, Zenon DEF next_offset, last_phase
        <5> QED  BY <5>1, <1>4, Lengths, SMT
      <4> QED  BY <4>1, <4>2
    <3>2. phase_pos' \in 0 .. POS_MOD - 1  BY <2>1, <2>2, Lengths, SMT
    <3> QED  BY <1>1, <2>2, <3>1, <3>2 DEF PositionOK
  <2>6. FlagsOK'
    <3>1. done' \in BOOLEAN /\ phase_start_pending' \in BOOLEAN /\ running' = running
      BY <1>7, Zenon DEF EnterNextPhase
    <3> QED  BY <1>3, <1>5, <3>1, Zenon DEF FlagsOK
  <2> QED  BY <1>2, <2>4, <2>5, <2>6 DEF TypeInv
<1>8. CASE EndSequence
  <2>1. PatternOK' /\ PositionOK'
    BY <1>1, <1>8 DEF EndSequence, PatternOK, PositionOK, TypeInv
  <2>2. FlagsOK'  BY <1>3, <1>8, Zenon DEF EndSequence, FlagsOK
  <2> QED  BY <1>2, <2>1, <2>2 DEF TypeInv
<1> QED  BY <1>6, <1>7, <1>8 DEF RunWord

LEMMA TypeStep == ASSUME TypeInv, [Next]_vars PROVE TypeInv'
<1>1. CASE Rst
  <2>1. PatternOK'  BY <1>1 DEF Rst, PatternOK, PatternBits
  <2>2. PositionOK'  BY <1>1, Lengths, SMT DEF Rst, PositionOK
  <2>3. FlagsOK'  BY <1>1 DEF Rst, Quiet, FlagsOK
  <2>4. WordOK'  BY <1>1 DEF Rst, Quiet, WordOK, Blank, PatternBits
  <2>5. ActiveOK'  BY <1>1, Lengths, SMT DEF Rst, ActiveOK
  <2> QED  BY <2>1, <2>2, <2>3, <2>4, <2>5 DEF TypeInv
<1>2. ASSUME NEW c \in Configs, Start(c) PROVE TypeInv'
  <2>1. c.len \in {SHORT_LEN, LONG_LEN}  BY EngineAssumption
  <2>2. PatternOK'
    <3>1. ASSUME NEW i \in Bits PROVE i % c.len \in PatternBits
      <4>1. i \in Int /\ c.len \in Nat /\ c.len > 0
        BY <2>1, Lengths, SMT DEF Bits
      <4>2. i % c.len \in 0 .. c.len - 1  BY <4>1, RemainderRange
      <4>3. 0 .. c.len - 1 \subseteq 0 .. LONG_LEN - 1  BY <2>1, Lengths, SMT
      <4> QED  BY <4>2, <4>3 DEF Bits, PatternBits
    <3>2. Expanded(c.len) \in [Bits -> PatternBits]  BY <3>1 DEF Expanded
    <3> QED  BY <1>2, <3>2 DEF Start, PatternOK
  <2>3. ActiveOK'
    <3>1. active' = Captured(c)  BY <1>2 DEF Start
    <3> QED  BY <3>1, CapturedOK DEF ActiveOK
  <2>4. PositionOK'
    <3>1. active'.len \in {SHORT_LEN, LONG_LEN}  BY <2>3 DEF ActiveOK
    <3>2. phase_pos' = 0 /\ phase_offset' = 0  BY <1>2 DEF Start
    <3> QED  BY <3>1, <3>2, Lengths, SMT DEF PositionOK
  <2>5. FlagsOK'  BY <1>2 DEF Start, Quiet, FlagsOK
  <2>6. WordOK'  BY <1>2 DEF Start, Quiet, WordOK, Blank, PatternBits
  <2> QED  BY <2>2, <2>3, <2>4, <2>5, <2>6 DEF TypeInv
<1>3. CASE Disabled
  <2>1. PatternOK' /\ PositionOK' /\ ActiveOK'
    BY <1>3 DEF Disabled, PatternOK, PositionOK, ActiveOK, TypeInv
  <2>2. FlagsOK'  BY <1>3 DEF Disabled, Quiet, FlagsOK, TypeInv
  <2>3. WordOK'  BY <1>3 DEF Disabled, Quiet, WordOK, Blank, PatternBits
  <2> QED  BY <2>1, <2>2, <2>3 DEF TypeInv
<1>4. CASE RunWord  BY <1>4, RunWordType
<1>5. CASE Idle
  <2>1. PatternOK' /\ PositionOK' /\ ActiveOK'
    BY <1>5 DEF Idle, engineState, PatternOK, PositionOK, ActiveOK, TypeInv
  <2>2. FlagsOK'
    BY <1>5 DEF Idle, engineState, Quiet, FlagsOK, TypeInv
  <2>3. WordOK'  BY <1>5 DEF Idle, Quiet, WordOK, Blank, PatternBits
  <2> QED  BY <2>1, <2>2, <2>3 DEF TypeInv
<1>6. CASE UNCHANGED vars
  BY <1>6 DEF vars, engineState, engineOut, TypeInv, PatternOK, PositionOK,
              FlagsOK, WordOK, ActiveOK
<1> QED  BY <1>1, <1>2, <1>3, <1>4, <1>5, <1>6 DEF Next

\* At every alignment of word, phase and gap the registers stay in their types:
\* no rotation or lane select reads beyond the pattern.
THEOREM TypeCorrect == Spec => []TypeOK
<1>1. TypeInv => TypeOK
  BY DEF TypeInv, TypeOK, PatternOK, PositionOK, FlagsOK, WordOK, ActiveOK, PatternBits
<1> QED  BY <1>1, TypeInit, TypeStep, PTL DEF Spec

-----------------------------------------------------------------------------
(* PositionInPhase, for loops over phases of at least one word. *)

\* Loops over the shortest phase, WORD - 1 bits, are excluded.  A sequence over
\* it that ends is not: it has fewer phases than it takes to drift out of one.
LoopsFillAWord == \A c \in Configs : c.loop => c.repeat * c.len + c.gap >= WORD

\* The captured phase is that of a configuration, and the word starts in it.
\* In the shortest phase each word drifts by a bit, and each rotates by one.
PositionInv ==
  running => /\ active.phase_total \in WORD - 1 .. POS_MOD - WORD - 1
             /\ phase_pos \in 0 .. active.phase_total - 1
             /\ active.phase_total = WORD - 1 =>
                  ~active.loop /\ active.len = WORD - 1 /\ phase_pos = phase_offset

LEMMA ConfigTotal ==
  ASSUME LoopsFillAWord, NEW c \in Configs
  PROVE  /\ Captured(c).phase_total \in WORD - 1 .. POS_MOD - WORD - 1
         /\ Captured(c).phase_total = WORD - 1 => ~Captured(c).loop /\ Captured(c).len = WORD - 1
<1> DEFINE bits == c.repeat * c.len
<1>1. /\ c.len \in {WORD - 1, 2 * WORD - 1} /\ c.len \in Nat
      /\ c.repeat \in Nat \ {0} /\ c.gap \in Nat
  BY EngineAssumption, SMT DEF SHORT_LEN, LONG_LEN
<1>2. bits \in Nat /\ bits >= c.len  BY <1>1, SMT
<1>3. bits + c.gap + WORD < POS_MOD /\ (c.loop => bits + c.gap >= WORD)
  BY EngineAssumption DEF LoopsFillAWord
<1>4. /\ Captured(c).phase_total = bits + c.gap
      /\ Captured(c).loop = c.loop /\ Captured(c).len = c.len
  BY DEF Captured
<1> HIDE DEF bits
<1>5. bits + c.gap \in WORD - 1 .. POS_MOD - WORD - 1
  BY <1>1, <1>2, <1>3, Lengths, SMT
<1>6. ASSUME bits + c.gap = WORD - 1 PROVE ~c.loop /\ c.len = WORD - 1
  BY <1>1, <1>2, <1>3, <1>6, Lengths, SMT
<1> QED  BY <1>4, <1>5, <1>6

\* The words of a phase: what remains of it is counted without wrapping.
LEMMA Remaining ==
  ASSUME PositionInv, running
  PROVE  /\ phase_remaining = active.phase_total - phase_pos
         /\ phase_remaining \in 1 .. POS_MOD - WORD - 1
<1> DEFINE total == active.phase_total
<1>1. total \in WORD - 1 .. POS_MOD - WORD - 1 /\ phase_pos \in 0 .. total - 1
  BY DEF PositionInv
<1> HIDE DEF total
<1>2. total - phase_pos \in Nat /\ total - phase_pos < POS_MOD /\ POS_MOD \in Nat
  BY <1>1, EngineAssumption, SMT
<1>3. (total - phase_pos) % POS_MOD = total - phase_pos
  BY <1>2, SmallRemainder
<1>4. total - phase_pos \in 1 .. POS_MOD - WORD - 1
  BY <1>1, EngineAssumption, SMT
<1> QED  BY <1>3, <1>4 DEF phase_remaining, total

LEMMA StayPosition ==
  ASSUME PositionInv, running, StayInPhase
  PROVE  /\ phase_pos' = phase_pos + WORD
         /\ active.phase_total > WORD /\ phase_pos' \in 0 .. active.phase_total - 1
<1> DEFINE total == active.phase_total
<1>1. total \in WORD - 1 .. POS_MOD - WORD - 1 /\ phase_pos \in 0 .. total - 1
  BY DEF PositionInv
<1>2. phase_remaining = total - phase_pos
  BY Remaining
<1>3. phase_remaining > WORD /\ phase_pos' = (phase_pos + WORD) % POS_MOD
  BY DEF StayInPhase
<1> HIDE DEF total
<1>4. /\ phase_pos + WORD \in Nat /\ phase_pos + WORD < total
      /\ phase_pos + WORD < POS_MOD /\ POS_MOD \in Nat
  BY <1>1, <1>2, <1>3, EngineAssumption, SMT
<1>5. phase_pos' = phase_pos + WORD  BY <1>3, <1>4, SmallRemainder
<1>6. total > WORD /\ phase_pos' \in 0 .. total - 1
  BY <1>4, <1>5, <1>1, EngineAssumption, SMT
<1> QED  BY <1>5, <1>6 DEF total

LEMMA NextPosition ==
  ASSUME TypeInv, PositionInv, running, EnterNextPhase
  PROVE  /\ remaining_rel = active.phase_total - phase_pos
         /\ phase_pos' = phase_pos + WORD - active.phase_total
         /\ phase_pos' \in 0 .. active.phase_total - 1
         /\ active.phase_total = WORD - 1 => phase_pos' = phase_offset'
<1> DEFINE total == active.phase_total
<1>1. total \in WORD - 1 .. POS_MOD - WORD - 1 /\ phase_pos \in 0 .. total - 1
  BY DEF PositionInv
<1>2. phase_remaining = total - phase_pos
  BY Remaining
<1>3. phase_remaining <= WORD /\ phase_pos' = WORD - remaining_rel
  BY DEF EnterNextPhase
<1>4. total = WORD - 1 => ~active.loop /\ active.len = total /\ phase_pos = phase_offset
  BY DEF PositionInv
<1>5. phase_offset \in 0 .. active.len - 1
  BY DEF TypeInv, PositionOK
<1>6. total = WORD - 1 => phase_offset' = phase_offset + 1 /\ phase_offset # active.len - 1
  <2> SUFFICES ASSUME total = WORD - 1
               PROVE  phase_offset' = phase_offset + 1 /\ phase_offset # active.len - 1
    OBVIOUS
  <2>1. ~last_phase /\ phase_offset' = next_offset
    BY <1>4 DEF EnterNextPhase, has_next_phase
  <2> QED  BY <2>1, Zenon DEF last_phase, next_offset
<1> HIDE DEF total
<1>7. remaining_rel = phase_remaining
  BY <1>1, <1>2, <1>3, EngineAssumption, SMT DEF remaining_rel, Least
<1>8. phase_pos' = phase_pos + WORD - total
  BY <1>1, <1>2, <1>3, <1>7, EngineAssumption, SMT
<1>9. CASE total = WORD - 1
  BY <1>1, <1>2, <1>4, <1>5, <1>6, <1>7, <1>8, <1>9, EngineAssumption, SMT DEF total
<1>10. CASE total # WORD - 1
  <2>1. total >= WORD  BY <1>1, <1>10, EngineAssumption, SMT
  <2> QED  BY <1>1, <1>2, <1>3, <1>7, <1>8, <2>1, <1>10, EngineAssumption, SMT DEF total
<1> QED  BY <1>9, <1>10

LEMMA PositionStep ==
  ASSUME LoopsFillAWord, TypeInv, PositionInv, [Next]_vars PROVE PositionInv'
<1>1. CASE Rst  BY <1>1 DEF Rst, PositionInv
<1>2. ASSUME NEW c \in Configs, Start(c) PROVE PositionInv'
  <2>1. active' = Captured(c) /\ phase_pos' = 0 /\ phase_offset' = 0
    BY <1>2 DEF Start
  <2> DEFINE total == active'.phase_total
  <2>2. /\ total \in WORD - 1 .. POS_MOD - WORD - 1
        /\ total = WORD - 1 => ~active'.loop /\ active'.len = WORD - 1
    BY <2>1, ConfigTotal
  <2> HIDE DEF total
  <2>3. phase_pos' \in 0 .. total - 1
    BY <2>1, <2>2, Lengths, SMT
  <2> QED  BY <2>1, <2>2, <2>3 DEF PositionInv, total
<1>3. CASE Disabled  BY <1>3 DEF Disabled, PositionInv
<1>4. CASE RunWord
  <2>1. running /\ active' = active  BY <1>4 DEF RunWord
  <2> DEFINE total == active.phase_total
  <2>2. /\ total \in WORD - 1 .. POS_MOD - WORD - 1
        /\ total = WORD - 1 => ~active.loop /\ active.len = WORD - 1
    BY <2>1 DEF PositionInv
  <2>4. CASE StayInPhase
    <3>1. phase_pos' \in 0 .. total - 1 /\ total > WORD
      BY <2>1, <2>4, StayPosition
    <3>2. total # WORD - 1
      BY <3>1, <2>2, Lengths, SMT
    <3> QED  BY <2>1, <2>2, <3>1, <3>2 DEF PositionInv
  <2>5. CASE EnterNextPhase
    BY <2>1, <2>2, <2>5, NextPosition DEF PositionInv
  <2>6. CASE EndSequence  BY <2>6 DEF EndSequence, PositionInv
  <2> QED  BY <1>4, <2>4, <2>5, <2>6 DEF RunWord
<1>5. CASE Idle  BY <1>5 DEF Idle, engineState, PositionInv
<1>6. CASE UNCHANGED vars
  BY <1>6 DEF vars, engineState, engineOut, PositionInv
<1> QED  BY <1>1, <1>2, <1>3, <1>4, <1>5, <1>6 DEF Next

\* Unless a loop has the shortest phase, a word never starts beyond the end of
\* its phase: it crosses at most one phase boundary.
THEOREM WordStartsInPhase == LoopsFillAWord /\ Spec => []PositionInPhase
<1>1. Init => PositionInv  BY DEF Init, PositionInv
<1>2. ASSUME LoopsFillAWord
      PROVE  TypeInv /\ PositionInv /\ [Next]_vars => PositionInv'
  BY <1>2, PositionStep
<1>3. PositionInv => PositionInPhase
  <2> SUFFICES ASSUME PositionInv, running PROVE phase_pos < active.phase_total
    BY DEF PositionInPhase
  <2> DEFINE total == active.phase_total
  <2>1. total \in WORD - 1 .. POS_MOD - WORD - 1 /\ phase_pos \in 0 .. total - 1
    BY DEF PositionInv
  <2> HIDE DEF total
  <2>2. phase_pos < total  BY <2>1, EngineAssumption, SMT
  <2> QED  BY <2>2 DEF total
<1>4. ASSUME LoopsFillAWord PROVE Spec => []PositionInPhase
  BY <1>1, <1>2, <1>3, <1>4, TypeInit, TypeStep, PTL DEF Spec
<1> QED  BY <1>4
=============================================================================
